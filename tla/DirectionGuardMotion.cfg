SPECIFICATION RestSpec
CONSTANTS
  u1 = u1
  nil = nil
  None = None
  ZeroEpsilon = 0
  DirectionEpsilon = 1
  MaxReverseSpeed = 2
  NilUuid = nil
  Uuids = {u1}
  Generations = {1}
  LeaseModulus = 2
  Candidates <- AllCandidates
  CandidateTimeout = 1
  PermitTimeout = 0
  PrepareTimeout = 2
  RawOdomTimeout = 1
  StopSettle = 2
  MaxTime = 6
  MaxBoots = 1
INVARIANTS
  MotionObeysLease
  MotionIsFresh
PROPERTIES
  CarRestsBeforeMotion
  SmootherQuietBeforeLease
