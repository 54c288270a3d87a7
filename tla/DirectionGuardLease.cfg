SPECIFICATION Spec
CONSTANTS
  u1 = u1
  u2 = u2
  None = None
  ZeroEpsilon = 0
  DirectionEpsilon = 1
  MaxReverseSpeed = 2
  u3 = u3
  nil = nil
  NilUuid = nil
  Uuids = {nil, u1, u2, u3}
  Generations = {0, 1}
  LeaseModulus = 3
  Candidates <- FewCandidates
  CandidateTimeout = 1
  PermitTimeout = 0
  PrepareTimeout = 1
  RawOdomTimeout = 1
  StopSettle = 1
  MaxTime = 3
  MaxBoots = 2
INVARIANTS
  LeasesAreUnique
PROPERTIES
  GateSafety
