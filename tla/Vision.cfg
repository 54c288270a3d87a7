SPECIFICATION MCSpec
CHECK_DEADLOCK FALSE
CONSTANTS
  Plans <- MCPlans
  Transport = 1
  QrTimeout = 3
  QrRetries = 1
  RetryDelay = 0
  ReaderStartup = 1
  VlmTimeout = 3
  MaxVlmTimeout = 3
  Grace = 1
  Overrun = 1
  Codes = {"left", ""}
  Replies <- MCReplies
  MaxSamples <- MCMaxSamples
  MaxTime = 12
  Cones = {2, 3}
  AZone = {2, 3}
  Frames <- MCFrames
  MinRange = 1
  MaxRange = 3
  DepthRange = 3
  ClearRange = 3
  MinBeams = 1
  MinLandmarkIds = 2
  LocalReach = 2
  MaxAge = 1
  MaxMapAge = 1
  MaxSkew = 1
  MaxInterpolationSpan = 1
  PerceptionHorizon = 3
INVARIANT
  ReadyIsOfThisWorld
PROPERTIES
  SuccessIsFresh
  DescriptionIsComplete
  SampleInTimeIsServed
