SPECIFICATION Spec
CHECK_DEADLOCK FALSE
CONSTANTS
  MinOdomSamples = 3
  MinScanSamples = 2
  MinStreamSpan = 2
  MaxSensorAge = 1
  MaxScanOdomSkew = 1
  MaxTwistInterval = 1
  SimHorizon = 4
  StaleTimeout = 5
  MinPublishInterval = 2
  CheckPeriod = 1
  MaxCaptureAge = 1
  MaxFutureSkew = 1
  ExpectedFrame = "depth"
  SampleLimit = 3
  MaxPoints = 4
  Clouds <- MCClouds
  Slack = 1
  RelayHorizon = 14
  FrameHeader = 1
  FrameTail = 2
  Speeds = {1, 2, 3}
  Readings = {0, 1, 2}
  CommandTimeout = 2
  ReadBudget = 6
  MaxFrames = 4
  MaxDamaged = 1
  None = None
INVARIANTS
  PreflightSawStreams
  ActiveMeansFlowing
  WheelsFollowNewestCommand
  NewestFrameIsPublished
