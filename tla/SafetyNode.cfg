SPECIFICATION FairSpec
CONSTANTS
  odom = odom
  depth = depth
  None = None
  Sensors = {odom, depth}
  Required = {odom}
  Throttled = {odom}
  SensorTimeout <- MCSensorTimeout
  ThrottleInterval = 2
  CheckVoltage = TRUE
  VoltageTimeout = 1
  CommandTimeout = 1
  AllowSteeringCalibration = TRUE
  MaxHold = 2
  EmergencyStopOnStart = FALSE
  MaxTime = 3
INVARIANTS
  DriveFollowsNewestCommand
  HoldIsQuiet
PROPERTY
  EmergencyStopReachesWheels
