SPECIFICATION Spec
CONSTANTS
  None = None
  Sensors = {"odom", "depth_points"}
  Required = {"odom", "depth_points"}
  Throttled = {"odom"}
  Watched <- MCWatched
  SensorTimeout <- MCSensorTimeout
  ThrottleInterval = 2
  CheckVoltage = TRUE
  VoltageTimeout = 1
  CommandTimeout = 1
  AllowSteeringCalibration = TRUE
  MaxHold = 1
  EmergencyStopOnStart = TRUE
  MaxTime = 2
  MaxQueue = 2
INVARIANTS
  ReleasedOnlyUnderWatch
  PassIsEarned
PROPERTY
  ImplementsCppNode
