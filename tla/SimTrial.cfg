SPECIFICATION Spec
CHECK_DEADLOCK FALSE
CONSTANTS
  Nav2Nodes = {"controller", "planner"}
  Segments <- MCSegments
  MonitorStatuses <- MCMonitorStatuses
  SimFaults <- MCFaults
  RunRoute = TRUE
  ShutdownOnRouteExit = FALSE
  Params = {"p"}
  Values = {1, 2}
  Allowed = {1}
  RequiredChecks = {"scan", "local"}
  MaxRuns = 2
  MaxSaves = 1
INVARIANT
  VerdictIsRight
PROPERTIES
  RouteStartsVerified
  BringUpDecides
