CONSTANTS
  MaxGoals = 2
  MaxCancels = 2
  MaxLate = 1
  Faults = {"call", "deadline", "settle", "reject", "revoke"}
  Segments <- QrThenReturn
  AutostartTries = 1
  QrRetries = 1
  MaxGenerations = 2
  MissionFaults = {"servers", "qr", "vlm", "origin", "route"}
SPECIFICATION MissionSpec
CHECK_DEADLOCK FALSE
INVARIANTS QuietStates ResetFindsTheCarStill CancelStaysWithItsGoal
