CONSTANTS
  MaxGoals = 1
  MaxCancels = 1
  MaxLate = 1
  Faults = {"call", "deadline", "settle", "result", "revoke"}
  Segments <- VlmOnly
  AutostartTries = 0
  QrRetries = 0
  MaxGenerations = 1
  MissionFaults = {"servers", "vlm", "route", "shutdown"}
SPECIFICATION FairMissionSpec
CHECK_DEADLOCK FALSE
INVARIANT ShutdownShutsGate
PROPERTIES StopEndsMission CallsReturn
