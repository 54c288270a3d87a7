CONSTANTS
  MaxGoals = 1
  MaxCancels = 2
  MaxLate = 1
  Faults = {"deadline"}
SPECIFICATION Spec
CHECK_DEADLOCK FALSE
PROPERTY CancelTrueMeansFree
