CONSTANTS
  MaxGoals = 2
  MaxCancels = 1
  MaxLate = 1
  Faults <- AllFaults
SPECIFICATION Spec
CHECK_DEADLOCK FALSE
INVARIANTS OneGoalAtATime NoLeaseForgotten CancelFollowsRevoke
PROPERTIES SuccessIsEarned CancelTrueMeansStopped
