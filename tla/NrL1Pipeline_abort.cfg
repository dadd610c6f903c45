SPECIFICATION Spec
CONSTANTS
  NbThreads = 4
  ContinuousTx = FALSE
  Plan <- PlanOverlap
INVARIANT NoJobLost
CHECK_DEADLOCK FALSE
