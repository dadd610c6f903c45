SPECIFICATION FairSpec
CONSTANTS
  NbThreads = 4
  ContinuousTx = TRUE
  Plan <- PlanMixed
INVARIANTS NoJobLost AbortCountsEach IndicatedOnce TransmittedInOrder
PROPERTY EventuallySent
CHECK_DEADLOCK FALSE
