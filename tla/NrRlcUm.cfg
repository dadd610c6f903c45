SPECIFICATION FairSpec
CONSTANTS
  SnCount = 4
  SnExtra = 0
  TxMaxSize = 4
  RxMaxSize = 4
  SduSizes = {2}
  Grants = {2, 4}
  Discards = TRUE
  MaxSdus = 5
  MaxInFlight = 2
  MaxReestablish = 1
INVARIANTS TxListConsistent WindowConsistent GapHasTimer
PROPERTY ServiceSpec GapResolved
CHECK_DEADLOCK FALSE
