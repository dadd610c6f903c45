SPECIFICATION Spec
CONSTANTS
  WindowSize = 4
  HfnCount = 2
  TReordering = 1
  IntHalf = 64
  k1 = k1
  k2 = k2
  Keys = {k1, k2, ZeroKey}
  NoKey = NoKey
  ZeroKey = ZeroKey
  Calls <- ThreeCalls
  Lens = {1}
  IsSrb = TRUE
  Reach = 4
  MaxCount = 9
  MaxTime = 3
  MaxTick = 2
  MaxReconf = 1
INVARIANTS
  TypeOK
  CountRecovered
  DeliveredInOrder
  ListOrdered
  WindowOrdered
  DeliveredIntact
  NoOverdueGap
CHECK_DEADLOCK FALSE
