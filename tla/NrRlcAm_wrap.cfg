\* More SDUs than SNs: the SN wraps around.
CONSTANTS
  SnCount = 4
  SnBytes = 2
  PollPdu = 0
  PollByte = 0
  MaxRetxThreshold = 1
  TxMaxSize = 100
  RxMaxSize = 100
  MaxNackRange = 255
  SduSizes = {1}
  Grants = {100}
  StatusGrants = {100}
  StatusInOrder = TRUE
  LateAnswers = TRUE
  Discards = FALSE
  RetxBound = 0
  MaxSdus = 5
  MaxInFlight = 2
  MaxStatus = 1
  MaxReestablish = 0
SPECIFICATION Spec
INVARIANT AcknowledgedIsReceived
CHECK_DEADLOCK FALSE
