\* Two SDUs of one byte over a fair lossy link.
CONSTANTS
  SnCount = 8
  SnBytes = 2
  PollPdu = 0
  PollByte = 0
  MaxRetxThreshold = 1
  TxMaxSize = 100
  RxMaxSize = 100
  MaxNackRange = 255
  SduSizes = {1}
  Grants = {100}
  StatusGrants = {100}
  StatusInOrder = TRUE
  LateAnswers = FALSE
  Discards = FALSE
  RetxBound = 0
  MaxSdus = 2
  MaxInFlight = 2
  MaxStatus = 1
  MaxReestablish = 0
SPECIFICATION FairSpec
PROPERTY EventuallyAcknowledged
CHECK_DEADLOCK FALSE
