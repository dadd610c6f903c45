\* Two SDUs that fill the window, sent whole or in two segments, discarded or not,
\* and a re-establishment.
CONSTANTS
  SnCount = 4
  SnBytes = 2
  PollPdu = 2
  PollByte = 0
  MaxRetxThreshold = 1
  TxMaxSize = 4
  RxMaxSize = 100
  MaxNackRange = 255
  SduSizes = {2}
  Grants = {3, 100}
  StatusGrants = {100}
  StatusInOrder = TRUE
  LateAnswers = TRUE
  Discards = TRUE
  RetxBound = 0
  MaxSdus = 2
  MaxInFlight = 2
  MaxStatus = 1
  MaxReestablish = 1
SPECIFICATION Spec
INVARIANTS SegmentsCounted AcknowledgedIsReceived ListsOrdered BufferAccounted
PROPERTY ServiceSpec
CHECK_DEADLOCK FALSE
