\* SDUs of three and of one byte, in any segments; NACKs cover ranges of SDUs and the SN
\* wraps around.
CONSTANTS
  SnCount = 6
  SnBytes = 2
  RxMaxSize = 100
  MaxNackRange = 2
  SduSize = 3
  StatusGrants = {5, 9, 11, 15}
  MaxSdus = 7
SPECIFICATION Spec
INVARIANTS
  ReceiverConsistent DeliveredWholeOnce CompleteIsDelivered StatusComplete ReportedSizeSuffices
PROPERTY ReceiverAdvances
CHECK_DEADLOCK FALSE
