\* Both queues fill up.
CONSTANTS
  Ues = {u1}
  GtpThreads = {gtp}
  TunThreads = {}
  MacThreads = {mac}
  RlcQueueSize = 2
  PdcpQueueSize = 2
  MaxSdusPerPdu = 2
  MaxDownlink = 4
  MaxUplink = 4
  MaxTicks = 0
SPECIFICATION Spec
INVARIANT NoCircularWait
CHECK_DEADLOCK FALSE
