\* The queue to RLC fills up, the one to PDCP does not.
CONSTANTS
  Ues = {u1}
  GtpThreads = {gtp}
  TunThreads = {tun}
  MacThreads = {mac}
  RlcQueueSize = 2
  PdcpQueueSize = 3
  MaxSdusPerPdu = 2
  MaxDownlink = 4
  MaxUplink = 3
  MaxTicks = 2
SPECIFICATION FairSpec
INVARIANT NoCircularWait
PROPERTY DownlinkSpec UplinkSpec EventuallyHanded TimeCatchesUp
CHECK_DEADLOCK FALSE
