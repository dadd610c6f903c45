CONSTANTS
  SlotsPerFrame = 12
  Frames = 2
  SlotsPerPeriod = 4
  DownlinkSlots = 2
  MixedDownlink = TRUE
  MixedUplink = TRUE
  MinFeedback = 3
  MaxFeedback = 7
  CsiFrames = 0
  CsiSlot = 7
  CsiBits = 10
  SimultaneousHarqCsi = FALSE
  SrConfigured = TRUE
  SrPeriod = 8
  SrOffset = 2
  SrResource = 0
  SrMatches = {"harq", "csi"}
  NrofHARQ = 3
  HarqRoundMax = 2
  OtherUsers = {{}, {3, 7}}
  UciDelay = 2
  MaxIdle = 8
  MaxLost = 0
SPECIFICATION Spec
INVARIANT AssertionsHold
