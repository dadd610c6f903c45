CONSTANTS
  SlotsPerFrame = 9
  Frames = 2
  SlotsPerPeriod = 3
  DownlinkSlots = 1
  MixedDownlink = TRUE
  MixedUplink = TRUE
  MinFeedback = 3
  MaxFeedback = 6
  CsiFrames = 2
  CsiSlot = 5
  CsiBits = 10
  SimultaneousHarqCsi = FALSE
  SrConfigured = TRUE
  SrPeriod = 6
  SrOffset = 1
  SrResource = 0
  SrMatches = {"harq", "csi"}
  NrofHARQ = 3
  HarqRoundMax = 2
  OtherUsers = {{}, {4, 5}}
  UciDelay = 2
  MaxIdle = 3
  MaxLost = 1
SPECIFICATION FairSpec
INVARIANTS TypeOK EachInOneList NdiTellsNewBlock FeedbackForItsOwn AssertionsHold
PROPERTY FeedbackEnds
VIEW NdiView
