SPECIFICATION MCSpec
CONSTANTS
  Causes = {"perst", "therm", "watchdog", "pgood", "jtag"}
  RbProcs = 2
  RbChunks = 2
  RbTries = 2
  RbTiles = 2
  RbAsk <- MCAsk
  RbStaged = {"good", "odd"}
  RbPolicy = "stop"
  RbPings = 2
  RbDma = TRUE
  PlBufs = {"b1","b2"}
  PlRoom <- MCRoom
  PlFrame = 6
  PlHdr = 2
  PlThresh = 3
  PlTexts = {4}
  PlMax = 2
  AdDesc = 4
  AdGroup = 2
  AdBlocks = 2
  NdWrap = 6
  NdBursts = {1, 2}
  NdBlocks = 2
  NdOwedMax = 2
  VuCap = 2
  VuWrap = 4
  VuBytes = {"a","b"}
  VuIrqs = {"rx","tx"}
  PsIds = {1, 2}
  PsExecs = 2
  PsOut = 3
  PsChunk = 2
  PsLens = {1, 4}
  PsReads = {0, 1}
  SfSector = 2
  SfSectors = 3
  SfDepth = 5
  SfVars = {"BOARD_VAR_SPI_JEDEC_ID"}
  SfRanges <- MCRanges
INVARIANTS
  MCTypeOK TriggersKept  RbAnswerTrue HtLiveAccess PlHandedOver
  AdTrueSuccess NdTrueDone VuRingHolds PsOwnOutput SfContained
