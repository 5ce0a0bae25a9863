SPECIFICATION MCSpec
CONSTANTS
  LowClock = 1
  ResetSafe = 2
  Fmin = 3
  HostFmaxMin = 3
  Fmax = 4
  HighClock = 5
  VddMin = 1
  VddBoot = 1
  VddMax = 2
  Unit = 2
  Boots = {3}
  Curves <- CurveChoices
  CkAiclks = {780, 815, 800}
  CkGddrs = {3, 300, 703, 750, 1300}
  RgBoards = {"P300_LEFT", "UBB", "UNKNOWN"}
  RgFaultMax = 3
  RgRetries = 1
  RgVolts = {"low", "high"}
  GcTables = {t1, t2}
  GcNone = none
  GcHalf = 4
  GcReadFaults = FALSE
  TtDie = {30}
  TtOffsets <- MCOff
  TtGddr = {80,95,110}
  TtTrip = 95
  TtCrit = 110
  TtDur = 2
  TtIntervals = {1,3}
  TtAsks = 2
  I2Depth = 2
  I2Max = 3
  PmEids = {"bmc", "tool"}
  PmSensors <- MCSensors
  PmCount <- MCCount
  PmDepth = 2
  PmTids = {0}
  PmRaws <- MCRaws
  PmMods <- MCMods
  PmShifts = {0, 4}
  PmBits = 5
  PmMicro = 100
  PmS32 = 15
INVARIANTS
  MCTypeOK CkRatesMet  GcLiveKept CatTripsNearShutdown
  GddrTripsInTime I2ReadTrue PmTellsTrue

  
