SPECIFICATION MCSpec
CONSTANTS
  Def <- Table
  Unknown = 10
  MaxSize = 3
  BlockMax = 2
  SmData = {1, 2}
  Bytes = {0, 1, 3, 6, 10}
  JtBits = 6
  JtIrLen = 5
  JtWords = {1, 3, 42}
  JtFails = TRUE
  TlFuses <- MCFuses
  TlDebugBad <- MCDebug
  TlNamed = {2}
  GdInst = {1, 2}
  GdGood = {3}
  GdWeak = {5}
  GdUnset = 0
  GdParts <- MCParts
  EtParts <- MCEth
  EtWrap = 2
  EtTouch = {5, 9}
  FtTables <- MCTables
  FtMax = 5
  FtOverrides <- MCOverrides
  FtHalf = 3
  FtFaults = 1
  PvCount = 2
  PvChains = {1, 2}
  PvRaws = {1142, 2400}
  PvFuses = {1150, 1300}
  PvJunk = {4000}
  PvStale = {1, 2}
  PvEnd = 2
  PvReads = 2
INVARIANTS
  MCTypeOK PecProtects JtPatched   GdPersistsTested
  EtRunsLoaded FtLastApplies FtSameFile PvChainMeasured
