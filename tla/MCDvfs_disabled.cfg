SPECIFICATION Spec
CONSTANTS
  LowClock = 1
  ResetSafe = 2
  Fmin = 3
  HostFmaxMin = 3
  Fmax = 4
  HighClock = 5
  VddMin = 1
  VddBoot = 1
  VddMax = 2
  Unit = 2
  Boots = {3}
  Curves <- CurveChoices
INVARIANT UncontrolledClock
