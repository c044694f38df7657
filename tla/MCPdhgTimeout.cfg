CONSTANTS
  nIterLim = 15
  AlwaysChecked = 10
  CheckInterval = 40
  Adaptive = TRUE
  GpuRestart = TRUE
  ZeroInBounds = TRUE
SPECIFICATION Spec
INVARIANT NoRejectedIterate
