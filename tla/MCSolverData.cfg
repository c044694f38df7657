CONSTANTS
  Models <- MCModels
  Infinity <- Inf
  XValues <- Xs
  YValues <- Ys
  Unit = 16
  Passes <- MCPasses
  CommandLines <- Lines
  Numeral <- Num
  nIterLim = 40
  AlwaysChecked = 4
  CheckInterval = 6
  Adaptive = TRUE
  GpuRestart = TRUE
  ZeroInBounds = FALSE
SPECIFICATION UnitsSpec
CHECK_DEADLOCK FALSE
INVARIANTS
  TypeOK
  SamePoints
  RowValuesReturned
  DualsReturned
  DualObjectiveBounds
  JudgedUnscaled
  MemoryIsReturned
  SolvesAsAsked
  ConversionsAgree
  ReadsWhatIsWritten
  LoopTypeOK
  ProductsMatch
  ReturnedWasJudged
  InfeasibleWasJudged
  DecayFromLastRestart
  SumSinceRestart
  NoUpdateWhenOver
PROPERTY LoopTerminates
