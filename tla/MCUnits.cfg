CONSTANTS
  DEPTH = 4
  INPUT_PORTS = 2
  OUTPUT_PORTS = 2
  PIPE_LINE = 1
  DELAY = 4
  Data = {d1, d2, d3}
  Word = {w1, w2}
  None = None
  NUM_INPUTS = 4
  FIFO_DEPTH = 4
  ReadyHeld = TRUE
  LENGTH = 2
  PARALLELISM = 2
  XRequests <- MCXRequests
  NextRequests <- MCNextRequests
  RomRequests <- MCRomRequests
  UramAddr <- MCUramAddr
  NBPIPE = 1
SPECIFICATION UnitsSpec
INVARIANTS
  TypeOK
  PairsStayTogether
  ShownSetIsFresh
  SlackSuffices
  GrantsFirstFromBase
  WaitIsBounded
  LatencyIsFixed
PROPERTIES
  RingImplementsFifo
  StageImplementsFifo
  ReadyReturns
  ImplementsDoubleBuffer
