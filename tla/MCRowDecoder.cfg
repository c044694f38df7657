CONSTANTS
  IN_PAR = 2
  OUT_PAR = 2
  ID_WIDTH = 3
  OFFSET = 0
  Offsets = {0, 1, 4, 7}
  MaxChunks = 3
  WideOffsets = {0, 1, 3}
  WideChunks = 2
  UpstreamStalls = FALSE
  ResetAnywhere = FALSE
SPECIFICATION BothSpec
INVARIANTS
  TypeOK
  NothingForgotten
  WideNothingForgotten
PROPERTIES
  RowIdsInOrder
  RowsComeOut
  WideRowsBeginInPlace
