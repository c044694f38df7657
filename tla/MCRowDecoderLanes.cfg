CONSTANTS
  IN_PAR = 4
  OUT_PAR = 2
  ID_WIDTH = 3
  OFFSET = 0
  Offsets = {0, 1, 3}
  MaxChunks = 2
  UpstreamStalls = FALSE
  ResetAnywhere = FALSE
SPECIFICATION Spec
PROPERTY RowIdsInOrder
