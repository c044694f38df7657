CONSTANTS
  IN_PAR = 2
  OUT_PAR = 2
  ID_WIDTH = 3
  OFFSET = 0
  Offsets = {0, 3, 5}
  MaxChunks = 3
  UpstreamStalls = TRUE
  ResetAnywhere = FALSE
SPECIFICATION Spec
PROPERTY RowIdsInOrder
