CONSTANTS
  N = 4
  Ids = {r1, r2}
  MaxWords = 5
  SixWords = 3
  CopierDrives = FALSE
SPECIFICATION WidthsSpec
INVARIANTS
  TypeOK
  Conservation
  SumsAreOfOneId
  SixConserve
PROPERTY SixDrain
