CONSTANTS
  N = 4
  Ids = {r1, r2}
  MaxWords = 4
  CopierDrives = FALSE
SPECIFICATION OneRowSpec
INVARIANT AdderTree
