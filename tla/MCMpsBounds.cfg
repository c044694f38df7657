CONSTANTS
  Files <- MCFiles
  Infinite = 99
  Garbage = 7
  JunkSets <- NoJunk
SPECIFICATION Spec
CHECK_DEADLOCK FALSE
INVARIANT
  BoundsNameColumns
