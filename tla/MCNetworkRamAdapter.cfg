CONSTANTS
  NUM_INPUTS = 2
  NUM_OUTPUTS = 2
  FIFO_DEPTH = 4
SPECIFICATION Spec
INVARIANT TakenExactlyOnce
