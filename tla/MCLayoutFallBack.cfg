SPECIFICATION Spec
CONSTANTS
  MaxBlocks = 3
  Sizes = {0, 1, 93, 119, 127}
  Graphs <- MCGraphs
  Bodies <- MCBodies
  base = 64
  fullsize = 400
  CAPTURESTACK_LEN = 4
  GENORDER_MAX = 4
  MaxRewrites = 1
INVARIANTS FallBack
CHECK_DEADLOCK FALSE
