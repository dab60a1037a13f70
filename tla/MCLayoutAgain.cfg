SPECIFICATION SpecAgain
CONSTANTS
  MaxBlocks = 3
  Sizes = {1, 93}
  Graphs <- AgainGraphs
  Bodies <- MCBodies
  base = 64
  fullsize = 1000
  CAPTURESTACK_LEN = 4
  GENORDER_MAX = 8
  MaxRewrites = 2
INVARIANTS LinkedCode
CHECK_DEADLOCK FALSE
