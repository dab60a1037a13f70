\* Conditional moves are generated without the first byte of their opcode.
SPECIFICATION Spec
CONSTANTS
  decInstrCapacity = 10
  decBBCapacity = 3
  MaxPrefixes = 3
  FuncAddr = 100
  buf = 4096
  fullsize = 40
  capInstrCapacity = 6
  Programs <- MCCMovs
  Again <- MCAgain
INVARIANT CMovsStay
CHECK_DEADLOCK FALSE
