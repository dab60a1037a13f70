\* Machine code decoded, generated and decoded again.
SPECIFICATION Spec
CONSTANTS
  decInstrCapacity = 10
  decBBCapacity = 3
  MaxPrefixes = 3
  FuncAddr = 100
  buf = 4096
  fullsize = 40
  capInstrCapacity = 6
  Programs <- MCPrograms
  Again <- MCAgain
INVARIANTS
  TypeOK
  WellFormedBlocks
  DecodedIsCurrent
  RoundTrip
  StorageAccounted
CHECK_DEADLOCK FALSE
