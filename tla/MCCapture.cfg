SPECIFICATION FairSpec
CONSTANTS
  Size = 4
  Top = 3
  Addr <- MCAddr
  State <- Values
  InitState = {1}
  Code <- MCCode
  Instr <- MCInstr
  JccType = {"IT_JZ"}
  Emulate <- MCEmulate
  EsIsEqual <- MCEsIsEqual
  Run <- MCRun
  func = 1
  Hints <- MCHints
  CAPTURESTACK_LEN = 3
  SAVEDSTATE_MAX = 3
  capBBCapacity = 5
  capInstrCapacity = 5
INVARIANTS TypeOK StackDiscipline NothingForgotten EmptyUntilOpened UniqueKeys
INVARIANTS WellLinked PoolPartition Discovered SavedOnce AllPathsDone Residual
PROPERTIES EndedStays ExploresPaths Terminates
CHECK_DEADLOCK FALSE
