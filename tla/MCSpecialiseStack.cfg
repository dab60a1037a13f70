CONSTANTS
  W = 4
  Regs <- MCRegs
  CallerSaved = {"D", "DI"}
  StackStart = 12
  StackSize = 3
  MAX_CALLDEPTH = 1
  CC_MAXCALLDEPTH = 1
  force_unknown = {}
  hasReturnFP = FALSE
  MakeDynamic = 8
  MakeStatic = 9
  Functions <- Stack
  Branches = {"JZ", "JC"}
  Others = {5}
  Heap = {1}
  Data = {0}
  Base = 8
  MaxSaved = 1
SPECIFICATION Spec
INVARIANTS KnownAgrees UnknownAgrees ReturnAgrees
CHECK_DEADLOCK FALSE
