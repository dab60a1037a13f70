CONSTANTS
  W = 4
  Regs <- MCRegs
  CallerSaved = {"D", "DI"}
  StackStart = 12
  StackSize = 1
  MAX_CALLDEPTH = 1
  CC_MAXCALLDEPTH = 1
  force_unknown = {}
  hasReturnFP = FALSE
  MakeDynamic = 8
  MakeStatic = 9
  Functions <- Compare
  Branches = {"JBE", "JA"}
  Others = {5}
  Heap = {}
  Data = {}
  Base = 8
  MaxSaved = 1
SPECIFICATION Spec
INVARIANT BranchesAgree
CHECK_DEADLOCK FALSE
