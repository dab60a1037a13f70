SPECIFICATION Spec
CONSTANTS
  Start <- MCStart
  Extent <- MCExtent
  MaxRanges = 2
  Code <- MCCode
  Targets <- MCTargets
  Shared = {"jcc"}
  DecodingCapacities <- MCDecodingCapacities
  CaptureCapacities <- MCCaptureCapacities
  Default <- MCDefault
  PoolSize = 2
  GENORDER_MAX = 4
  MaxVectorBytes = 32
INVARIANTS
  TypeOK
  CodeIsOfFunction
  VariantsServe
  BlocksWhole
  FreshStart
  RangesFound
CHECK_DEADLOCK FALSE
