\* A callee of call_indirect grows the memory.
SPECIFICATION BothSpec
CONSTANTS
  Instrs <- DataInstrs
  Callees <- DataCallees
  Funs <- DataFuns
  U16_MAX = 65535
  U32_RANGE = 65536
  MaxInstrs = 4
  MIN_PAGES = 1
  MAX_PAGES = 2
INVARIANTS
  CopyFollowsCallees
