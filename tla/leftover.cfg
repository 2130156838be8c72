SPECIFICATION RunSpec
CONSTANTS
  Instrs <- ControlInstrs
  Callees <- ControlCallees
  Funs <- ControlFuns
  U16_MAX = 65535
  U32_RANGE = 65536
  MaxInstrs = 6
INVARIANT ReturnHasResults
