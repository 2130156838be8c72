SPECIFICATION RunSpec
CONSTANTS
  Instrs <- DataInstrs
  Callees <- DataCallees
  Funs <- DataFuns
  U16_MAX = 65535
  U32_RANGE = 65536
  MaxInstrs = 4
INVARIANT RoomForCallees
