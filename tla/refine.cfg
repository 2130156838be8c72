SPECIFICATION BothSpec
CONSTANTS
  Instrs <- DeepInstrs
  Callees <- ControlCallees
  Funs <- DeepFuns
  U16_MAX = 65535
  U32_RANGE = 65536
  MaxInstrs = 7
  MIN_PAGES = 0
  MAX_PAGES = 0
PROPERTIES
  ImplementsLabels EndsOrLoops
