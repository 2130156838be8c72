SPECIFICATION RunSpec
CONSTANTS
  Instrs <- ControlInstrs
  Callees <- ControlCallees
  Funs <- ControlFuns
  U16_MAX = 5
  U32_RANGE = 65536
  MaxInstrs = 7
INVARIANTS
  TypeOK RunTypeOK SlotLayout TargetsOnBoundary JumpTableLinked
  CursorSafe StackTyped RelinkBenign
