SPECIFICATION BytesSpec
CONSTANTS
  GROUP = 3
  WIDTHS = {5, 7}
  BufferLen = 3
  Depth = 3
  U32_RANGE = 8
  U64_RANGE = 32
  PAGE = 2
  MEM_MAX = 4
  TAB_MAX = 7
  Tables = {1, 2}
  DATA_LEN = 2
  ELEM_LEN = 2
  OBJECTS = {1, 2}
INVARIANTS
  FillChecksSize
