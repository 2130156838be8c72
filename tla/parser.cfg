\* Modules of all sections, each with at most one entry and repeated at will.
SPECIFICATION Spec
CONSTANTS
  VEC_DEFAULT_CAPACITY = 10
  Types <- TwoTypes
  Limits <- SomeLimits
  MEM_CAP = 1
  U32_MAX = 2
  MaxList = 1
  MaxImports = 2
  MaxVectors = 4
INVARIANTS
  ParserTypeOK ImportsFirst ModuleClosed DataCounted ElementShape
PROPERTY Pinned
