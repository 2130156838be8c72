\* Two machines and the registry; modules that fail in every way.
SPECIFICATION Spec
CONSTANTS
  A = A
  B = B
  C = C
  D = D
  E = E
  F = F
  G = G
  Mods = {E, F, G}
  Desc <- MCDesc
  Names = {"a", "b", "c", "e"}
  Aliases <- NoAlias
  VMs = {"v", "w"}
  WASM_MEM_MAX_PAGES = 2
  FRAME_LIMIT = 0
  STACK_LIMIT = 3
INVARIANTS
  RtTypeOK RefCounts Linked
PROPERTY StatesFinal
