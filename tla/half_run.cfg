\* A function of a failed instance is run from the host.
SPECIFICATION Spec
CONSTANTS
  A = A
  B = B
  C = C
  D = D
  E = E
  F = F
  G = G
  Mods = {A, B, C}
  Desc <- MCDesc
  Names = {"a", "b", "c", "e"}
  Aliases <- NoAlias
  VMs = {"v"}
  WASM_MEM_MAX_PAGES = 2
  FRAME_LIMIT = 1
  STACK_LIMIT = 3
INVARIANTS
  RunsInReady
