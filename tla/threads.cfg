\* One machine: calls, traps, growth, instances that fail half-way.
SPECIFICATION Spec
CONSTANTS
  A = A
  B = B
  C = C
  D = D
  E = E
  F = F
  G = G
  Mods = {A, B, C, D}
  Desc <- MCDesc
  Names = {"a", "b", "c", "e"}
  Aliases <- AliasC
  VMs = {"v"}
  WASM_MEM_MAX_PAGES = 2
  FRAME_LIMIT = 1
  STACK_LIMIT = 3
INVARIANTS
  ImportsFit InitComplete References CountsExact CrashNeedsFailure
