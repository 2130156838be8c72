# Silverfir: a TLA+ verification project

Silverfir is a WebAssembly interpreter in C. It parses a module, validates its
functions, links and initialises instances in a virtual machine and runs them
*in place*: on the bytes of the module, without rewriting them. What makes that
possible is the **jump table** that the validator builds as a by-product: the
interpreter keeps no labels, treats `block` and `loop` as no-ops and takes each
branch from the slot at `next_jt_idx`. This project models that core first.

## 1. Inventory

Paths are relative to `src/src/` of the repository.

| component | state | operations | talks to |
|---|---|---|---|
| instruction decoder `common/op_decoder.c` | place in the code | read an opcode and its immediates, call one callback | any set of callbacks: the validator, the IR builder |
| function validator `runtime/validator.c` | value stack, control stack with pending slots, jump table, `stack_size_max` | one callback per opcode class; link the table at the end | writes `func.jt` and `func.stack_size_max`, which the interpreters use |
| in-place interpreter, direct threaded `interpreter/in_place_dt.c` | `pc`, stack, locals, `next_jt_idx`; the thread's depth and size | one handler per opcode; calls itself for a callee | the function record, the instance's memories, tables, globals, the host's trampolines |
| in-place interpreter, tail calls `interpreter/in_place_tco.c` | the same, in registers, and the memory's address and size | one function per opcode | the same |
| thread `interpreter/interpreter.c`, `runtime/vm.h` | trapped flag, results, frame depth, stack size | call a function from the host | an interpreter |
| virtual machine `runtime/vm.c` | a list of module instances, each with a state, its entities and the addresses it links to | instantiate (validate, create, link, initialise), find, drop | validator, constant expressions, modules |
| runtime `runtime/runtime.c` | lists of modules and virtual machines | add, register, drop | modules' reference counts |
| module and parser `runtime/module.c`, `runtime/parser.c` | the parsed sections | parse, resolve exports and imports, drop | the byte stream |
| constant expressions `interpreter/const_expr_eval.c` | none | evaluate an initialiser | globals already linked |
| containers and stream `utils/` | vectors, lists, byte stream with LEB128 readers | push, pop, resize, read with bounds checks | everything |
| host modules and WASI `host/` | file descriptors | trampolines, system calls | libuv |
| IR builder `jit/` | an unfinished compiler's graph | decoder callbacks | not used by the runtime |

What is hard here is not concurrency (a virtual machine is used by one thread)
but *agreement over long sequences*: the validator computes, once and for all
paths, what the interpreter will need on each path; the link step computes for
each slot which slot comes next after a jump; and the instance life cycle
leaves things half done when a step fails. Correctness means:

* *validator and jump table*: slots lie in code order; every branch gets the
  address of an instruction; after a jump the cursor is at the first slot
  behind the landing place; the room for the stack suffices.
* *interpreter*: whichever way the branches go, the cursor is at the slots of
  the current instruction; the stack has the types the validator saw; it
  computes what the label-stack machine of the WebAssembly specification does.
* *virtual machine and runtime*: a module in use is not dropped; an import leads
  to a definition of its kind and type, within the limits it asked for, however
  the owner grows; steps that fail leave no dangling address behind; what is
  said of an instance is final.
* *byte stream*: the readers accept exactly the numbers of the binary format, the
  unchecked ones read again what the checked ones read, and the bytes of an open
  slice are not read through the stream that it was cut from.
* *bounds checks*: an access goes on exactly when it is in bounds, at any size of
  memory and tables and with the widths that the operands have.
* *thread*: a thread that has not trapped has its whole limit again after any
  number of calls; one that has trapped runs nothing until it is reset.

`PROJECT.json` lists the hazards at their lines.

## 2. Modules

| module | models |
|---|---|
| `WasmCode` | value types, function types, instructions, encoded lengths, block structure |
| `Validator` | the decoder's loop and every callback of `validator.c`, with the jump table |
| `InPlaceInterp` | one activation of `in_place_dt_call` on a validated function; extends `Validator`, so that the two share the function record as in the code |
| `TailCallInterp` | one activation of `in_place_tco.c`, beside the other build; extends `InPlaceInterp` and shares its jumps |
| `LabelInterp` | abstract specification: the label-stack interpreter that `docs/Interpreter.md` starts from |
| `InPlaceRefinement` | the mapping from both builds of the in-place interpreter to `LabelInterp` |
| `MCInterp`, `MCTail` | instances for TLC: bodies, callees, functions |
| `ValidatorProofs`, `JumpTableProofs` | theorems about `Validator`: types and layout, then the targets and links of the jump table |
| `InterpProofs`, `SoundnessProofs` | theorems about `InPlaceInterp`: the cursor, then the types on the stack |
| `TailProofs` | theorems about `TailCallInterp`, from an instance of `SoundnessProofs` |
| `Runtime` | the registry of `runtime.c`, module names and reference counts, and `vm_instantiate_module` with linking and initialisation (`vm.c`) |
| `Threads` | host calls, nested activations, traps and what running code does to the shared tables and memories; extends `Runtime` |
| `RuntimeProofs` | theorems about `Runtime` and `Threads` |
| `MCRuntime` | seven small modules and their import graphs, for TLC |
| `Vec` | the growing vectors of `utils/vec.h`, with their capacity and the flag that pins them |
| `Parser` | `parse_module` and the thirteen `parse_section_...`; extends `Vec` |
| `MCParser` | types and limits for TLC |
| `ParserProofs` | theorems about `Parser` |
| `Stream` | the byte stream of `utils/stream.h`: slices, the checked and the unchecked LEB128 readers, and the numbers of the WebAssembly specification as reference |
| `Access` | the bounds checks of the memory and table instructions, with the widths of their operands, and what changes a size |
| `MCBytes` | `Stream` and `Access` in one run |
| `BytesProofs` | theorems about them |

**How state and actions correspond.** `val_stack`, `ctrl_stack`, `jt` and
`stack_size_max` are the fields of that name. A control frame has the C
record's fields; `pending_jt_slots` is a set because the vector is appended to
in increasing order. `offset` is the decoder's place. Each action `on_xxx` is
the callback `validator_on_xxx` together with the decoder's reads around it;
the data instructions share `on_data`, with what each callback pops and pushes
in `Sig`. `Valid` is the conjunction of a callback's checks: an action is
taken when they hold, `Reject` when one fails. `EmptyVecAccess` is the case
that a callback looks at the innermost frame after the function's own `end`.
Addresses are offsets from the start of the function's code; the width of
`stack_offset` and `next_idx` is kept (`U32`, `U16`). `code` records what the
validator saw at each instruction: its address, its first slot, the types on the
stack and whether it is `dead`, that is, inside of any block that cannot be reached
from there on (the C record flags only the innermost one; a block opened in dead
code starts with a clear flag).

In `InPlaceInterp`, `Run...` is `OP(...)` of the handler's name. A value is its
type and the instruction that made it, so that values can be told apart;
conditions and table indices go every way. What would be an assertion failure
or a stray access in C is a `status` of its own (`bad_slot`, `bad_pc`,
`bad_stack`, `bad_room`, `bad_mem`), which the properties exclude. A callee is
one step: it returns its results or traps.

In `TailCallInterp` `Tail...` is the handler of that name in `in_place_tco.c`. A
handler runs with its opcode already read: `handler` is the instruction and `pc`
is behind its opcode, so that `Place` (`pc - 1`) is what the other build has as
`pc`. `READ_NEXT_OP` and `NEXT_OP` are `ReadNextOp` and `NextOp`. `mem0` and
`mem0_size` are the copy of memory 0 in `call_ctx`; a callee of the model may grow
the memory (host functions do not), and then the copy's address counts as given
back until it is fetched again. Which of the builds runs is a compile-time choice in the
code; here it is made when the function is called, so that one run checks both.
After a trap the tail-call build restores the thread's counters and the other
does not: no one can tell, because a trapped thread is refused until it is reset.

In `Stream` the widths are scaled: a byte is a continuation bit and 3 bits of
payload, a number has 5 or 7 bits, so that the last byte holds two of the number's
bits or one (four and one for 32 and 64 in the code). `streams` is the chain of
slices from the whole buffer to the one that is read. The loops of the checked
readers are the least length that ends a number; the unrolled unchecked readers
keep their arithmetic, which adds whole bytes and subtracts the continuation bits.
Powers and sums are recursive functions (`Pow2`, `SumOf`), for the provers know no
laws of `^`.

In `Access` the words are 0..7 and indices 0..31, and each `...Ok` is an
instruction's check with its widening (`Unsigned` is `u_u32`, `Signed` is
`u_i32`). Contents are left out; only the grows and drops are actions. Sizes start
within their limits, which for a table is all that an operand can count
(`u32_MAX` entries, `parser.c:336`). `call_indirect` widens its index by the sign
(`in_place_dt.c:219`), so that in a table of more than half as many entries those of
the upper half are there for `table.get` and refused by `call_indirect`.

In `Runtime` each host operation is one action, except `vm_instantiate_module`:
it stops in the middle when a step fails and leaves what it did, so it is told
entity by entity and segment by segment, with `call` as its place. The four
address vectors of an instance are one function `addrs` over the module's
entities, taken in the order in which `vm_link_module_inst` links them. An
address is <<instance, entity>>. `modules` is a set because names, not places,
find a module, and a module's users are counted over all machines. Memory contents
and the values of globals are left out; where a reference is read from a global, it
may be any that a global can hold (`AnyRefs`). The pages of a new memory are those
whose bytes a u32 counts (`vm.c:88`): a memory declared with `WASM_MEM_MAX_PAGES`
starts with none. The initialisation runs on a local copy of the instance
(`vm.c:503`) that shares all its vectors with the one in the list, so that one
instance stands for both.

References have two values that are no function's. `nullref` (`uptr_MAX`) is what
`ref.null` gives, what new tables hold and what `call_indirect` refuses. `NULL` is 0:
an address that is not linked yet and, as a reference, what a local holds that was
never assigned (`in_place_dt.c:56`), a global before its initialisation, and
`ref.func` of a function that was not linked; it also stands for the values that a
host passes as references or that a body gets from a stack that the validator saw
wrongly. A module's `refs` says whether its code can have references from
anywhere but `ref.null`, `ref.func` and tables, that is whether it has locals,
globals or function types with a reference type or a body that is accepted though
not well typed; if so, its code may store any of `AnyRefs`. `Crash` has three ways:
an access through an address that was never set (`"crash"`), through a reference in
a table that is no function's (`"bad_ref"`), and to the memory of a module without
one (`"no_memory"`: `memory.size` and `memory.grow` are validated without a look
for it).

In `Threads` the code of a function is left open: an activation may call every
function that it can name or finds in a table, store references, grow, drop
segments, trap, return or crash in one of the three ways, in any order. That is an
abstraction of every body the validator accepts, as far as instances, tables,
sizes and threads go; references that a host carries from one machine to another
are left out. `Unwind` is the way of an error up through `check(...)`: no
activation counts itself off. The start function's thread is `threads["start"]`.

In `Parser` a section is one step: it is read when all its checks hold (the
guards) and otherwise the module is rejected and dropped, so that what was done
to it before does not matter. The bytes are chosen as they are read. `ents` holds
the four vectors `funcs`, `tables`, `memories` and `globals`; their sections
differ only in what they describe (`Described`). Indices and places in the order
of sections start at 1. That a section may be repeated is the code's doing: the
search for its place does not step past it, and most repetitions fail only
because the vector they fill is fixed. `local_count` is a u32 that starts with the
parameters and is counted up by the declared locals (`WithBody`, modulo
`U32_MAX + 1`), of which alone the parser checks that a u32 holds their number.

**Choosing the program as it is decoded.** The body is not a constant: each
validator step picks the next instruction from `Instrs`. So TLC generates every
body up to `MaxInstrs` instructions, valid or not, and the theorems hold for
every body over any set of instructions.

**Checks that the code leaves out.** `validator.c` does not make some checks of
the published validation algorithm. `skipped` records which of them a function
would have failed: `leftover`, `no_else`, `open`, `trailing`, `no_memory`. The
properties that depend on one say so (`skipped = {}` or `Closed`); the run
`leftover` shows what happens without the first of them.

## 3. Runs

| run | checks | bounds |
|---|---|---|
| `control` | `TypeOK`, `RunTypeOK`, `SlotLayout`, `TargetsOnBoundary`, `JumpTableLinked`, `CursorSafe`, `StackTyped`, `RelinkBenign` | bodies of up to 7 instructions from `block`, `loop`, `if` (with and without a result), `else`, `end`, `br`, `br_if` (two labels), `br_table`, `call`; two function types; tables of more than 5 slots are beyond the width of an index |
| `data` | `BothTyped`, `BothHaveRoom`, `CopyCurrent` | bodies of up to 4 instructions from every class of data instruction, locals, direct and indirect calls, missing entities, run by either build; a memory of one page that may grow to two |
| `refine` | `ImplementsLabels`, `EndsOrLoops` | bodies of up to 7 instructions with block parameters, a local, `return`, run by either build |
| `registry` | `RtTypeOK`, `RefCounts`, `Linked`, `StatesFinal` | two machines, three modules that import from each other in a chain and fail in a global, in the middle of an element or in the start function |
| `threads` | `ImportsFit`, `InitComplete`, `References`, `CountsExact`, `CrashNeedsFailure` | one machine, four modules sharing a memory and a table, one alias, two nested activations; a memory whose declared size wraps to 0 (`WASM_MEM_MAX_PAGES` 2); one module that holds references |
| `parser` | `ParserTypeOK`, `ImportsFirst`, `ModuleClosed`, `DataCounted`, `ElementShape`, `Pinned` | sections of at most one entry in every order the loop accepts, repeated at will; up to four vectors in use, two imports of a kind; `U32_MAX` 2, so that parameters and locals may wrap the counter |
| `bytes` | `LebExact`, `UncheckedAgrees`, `SlicesNested`, `AccessExact` | every buffer of up to 3 scaled bytes, slices to depth 3; a memory of up to all 8 words, two tables of up to 7 entries, the most that a word counts |
| `leftover` | `ReturnHasResults` is violated | as `control`, up to 6 |
| `imported_room` | `RoomForCallees` is violated | as `data` |
| `half_run` | `RunsInReady` is violated | as `threads`, no alias |
| `stale_memory` | `CopyFollowsCallees` is violated | as `data` |
| `table_fill` | `FillChecksSize` is violated | as `bytes` |

*Why the bounds are enough.* A jump's link depends on two slots and an address
between them. Seven instructions hold an `if` with an `else` and branches from
both parts, two nested blocks with a branch across both, a loop with a forward
and a backward branch, and a `br_table` over two kinds of label. Data
instructions interact only through the stack: a call delivers up to three
operands and one instruction consumes them; four hold a call whose callee grows
the memory, an access behind it and a `memory.grow` of the function's own.
`U16_MAX` is 5 in `control`, so that tables with as many slots as an index can
number, and longer ones, occur: up to the limit everything is linked right and no
index meets `JUMP_TABLE_IDX_INVALID`; beyond it a wrong link stops at the
assertion on the slot and `StackTyped` still holds, but only as long as assertions
are compiled in. Elsewhere it has its real value. `U32_RANGE` is scaled down, above
every offset that occurs, which is all that matters for wrap-around.

For the runtime: one owner, one module that may fail after writing into the
owner's table, and one that imports from the failed one and exports it again are
the shortest chain in which each link's failure reaches another instance; two
machines are what it takes for a module to be in use in one while the other is
dropped. `FRAME_LIMIT` is 1 (two activations and a third that is refused), and
`STACK_LIMIT` 3 with functions that need 1, 2 and 0, so that both limits bite.
Growing the memory from none to two pages passes every size that an import may ask
for, its own declaration included.

For the parser: a section changes one vector and reads at most two others, so that
four vectors in use hold any section together with everything that it reads and
one more; two imports, one before and one after a definition, are what it takes
to upset an index space (the vector's first allocation has room for ten). A
parameter and up to `U32_MAX` locals are the least that wraps `local_count`. The
growth of a vector that is full beyond its first allocation is not reached.

For the bytes: three bytes hold the longest number of 7 bits, so that each reader
meets a number of every length, one too many continuation bits, every pattern of
the bits beyond the width, and the end of its slice at every place. Three streams
inside each other are the parser's module, section and body. Four pages of two
bytes fill the whole range of a word, the case in which a size of 32 bits would
wrap; sums reach past it while two bits of room keep them below `U64_RANGE`, as in
the code. Tables of 7 entries reach into the half of the words that have the sign.

*Properties of the core.* `SlotLayout`: each instruction owns exactly the slots that carry
its address, in code order. `TargetsOnBoundary`: a resolved slot points at an
instruction. `JumpTableLinked`: after linking, `next_idx` is the first slot
behind the landing place, for forward jumps and loops alike. `CursorSafe`: the
interpreter's cursor is right on every path and no assertion on a slot fails.
`StackTyped`: type soundness, the stack stays within `stack_size_max` and code
the validator took for dead is never entered. `RelinkBenign`: validating a
function a second time (a second virtual machine instantiates the module)
leaves the first table as it was. `BothTyped` is `StackTyped` for both builds:
each of the two handlers of an instruction takes and leaves what the validator's
callback says and steps over the immediates that the decoder read.
`BothHaveRoom`: a callee of the same module has its locals' room. `CopyCurrent`:
at every instruction the tail-call build's copy of the memory is the memory's,
however its callees grow it, so that no access goes through an address that was
given back and `memory.grow`, which adds to the copied size, never makes the
memory smaller. `ImplementsLabels`: refinement, of both builds. `EndsOrLoops`:
under weak fairness of the interpreter's own steps, an activation ends or comes
through a loop's body infinitely often. That fairness is what the code has: the
interpreter is a loop, or a chain of tail calls, on the caller's thread, with nobody
else to wait for (`BothSpec`: a called function starts, and a started one goes
on), and the model's callee, being one step, always comes back.

*Properties of the runtime.* `RefCounts`: the count of a module is the number of
its instances, failed ones too, and a module with instances is in the registry.
`Linked`: through however many re-exports, an import's address is a definition
of its kind and type. `StatesFinal` (an action property): instances stay in
place and ready or failed ones stay so. `ImportsFit`: sizes stay within every
importer's limits, and the owner's, under growth by anyone; only the owner of a
memory whose declared size wraps may have fewer pages than it declared.
`InitComplete`: ready means that all active segments were copied. `References`: every reference in a table is nullref or
a function of an instance that is still there, also after the instance that put it
there failed; a 0 is there only in a machine that is `Loose`: one of its instances
failed, or one of its modules has `refs`. `CountsExact`: the thread's counters are
those of the activations on it, unless it is trapped. `CrashNeedsFailure`: an address that was never set
is followed only after an instance of the machine failed, or when a module finds
itself under the name it imports from; a reference that is no function's is
followed only in a machine that is `Loose`; `runtime_drop` never finds a module in
use. It says nothing of `"no_memory"`, which any module without a memory reaches.

*Properties of the parser.* `ImportsFirst`: in every index space the imports are
the first entities and are counted. `ModuleClosed`: what an accepted module
names exists, `local_count` is the number of parameters and locals wherever a u32
holds it, limits are in order, and exactly the exported entities are marked.
`DataCounted`: once the data section is read, as many segments as announced. `Pinned` (an action property): a
fixed vector keeps its allocation through any repetition of sections.
`ElementShape`: an element has as many function indices or expressions as its
length says, unless two sections filled it, once with each.

*Properties of the bytes.* `LebExact`: at any place of any slice the checked
readers accept what the WebAssembly specification's recursive definition does,
with the same value and length. `UncheckedAgrees`: what was accepted once has the
same value and length when an interpreter reads it again without checks.
`SlicesNested`: no cursor leaves its slice, and as long as a slice is open its
bytes lie behind the cursor of the stream that it was cut from (which may seek back
once the slice is done). `AccessExact`: a memory or table
instruction goes on exactly when what it touches is in bounds, counted without
any width; `call_indirect` exactly when the entry is there and its index has no
sign.

*Hypotheses.* `CursorSafe` and `JumpTableLinked` assume `Closed` (the code ends
where the function's block ends) and `Numbered` (no more than 65535 slots).
`BothTyped` and `CopyCurrent` leave `call_indirect` in the tail-call build to
`stale_memory`, `AccessExact` leaves `table.fill` at an offset with a sign to
`table_fill`, and copies of size zero from a dropped segment aside.

### What the violation runs show

* `leftover`: `pop_ctrl` does not check that a block consumed its values. The
  validator then counts values that a branch removes, and the function's end is
  reached with fewer values than results: the assertion at `in_place_dt.c:1007`.
* `imported_room`: the parser leaves `local_count` 0 for an imported function,
  so the caller reserves no room for its locals, and the assertion at
  `in_place_dt.c:195` fails on the call.

* `half_run`: linking looks up an instance by name and does not look at its
  state. B fails with a data segment; A's memory grows; C imports B's function,
  exports it again and becomes ready. The host calls it through C and code runs
  in B, against `vm.h`: "We disallow running anything inside a half-instantiated
  module by applying the restriction here."
* `stale_memory`: behind `call` the tail-call build fetches the memory's address
  and size again, because "the callee might have called mem.grow"
  (`in_place_tco.c:307`); behind `call_indirect` (`in_place_tco.c:367`) it does
  not. The function goes on with the size, and after a resize that moved the
  memory with the address, of before.
* `table_fill`: `table.fill` reads its offset as a signed number into a `u64`
  (`in_place_dt.c:969`, and the same in `in_place_tco.c`). An offset with its sign
  bit set wraps the sum around and passes the check; `vec_at` then asserts, or
  without assertions goes outside of the table.

Modelled and not kept as runs of their own:

* The locals of an activation are set to 0 (`in_place_dt.c:56`), those of a reference
  type too, and `nullref` is not 0 (`vm.c:72` says so of tables). A function that
  stores such a local puts an entry into a table that passes `call_indirect`'s test
  for `nullref` (`in_place_dt.c:224`) and is followed, while `wasm_format.h:60` knows
  only references made by `ref.null` and `ref.func`. In `Threads` it is the way of C
  to `"bad_ref"`; `References` and `CrashNeedsFailure` say what it takes.
* A function with a parameter and `u32_MAX` locals passes the check of
  `parser.c:607`, and its `local_count` wraps around to 0 (`parser.c:621`), so that
  the assertion at `validator.c:199` fails. `ModuleClosed` says what the counter is
  otherwise.
* An element read by one section with indices and by a second one with expressions of
  another number (`parser.c:484`) fails the assertion at `vm.c:330`; `ElementShape`
  is about all others.
* A call that traps returns before the results are cleared (`interpreter.c:80`), and
  the thread holds those of the call before, while `vm.h:106` says that they are
  "cleared out in the next function call".
* A memory of 65536 pages starts with none (`vm.c:88`), and `call_indirect` refuses
  entries of the upper half of a table (`in_place_dt.c:219`): `ImportsFit` and
  `AccessExact` are exact about both.
* `decode_function` accepts a body that stops at an `end` with blocks still open
  (`op_decoder.c:102`), whose pending slots then keep the target 0, against
  `docs/Interpreter.md:52`: `skipped` has `open`.
* `memory.init` and `table.init` of size zero look at the length of a segment that
  was dropped as it was before, where the specification has it zero.

## 4. Proofs

`ValidatorProofs` proves, for every set of functions and instructions and every
length of body (only the named assumptions of `WasmCode` and `Validator` on the
constants are used):

* `TypesInvariant`: `Spec => []TInv`, the inductive invariant. `TypeOK` alone is
  not inductive: that `end` may cut the value stack back needs every frame's
  height to lie within the stack and heights to grow along the control stack;
  that `else` may take the least pending slot needs an `if` frame to have one,
  and that a slot index is an index of the table needs pending slots below its
  length. `TInv` adds these.
* `Typed`: `Spec => []TypeOK`.
* `LaidOut`: `Spec => []SlotLayout`, from `TInv` and the lemmas on what
  `Resolve` and `Link` leave alone (the length of the table and every `pc`).

The proof has one lemma per action and conjunct; `Ordered`, which it also
provides, is the fact that slot addresses grow along the table.

`ParserProofs` proves, for every set of types and limits, every growth of the
vectors and all bounds, and for sections that repeat as `parser.c:746` lets them:

* `ImportsComeFirst` (`ImportsFirst`). It is not inductive: that an import never
  follows a definition is a fact about the order of sections. `PInv` adds that a kind
  with definitions is behind the import section (`DefinitionsBehindImports`) and that
  entities are records (`Shape`). `Forward` is the fact about the order: the search
  never goes back.
* `VectorsHaveRoom` (`ParserTypeOK`), `AcceptedModulesClosed` (`ModuleClosed`),
  `SegmentsCounted` (`DataCounted`), `ElementsShaped` (`ElementShape`) and
  `FixedVectorsStay` (the action property `Pinned`), from one invariant, `ModuleInv`,
  which is `PInv` and `Filled`. `ModuleClosed` speaks of accepted modules only, so the
  invariant says of every section what it leaves behind (`Closed`); what a repeated
  section could spoil is held by the fixed flags: a vector that its section has not
  fixed is still empty (`FilledOnce`), definitions of a kind are there only once its
  vector is fixed (`OwnersFixed`), and segments are read by the last section only
  (`DataLast`). `VecOk`, the vector with room for its elements, rests on `Growth`, the
  capacities while elements are pushed.

`BytesProofs` proves of the stream, for buffers of any content and length, slices to
any depth and all widths (`GroupAssumption`, `WidthsAssumption`: a byte has at least two
bits of payload, and a number has more than one byte and does not fill its last one,
as for 7 and 32 or 64):

* `Nested` (`SlicesNested`). The inductive invariant `NInv` adds `Shape`, the types of
  the chain. The argument rests on three facts: a reader that succeeds took no more
  bytes than its slice has left (for the LEB128 readers, because the byte that ends the
  number is the least of `LastBytes`), a slice is cut behind the cursor and the cursor
  moves behind it, and only the innermost stream moves, forward or backward within
  itself, while the others keep what was cut from them below their cursors.
* `NumbersExact` (`LebExact`): the checked readers read what the WebAssembly
  specification defines. The specification reads from the last byte back to the first,
  the readers add from the first on: `SpecSum` shows that at every byte the groups
  gathered so far and the number from there on, shifted, make up the same sum. What
  is left is the end: the sum is below the width (`TopGroup`, `GroupsFit`), the two
  ways to compare the bits beyond the width are the same (`SignedEndExact`), and the
  extension of the sign is a subtraction modulo the width (`ExtendsSign`).
* `UncheckedExact` (`UncheckedAgrees`): the unchecked readers stop at the same byte
  (`RawLength`), and whole bytes less their continuation bits, each cut to the width,
  are congruent to the payloads at every byte (`RawGathers`).

and of the bounds checks `BoundsExact`: `AccessSpec => []AccessExact`, for every
width of words and indices (`RangeAssumption`: indices have two bits more than
words), every page size, limit and segment (`SizesAssumption`: a memory has no
more bytes than there are words, a table no more entries than a word can count).
The invariant `Sized` says that sizes stay within the limits, through grows whose sums are checked after they were cut to 64
bits; the rest are lemmas on when a sum of two or three words cannot wrap.

`JumpTableProofs` proves `OnBoundary`: `Spec => []TargetsOnBoundary`, and
`TableLinked`: `Spec => []JumpTableLinked` (of bodies that are `Closed` and
`Numbered`, as `CursorSafe` below). The invariant `JumpTable` is about open
blocks as much as about slots: a slot without a target is pending on exactly one
open frame that is not a loop, a loop's frame holds the address of an instruction,
and what `end` and `else` resolve becomes the address of the instruction to come.
With the order of slots, already proved, the search of `validator_on_decode_end`
ahead of a slot, and behind it for loops, then finds the least slot at or behind the
target (`NextIsFirst`).

`InterpProofs` proves `RunTyped` (`RunTypeOK`), `CursorKept` (`CursorSafe`) and
`RelinkKept` (`RelinkBenign`) of `RunSpec`. `CursorSafe` is inductive together with the
linked table: falling through an instruction moves the cursor over exactly the
slots that carry its address, and a jump takes it to the first slot behind the
landing place. `Activated` adds that nothing runs before the function is ready.

`SoundnessProofs` proves type soundness. `TypeSound`: in every state in which
`Shallow` and `Numbered` hold, `StackTyped` does. `OwnCalleesFit`: so does
`RoomForOwnCallees` (which the run `data` checks as `BothHaveRoom`). `Numbered` is the
width of a slot's index; `Shallow` is that of its `stack_offset` and `arity`, with the
validator's own assertion that the offset is below 32767: in a function with a
higher stack they are cut to 16 bits and a branch drops the wrong number of values.
Neither is a bound on the body. The argument has two halves.
`FlowInv` is about the validator: it says of every instruction that was decoded
that, if it is entered with the types recorded for it, its handler finds its
operands (`Takes`), and that wherever it can go next (behind itself, or through each
of its slots, once resolved or by what the frame the slot is pending on
expects) the types it arrives with are the ones recorded there (`Flows`). That is
not inductive by itself: below a reachable frame all types must be known (`Solid`),
the head of each open loop must have been recorded with the loop's parameters
(`LoopsArrive`), an `if`'s own slot must be the least pending one of its frame
(`IfSlots`, for `else` delivers other types through it than branches do), and
`stack_size_max` must bound all heights (`Roomy`). `Sound` is about the activation: it
is at an instruction that is not dead with the types recorded there; one lemma per
handler follows `Flows` one step.

`TailProofs` proves of the tail-call build, and of the choice between the builds:

* `CopyStaysCurrent` (`CopyCurrent`), in every function, malformed ones included: of all
  handlers only that of `call_indirect` leaves the copy of memory 0 behind.
* `TailImplementsDt`: on functions that passed every check, are `Shallow` and
  `Numbered` and make no indirect call (`Plain`), the tail-call build is a refinement of
  the direct-threaded one, `D!RunSpec` with `pc` one behind its opcode (`Place`).
* `BothTypeSound` (`BothTyped`) and `BothOwnCalleesFit` (`BothHaveRoom`): the soundness of
  `SoundnessProofs` for both builds. With an indirect call the build may also stop at an
  access through a copy that is behind (`bad_mem`), and at nothing else.

The argument is an instance: `D` is `SoundnessProofs` with `Place` for `pc`, so that its
lemmas speak of the tail-call build once each step is known to be one of `D`. The
invariant `TailInv` says that before the choice, and on the other build, `D!SoundInv`
holds, and on the tail-call build in checked functions `TailSound`: `D!SoundInv`, and the
opcode that was read ahead is that of the instruction at `Place`. One lemma per
handler (`Tail...Runs`) shows that the handler, with the jump, the steps over
immediates and the moves of the cursor that it repeats, does what `D` does in the
handler of that name; the callbacks of the validator map to themselves (`Same...`).
`TailSound` needs the function to be checked: where an unchecked one goes on at a place
without an instruction, the tail-call build meets it one step earlier, when it reads
ahead, and the two are no longer in step.

`RuntimeProofs` proves, for every set of modules with any import graph, every set of
machines and all limits, of the composed specification of `Threads`: `RuntimeTyped`
(`RtTypeOK`), `CountsInstances` (`RefCounts`), `AllLinked` (`Linked`), `ImportsAlwaysFit`
(`ImportsFit`), `ReferencesGood` (`References`), `InitialisedWhole` (`InitComplete`),
`CrashesExplained` (`CrashNeedsFailure`), and `StatesAreFinal` (the action property
`StatesFinal`). They share one inductive invariant, `Inv`, because none of them is
inductive alone:

* `Types`: the vectors of an instance are as long as its module's description.
* `World`: every address that is set, in failed and half-linked instances too, is
  that of a definition that still meets what the entity asks for; memories and tables
  are within their declared limits (but for the memory that wraps); every reference
  in a table is `nullref`, 0, or that of a function's definition.
  `Linked` speaks of linked instances only, but a link may go through one that is
  not ready, so that the invariant has to cover all of them.
* `Lives`: how far the instance under construction is, that it is the last of its
  machine and the only one neither ready nor failed, that ready ones are finished.
* `Counted`: counts as sizes of sets of users, which an instance added or a machine
  dropped changes by what it contributes.
* `Activations`: what runs are functions of living instances, and code runs in the
  middle of an instantiation only as the start function.

Where a 0 may be is an invariant over `Inv`: `Zeroed` says that a machine that is not
`Loose` has no 0 in any table (`ZeroFree`), and `BadRefLoose` that a crash by
`"bad_ref"` is in a machine that is `Loose`. Each step of a machine that is not `Loose`
writes only `nullref`, functions and what tables hold already (`ZeroKept`, one lemma
per action; `RefNotZero` for running code: an instance with an address that is not
set has failed, or is not the one that runs), and once a machine is `Loose` it stays
so, because states are final (`StatesAreFinal`).
`World` is preserved because instances only grow: `Grown` relates the instances
before and after every step, and `SaneStep` turns it into preservation, given that
new addresses and references are good. Assumed of the constants: `DescAssumption`
says of a module what the parser checked (indices of elements within the functions,
`parser.c:562`, initial sizes within the limits) and, for `ref.func` in an expression,
what `vec_at` asserts; `VMsAssumption` that there are finitely many machines, with names
of their own.

`CountersExact` (`CountsExact`) has an invariant of its own, `CountInv`: the room that a
thread counts is the sum over its activations (`Total`), which a call extends by one
term and a return or a trap cuts; `Tallied` adds that threads that run nothing count
nothing, that the start function's thread has not trapped, and that no thread counts
more than one activation beyond the limit.

Induction over numbers (the capacities of a vector, sums of stack room, powers, the
bytes of a number) is by the least number for which a fact would fail, from the
well-foundedness of the naturals (`LeastNumber`, `LeastOf`, `Induction`); the existence
of each recursive function is proved the same way.

Every invariant that a passing run checks is stated by a theorem (`StackTyped`,
`BothTyped` and `BothHaveRoom` under `Shallow` and `Numbered`). Only model-checked:

* `EndsOrLoops`: liveness under fairness.
* `ImplementsLabels`: `LabelInterp` is an abstraction of checked functions of the
  instructions that `refine` uses, and its mapping finds the matching `end` of a block
  by counting; as stated it does not hold of every set of constants, and a version that
  does would need the nesting of blocks as data. What it shows of the jumps is proved
  in another form: `CursorKept`, `TableLinked` and `TypeSound` of one build,
  `TailImplementsDt` of the other.

## 5. Plan

The models are in place and their invariants are proved. What could follow: the
nesting of blocks as an invariant of the validator, from which `LabelInterp` could be
refined for all functions; bodies as bytes, so that `Validator` reads its immediates
through `Stream`; and the callees' own activations in `InPlaceInterp`, which are one
step there and are counted in `Threads`.

## 6. Not modelled

The WASI implementation (system calls), generated trampolines, the unfinished
IR builder, logging, JSON and strings have no protocol a model would show.
Numeric results, alignment checks and mutability of globals are left out of the
core: no control decision of the models depends on them. Immediates are one byte
long in the core; the lengths they really have are `Stream`'s, and
`UncheckedAgrees` is what lets decoder and interpreter agree on them. The
parser's names, value types, constant expressions and bodies are read but not
kept in the model.
