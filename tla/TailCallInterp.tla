--------------------------- MODULE TailCallInterp ---------------------------
(***************************************************************************)
(* The second build of the in-place interpreter                            *)
(* (src/interpreter/in_place_tco.c): one handler per opcode, each of which *)
(* reads the next opcode and tail-calls that opcode's handler.  While a    *)
(* handler runs, its opcode has been read and pc is behind it.             *)
(*                                                                         *)
(* An activation keeps a copy of the address and of the size of memory 0   *)
(* in its call_ctx, which the other build does not.  The memory may be     *)
(* shared: a callee may grow it.  A callee is taken never to make it       *)
(* smaller.                                                                *)
(*                                                                         *)
(* build says which of the two runs the function: the choice is made when  *)
(* it is called.                                                           *)
(***************************************************************************)
EXTENDS InPlaceInterp

CONSTANTS MIN_PAGES, MAX_PAGES   \* mem->lim of memory 0

ASSUME PagesAssumption == MIN_PAGES \in Nat /\ MAX_PAGES \in Nat /\ MIN_PAGES <= MAX_PAGES

VARIABLES
  build,       \* "none", "dt" or "tco"
  handler,     \* the instruction whose handler runs, 0 for what is none
  mem_pages,   \* size of memory 0, in pages
  mem0,        \* ctx->mem0: "current", or "freed" once a resize may have moved
               \* the memory to another address
  mem0_size    \* ctx->mem0_size, in pages

memvars  == <<mem_pages, mem0, mem0_size>>
tailvars == <<allvars, build, handler, memvars>>

\* Offset of the opcode that is carried out, in both builds.
Place == IF build = "tco" THEN pc - 1 ELSE pc

----------------------------------------------------------------------------
\* READ_NEXT_OP at offset p.
ReadNextOp(p) ==
  /\ handler' = IF \E k \in 1..Len(code) : code[k].at = p
                  THEN CHOOSE k \in 1..Len(code) : code[k].at = p
                  ELSE 0
  /\ pc' = p + 1

\* NEXT_OP with the opcode at p, stack s, locals l and slot i.
NextOp(p, s, l, i) ==
  IF Len(s) > stack_size_max THEN Stop("bad_stack") /\ UNCHANGED handler
  ELSE /\ ReadNextOp(p)
       /\ stack' = s
       /\ local' = l
       /\ next_jt_idx' = i
       /\ UNCHANGED status

Leave(how) == Stop(how) /\ UNCHANGED handler

\* The jump through slot i that if, else and the branches have each in full.
\* at is pc where the handler compares it with the slot's.
TailJump(i, at, s, move) ==
  IF ~SlotOk(i, at) THEN Leave("bad_slot")
  ELSE LET slot == jt[i + 1]
       IN  IF move /\ ~MoveOk(slot, s) THEN Leave("bad_stack")
           ELSE NextOp(Target(slot), IF move THEN Moved(slot, s) ELSE s, local,
                       slot.next_idx)

\* Bytes of immediates that a handler steps over, or reads, before it goes on
\* with the next opcode.
Stepped(ins) ==
  CASE ins.op \in {"block", "loop", "call", "const", "memory_size", "memory_grow",
                   "global_get", "global_set", "table_get", "table_set",
                   "ref_null", "ref_func"} \cup LocalOps -> 1
    [] ins.op \in {"load", "store", "select_t", "call_indirect", "seg_drop",
                   "table_grow", "table_size", "table_fill"} -> 2
    [] ins.op = "bulk" -> 3
    [] OTHER -> 0

----------------------------------------------------------------------------
(***************************************************************************)
(* The handlers.                                                           *)
(***************************************************************************)
Handle(k) ==
  /\ build = "tco"
  /\ status = "running"
  /\ handler = k
  /\ Enough(k)
  /\ UNCHANGED <<vars, build>>

Go(k, s, l) == NextOp(pc + Stepped(Ins(k)), s, l, next_jt_idx)

TailNop(k) ==
  /\ Ins(k).op \in {"nop", "block", "loop"}
  /\ Handle(k)
  /\ Go(k, stack, local)
  /\ UNCHANGED memvars

TailUnreachable(k) ==
  /\ Ins(k).op = "unreachable"
  /\ Handle(k)
  /\ Leave("trapped")
  /\ UNCHANGED memvars

TailIf(k) ==
  /\ Ins(k).op = "if"
  /\ Handle(k)
  /\ \E c \in BOOLEAN :
       IF c THEN NextOp(pc + 1, Pop(1), local, U16(next_jt_idx + 1))
            ELSE TailJump(next_jt_idx, pc, Pop(1), FALSE)
  /\ UNCHANGED memvars

TailElse(k) ==
  /\ Ins(k).op = "else"
  /\ Handle(k)
  /\ TailJump(next_jt_idx, pc, stack, FALSE)
  /\ UNCHANGED memvars

\* end at the end of the code, and return.
TailEnd(k) ==
  /\ Ins(k).op \in {"end", "return"}
  /\ Handle(k)
  /\ IF Ins(k).op = "return" \/ pc = offset
       THEN Return /\ UNCHANGED handler
       ELSE Go(k, stack, local)
  /\ UNCHANGED memvars

TailBr(k) ==
  /\ Ins(k).op = "br"
  /\ Handle(k)
  /\ TailJump(next_jt_idx, pc, stack, TRUE)
  /\ UNCHANGED memvars

\* Mutant: a branch that is not taken keeps its slot.
TailBrIfKeepsSlot(k) ==
  /\ Ins(k).op = "br_if"
  /\ Handle(k)
  /\ \E c \in BOOLEAN :
       IF c THEN TailJump(next_jt_idx, pc, Pop(1), TRUE)
            ELSE NextOp(pc + 1, Pop(1), local, next_jt_idx)
  /\ UNCHANGED memvars

TailBrIf(k) ==
  /\ Ins(k).op = "br_if"
  /\ Handle(k)
  /\ \E c \in BOOLEAN :
       IF c THEN TailJump(next_jt_idx, pc, Pop(1), TRUE)
            ELSE NextOp(pc + 1, Pop(1), local, U16(next_jt_idx + 1))
  /\ UNCHANGED memvars

\* table_len is one less than the number of labels.
TailBrTable(k) ==
  /\ Ins(k).op = "br_table"
  /\ Handle(k)
  /\ LET table_len == Len(Ins(k).ls) - 1
     IN  \E i \in 0..table_len :
           TailJump(U16(next_jt_idx + i), pc + 1 + table_len + 1, Pop(1), TRUE)
  /\ UNCHANGED memvars

(***************************************************************************)
(* Calls.  The callee leaves memory 0 with n pages.  call fetches the copy *)
(* again, call_indirect does not.                                          *)
(***************************************************************************)
Refetched(n) == mem_pages' = n /\ mem0' = "current" /\ mem0_size' = n

NotRefetched(n) ==
  /\ mem_pages' = n
  /\ mem0' = IF n = mem_pages THEN mem0 ELSE "freed"
  /\ UNCHANGED mem0_size

\* Mutant: call does not fetch the copy again either.
AfterCallStale(n) == NotRefetched(n)

AfterCall(n) == Refetched(n)

TailCall(k) ==
  /\ Ins(k).op = "call"
  /\ Handle(k)
  /\ LET fn == Callees[Ins(k).fn + 1]
         s  == Pop(Len(fn.type.params))
     IN  IF Len(s) + fn.local_count > stack_size_max
           THEN Leave("bad_room") /\ UNCHANGED memvars
         ELSE \E n \in mem_pages..MAX_PAGES :
                /\ AfterCall(n)
                /\ \/ Leave("trapped")
                   \/ Go(k, s \o Made(k, fn.type.results), local)

TailCallIndirect(k) ==
  /\ Ins(k).op = "call_indirect"
  /\ Handle(k)
  /\ \/ Leave("trapped") /\ UNCHANGED memvars
     \/ \E i \in DOMAIN Callees :
          /\ Callees[i].type = Ins(k).type
          /\ IF ArrayTooSmall(Callees[i])
               THEN Leave("bad_room") /\ UNCHANGED memvars
             ELSE \E n \in mem_pages..MAX_PAGES :
                    /\ NotRefetched(n)
                    /\ Go(k, Pop(Reads(k)) \o Made(k, Ins(k).type.results), local)

(***************************************************************************)
(* Memory 0 through the copy.  An access is checked against mem0_size and  *)
(* goes to mem0.  memory.grow adds to mem0_size; a module without a memory *)
(* has the size 0 and no memory to grow.                                   *)
(***************************************************************************)
TailAccess(k) ==
  /\ Ins(k).op \in {"load", "store"}
  /\ Handle(k)
  /\ \/ Leave("trapped")
     \/ /\ mem0_size > 0
        /\ IF mem0 = "freed" THEN Leave("bad_mem")
           ELSE LET e == DataEffect(Ins(k))
                IN  Go(k, Pop(e.pop) \o Made(k, e.push), local)
  /\ UNCHANGED memvars

TailMemorySize(k) ==
  /\ Ins(k).op = "memory_size"
  /\ Handle(k)
  /\ Go(k, stack \o Made(k, <<"i32">>), local)
  /\ UNCHANGED memvars

TailMemoryGrow(k) ==
  /\ Ins(k).op = "memory_grow"
  /\ Handle(k)
  /\ IF ~Ins(k).there THEN Leave("bad_mem") /\ UNCHANGED memvars
     ELSE /\ \E n_pages \in 0..MAX_PAGES :
               IF mem0_size + n_pages <= MAX_PAGES
                 THEN Refetched(mem0_size + n_pages)
                 ELSE UNCHANGED memvars
          /\ Go(k, Pop(1) \o Made(k, <<"i32">>), local)

(***************************************************************************)
(* The other data instructions.                                            *)
(***************************************************************************)
TailSelect(k) ==
  /\ Ins(k).op \in {"select", "select_t"}
  /\ Handle(k)
  /\ \E i \in {1, 2} : Go(k, Append(Pop(3), Topmost(3)[i]), local)
  /\ UNCHANGED memvars

TailLocal(k) ==
  /\ Ins(k).op \in LocalOps
  /\ Handle(k)
  /\ LET i == Ins(k).idx + 1
     IN  \/ /\ Ins(k).op = "local_get"
            /\ Go(k, Append(stack, local[i]), local)
         \/ /\ Ins(k).op # "local_get"
            /\ Go(k, IF Ins(k).op = "local_set" THEN Pop(1) ELSE stack,
                  [local EXCEPT ![i] = Topmost(1)[1]])
  /\ UNCHANGED memvars

\* An instruction of the class ops takes, leaves and traps as in the other build.
Computes(k, ops) ==
  /\ Ins(k).op \in ops
  /\ Handle(k)
  /\ LET e == DataEffect(Ins(k))
     IN  \/ e.trap /\ Leave("trapped")
         \/ Go(k, Pop(e.pop) \o Made(k, e.push), local)
  /\ UNCHANGED memvars

TailConst(k)   == Computes(k, {"const", "drop"})
TailNumeric(k) == Computes(k, {"unop", "binop", "testop", "relop"})
TailConvert(k) == Computes(k, {"convertop"})
TailEntity(k)  == Computes(k, {"global_get", "global_set", "table_get", "table_set"})
TailRef(k)     == Computes(k, {"ref_null", "ref_is_null", "ref_func"})
TailTable(k)   == Computes(k, {"seg_drop", "table_grow", "table_size", "table_fill"})

\* memory.init, memory.copy and memory.fill go through the copy as well;
\* table.init and table.copy, of the same class, do not.
TailBulk(k) ==
  /\ Ins(k).op = "bulk"
  /\ Handle(k)
  /\ \/ Leave("trapped")
     \/ mem0 = "freed" /\ mem0_size > 0 /\ Leave("bad_mem")
     \/ Go(k, Pop(3), local)
  /\ UNCHANGED memvars

----------------------------------------------------------------------------
\* The entry of in_place_tco_call.
TailStart ==
  /\ phase = "ready"
  /\ status = "idle"
  /\ status' = "running"
  /\ build' = "tco"
  /\ stack' = << >>
  /\ local' = [i \in 1..Len(LocalTypes) |->
                 [t  |-> LocalTypes[i],
                  by |-> IF i <= Len(f.type.params) THEN ARG ELSE ZERO]]
  /\ next_jt_idx' = 0
  /\ ReadNextOp(0)
  /\ Refetched(mem_pages)
  /\ UNCHANGED vars

TailBelowBase(k) ==
  /\ build = "tco" /\ status = "running" /\ handler = k
  /\ ~Enough(k)
  /\ Leave("bad_stack")
  /\ UNCHANGED <<vars, build, memvars>>

\* The entry of handlers[] that the byte selects is no instruction's of the code.
TailBadFetch ==
  /\ build = "tco" /\ status = "running" /\ handler = 0
  /\ Leave("bad_pc")
  /\ UNCHANGED <<vars, build, memvars>>

TailStep(k) ==
  \/ TailNop(k) \/ TailUnreachable(k) \/ TailIf(k) \/ TailElse(k) \/ TailEnd(k)
  \/ TailBr(k) \/ TailBrIf(k) \/ TailBrTable(k) \/ TailCall(k)
  \/ TailCallIndirect(k) \/ TailAccess(k) \/ TailMemorySize(k)
  \/ TailMemoryGrow(k) \/ TailSelect(k) \/ TailLocal(k) \/ TailConst(k)
  \/ TailNumeric(k) \/ TailConvert(k) \/ TailEntity(k) \/ TailRef(k)
  \/ TailTable(k) \/ TailBulk(k) \/ TailBelowBase(k)

StartDt == Start /\ build' = "dt" /\ UNCHANGED <<handler, memvars>>

ExecuteDt == build = "dt" /\ Execute /\ UNCHANGED <<build, handler, memvars>>

ExecuteTco == (\E k \in 1..Len(code) : TailStep(k)) \/ TailBadFetch

BothInit ==
  /\ RunInit
  /\ build = "none"
  /\ handler = 0
  /\ mem_pages = MIN_PAGES
  /\ mem0 = "current" /\ mem0_size = 0

BothNext ==
  \/ Validate /\ UNCHANGED <<build, handler, memvars>>
  \/ StartDt \/ TailStart \/ ExecuteDt \/ ExecuteTco
  \/ Finished /\ UNCHANGED <<build, handler, memvars>>

\* Both interpreters run on the caller's thread and do not stop by themselves.
BothSpec ==
  /\ BothInit /\ [][BothNext]_tailvars
  /\ WF_tailvars(StartDt \/ TailStart) /\ WF_tailvars(ExecuteDt \/ ExecuteTco)

----------------------------------------------------------------------------
Calls(op) == \E k \in 1..Len(code) : Ins(k).op = op

Dt == INSTANCE InPlaceInterp WITH pc <- Place

(***************************************************************************)
(* Type soundness of both builds: every handler takes and leaves what the  *)
(* validator's callback for its instruction says and steps over as many    *)
(* bytes of immediates as the decoder read.  Functions with call_indirect  *)
(* in the tail-call build are left to CopyFollowsCallees.                  *)
(***************************************************************************)
BothTyped == ~(build = "tco" /\ Calls("call_indirect")) => Dt!StackTyped

\* In both builds a direct call of a function of the same module has room for
\* the callee's locals in the caller's stack.
BothHaveRoom == Dt!RoomForOwnCallees

\* An activation ends, or enters the body of a loop again and again: no other
\* jump makes it repeat itself.
AtLoopBody == \E k \in 1..Len(code) : Ins(k).op = "loop" /\ Place = NextAt(k)
EndsOrLoops == []<>(~Closed \/ status # "running" \/ AtLoopBody)

Current == mem0 = "current" /\ mem0_size = mem_pages

(***************************************************************************)
(* The tail-call build reads and grows memory 0 through its copy: in a     *)
(* function without call_indirect the copy is the memory's at every        *)
(* instruction, however the callees grow it, so that no access goes to     *)
(* memory that was given back and memory.grow never makes it smaller.      *)
(***************************************************************************)
CopyCurrent ==
  build = "tco" /\ status = "running" /\ ~Calls("call_indirect") => Current

(***************************************************************************)
(* What comments say and the code does not keep.                           *)
(***************************************************************************)

\* in_place_dt.c: "we CANNOT cache the memory size or u8 pointer here because the
\* memory can grow in the callee frames"; in_place_tco.c, where it fetches them
\* again behind a call: "the callee might have called mem.grow."
CopyFollowsCallees == build = "tco" /\ status = "running" => Current
=============================================================================
