---------------------------- MODULE InPlaceInterp ----------------------------
(***************************************************************************)
(* One activation of a validated function in the in-place interpreter      *)
(* (src/interpreter/in_place_dt.c).  There are no labels at run time:      *)
(* block and loop are no-ops and a jump takes the slot at next_jt_idx.     *)
(*                                                                         *)
(* A value is its type and the index of the instruction that produced it   *)
(* (ARG for an argument and ZERO for a cleared local), so that values      *)
(* can be told apart as they are moved.  What a value is worth is left     *)
(* open: a condition goes either way, an instruction that can trap may.    *)
(*                                                                         *)
(* status says how the activation stands.  The last five are no results of *)
(* the code but the ways in which it would go wrong: an assertion on the   *)
(* slot fails, the next opcode is not an instruction's, the stack is read  *)
(* below its base or written above its room, a callee's locals or results  *)
(* do not fit where they are put, a memory is used that is not there.      *)
(***************************************************************************)
EXTENDS Validator

VARIABLES
  pc,            \* offset of the next opcode from code.ptr
  stack,         \* the values between stack_base and sp
  local,         \* the function's locals, in the caller's stack
  next_jt_idx,
  status

runvars == <<pc, stack, local, next_jt_idx, status>>
allvars == <<vars, runvars>>

ARG  == 0
ZERO == -1

Values == [t : ValTypes, by : Int]

Statuses == {"idle", "running", "returned", "trapped",
             "bad_slot", "bad_pc", "bad_stack", "bad_room", "bad_mem"}

\* Activation at instruction k.
At(k) ==
  /\ status = "running"
  /\ pc = code[k].at

Ins(k) == code[k].ins

(***************************************************************************)
(* What a data instruction takes from the stack, the types it leaves and   *)
(* whether it can trap, from its OP in in_place_dt.c.                      *)
(***************************************************************************)
Effect(pop, push, trap) == [pop |-> pop, push |-> push, trap |-> trap]

RefEffect(ins) ==
  CASE ins.op = "global_get"  -> Effect(0, <<ins.t>>, FALSE)
    [] ins.op = "global_set"  -> Effect(1, << >>, FALSE)
    [] ins.op = "table_get"   -> Effect(1, <<ins.t>>, TRUE)
    [] ins.op = "table_set"   -> Effect(2, << >>, TRUE)
    [] ins.op = "ref_null"    -> Effect(0, <<ins.t>>, FALSE)
    [] ins.op = "ref_is_null" -> Effect(1, <<"i32">>, FALSE)
    [] ins.op = "ref_func"    -> Effect(0, <<"funcref">>, FALSE)
    [] ins.op = "bulk"        -> Effect(3, << >>, TRUE)
    [] ins.op = "table_grow"  -> Effect(2, <<"i32">>, FALSE)
    [] ins.op = "table_size"  -> Effect(0, <<"i32">>, FALSE)
    [] ins.op = "table_fill"  -> Effect(3, << >>, TRUE)
    [] ins.op = "call_indirect" -> Effect(Len(ins.type.params) + 1,
                                          ins.type.results, TRUE)
    [] OTHER                  -> Effect(0, << >>, FALSE)

DataEffect(ins) ==
  CASE ins.op = "drop"        -> Effect(1, << >>, FALSE)
    [] ins.op = "const"       -> Effect(0, <<ins.t>>, FALSE)
    [] ins.op = "unop"        -> Effect(1, <<ins.t>>, FALSE)
    [] ins.op = "binop"       -> Effect(2, <<ins.t>>, TRUE)
    [] ins.op = "testop"      -> Effect(1, <<"i32">>, FALSE)
    [] ins.op = "relop"       -> Effect(2, <<"i32">>, FALSE)
    [] ins.op = "convertop"   -> Effect(1, <<ins.t>>, TRUE)
    [] ins.op = "load"        -> Effect(1, <<ins.t>>, TRUE)
    [] ins.op = "store"       -> Effect(2, << >>, TRUE)
    [] ins.op = "memory_size" -> Effect(0, <<"i32">>, FALSE)
    [] ins.op = "memory_grow" -> Effect(1, <<"i32">>, FALSE)
    [] OTHER                  -> RefEffect(ins)

\* How many values the handler of the instruction at k reads off the stack.
Reads(k) ==
  LET op == Ins(k).op
  IN  CASE op \in {"if", "br_if", "br_table", "local_set", "local_tee"} -> 1
        [] op \in {"select", "select_t"} -> 3
        [] op = "call"   -> Len(Callees[Ins(k).fn + 1].type.params)
        [] op = "return" -> Len(f.type.results)
        [] op = "end"    -> IF NextAt(k) = offset THEN Len(f.type.results) ELSE 0
        [] op \in DataOps \ {"select", "select_t"} -> DataEffect(Ins(k)).pop
        [] OTHER -> 0

Enough(k) == Len(stack) >= Reads(k)

Pop(n)  == SubSeq(stack, 1, Len(stack) - n)
Topmost(n) == SubSeq(stack, Len(stack) - n + 1, Len(stack))
Made(k, ts) == [i \in 1..Len(ts) |-> [t |-> ts[i], by |-> k]]

Stop(how) ==
  /\ status' = how
  /\ UNCHANGED <<pc, stack, local, next_jt_idx>>

\* Go on with the next instruction, with stack s, locals l and slot i.
Continue(k, s, l, i) ==
  IF Len(s) > stack_size_max THEN Stop("bad_stack")
  ELSE /\ pc' = NextAt(k)
       /\ stack' = s
       /\ local' = l
       /\ next_jt_idx' = i
       /\ UNCHANGED status

(***************************************************************************)
(* Jumping through slot i from address from, with stack s.  if and else    *)
(* leave the stack alone (move is FALSE); the branches move their operands *)
(* down by stack_offset.                                                   *)
(***************************************************************************)
SlotOk(i, from) == i < Len(jt) /\ jt[i + 1].pc = from

MoveOk(slot, s) ==
  slot.stack_offset # 0 => /\ slot.stack_offset < 32767
                           /\ Len(s) >= slot.stack_offset + slot.arity

\* Mutant: the values above the label are dropped and the carried ones not moved.
MovedNot(slot, s) == SubSeq(s, 1, Len(s) - slot.stack_offset)

Moved(slot, s) ==
  IF slot.stack_offset = 0 THEN s
  ELSE SubSeq(s, 1, Len(s) - slot.stack_offset - slot.arity)
       \o SubSeq(s, Len(s) - slot.arity + 1, Len(s))

Jump(i, from, s, move) ==
  IF ~SlotOk(i, from) THEN Stop("bad_slot")
  ELSE LET slot == jt[i + 1]
       IN  IF move /\ ~MoveOk(slot, s) THEN Stop("bad_stack")
           ELSE /\ pc' = Target(slot)
                /\ next_jt_idx' = slot.next_idx
                /\ stack' = IF move THEN Moved(slot, s) ELSE s
                /\ UNCHANGED <<local, status>>

Imm1(k) == code[k].at + 1

----------------------------------------------------------------------------
(***************************************************************************)
(* The steps of the activation.  Run(k) is what they share.                *)
(***************************************************************************)
Run(k) ==
  /\ At(k)
  /\ Enough(k)
  /\ UNCHANGED vars

\* The entry of in_place_dt_call: the locals that are no parameters are cleared.
Start ==
  /\ phase = "ready"
  /\ status = "idle"
  /\ status' = "running"
  /\ pc' = 0
  /\ stack' = << >>
  /\ local' = [i \in 1..Len(LocalTypes) |->
                 [t  |-> LocalTypes[i],
                  by |-> IF i <= Len(f.type.params) THEN ARG ELSE ZERO]]
  /\ next_jt_idx' = 0
  /\ UNCHANGED vars

RunNop(k) ==
  /\ Ins(k).op \in {"nop", "block", "loop"}
  /\ Run(k)
  /\ Continue(k, stack, local, next_jt_idx)

RunUnreachable(k) ==
  /\ Ins(k).op = "unreachable"
  /\ Run(k)
  /\ Stop("trapped")

\* Mutant: the true branch of an if keeps the slot of the if.
RunIfKeepsSlot(k) ==
  /\ Ins(k).op = "if"
  /\ Run(k)
  /\ \E c \in BOOLEAN :
       IF c THEN Continue(k, Pop(1), local, next_jt_idx)
            ELSE Jump(next_jt_idx, Imm1(k), Pop(1), FALSE)

RunIf(k) ==
  /\ Ins(k).op = "if"
  /\ Run(k)
  /\ \E c \in BOOLEAN :
       IF c THEN Continue(k, Pop(1), local, U16(next_jt_idx + 1))
            ELSE Jump(next_jt_idx, Imm1(k), Pop(1), FALSE)

RunElse(k) ==
  /\ Ins(k).op = "else"
  /\ Run(k)
  /\ Jump(next_jt_idx, Imm1(k), stack, FALSE)

\* The function's results are moved to where its locals were.
Return ==
  LET arity == Len(f.type.results)
  IN  /\ status' = "returned"
      /\ stack' = Topmost(arity)
      /\ UNCHANGED <<pc, local, next_jt_idx>>

RunEnd(k) ==
  /\ Ins(k).op = "end"
  /\ Run(k)
  /\ IF NextAt(k) = offset THEN Return
                           ELSE Continue(k, stack, local, next_jt_idx)

RunReturn(k) ==
  /\ Ins(k).op = "return"
  /\ Run(k)
  /\ Return

RunBr(k) ==
  /\ Ins(k).op = "br"
  /\ Run(k)
  /\ Jump(next_jt_idx, Imm1(k), stack, TRUE)

RunBrIf(k) ==
  /\ Ins(k).op = "br_if"
  /\ Run(k)
  /\ \E c \in BOOLEAN :
       IF c THEN Jump(next_jt_idx, Imm1(k), Pop(1), TRUE)
            ELSE Continue(k, Pop(1), local, U16(next_jt_idx + 1))

\* An index beyond the table's length takes the default, the last label.
RunBrTable(k) ==
  /\ Ins(k).op = "br_table"
  /\ Run(k)
  /\ \E i \in 0..(Len(Ins(k).ls) - 1) :
       Jump(U16(next_jt_idx + i), NextAt(k), Pop(1), TRUE)

(***************************************************************************)
(* call: the callee runs with its locals in this stack.  It may trap; when *)
(* it returns, its results are where its arguments were.                   *)
(***************************************************************************)
RunCall(k) ==
  /\ Ins(k).op = "call"
  /\ Run(k)
  /\ LET fn == Callees[Ins(k).fn + 1]
         s  == Pop(Len(fn.type.params))
     IN  IF Len(s) + fn.local_count > stack_size_max THEN Stop("bad_room")
         ELSE \/ Stop("trapped")
              \/ Continue(k, s \o Made(k, fn.type.results), local, next_jt_idx)

(***************************************************************************)
(* call_indirect: a callee with locals beyond its parameters gets an array *)
(* of local_count values, which takes its arguments and its results.       *)
(***************************************************************************)
ArrayTooSmall(fn) ==
  /\ fn.local_count # Len(fn.type.params)
  /\ \/ fn.local_count < Len(fn.type.params)
     \/ fn.local_count < Len(fn.type.results)

RunCallIndirect(k) ==
  /\ Ins(k).op = "call_indirect"
  /\ Run(k)
  /\ \/ Stop("trapped")
     \/ \E i \in DOMAIN Callees :
          /\ Callees[i].type = Ins(k).type
          /\ IF ArrayTooSmall(Callees[i]) THEN Stop("bad_room")
             ELSE Continue(k, Pop(Reads(k)) \o Made(k, Ins(k).type.results),
                           local, next_jt_idx)

RunSelect(k) ==
  /\ Ins(k).op \in {"select", "select_t"}
  /\ Run(k)
  /\ \E i \in {1, 2} :
       Continue(k, Append(Pop(3), Topmost(3)[i]), local, next_jt_idx)

RunLocal(k) ==
  /\ Ins(k).op \in LocalOps
  /\ Run(k)
  /\ LET i == Ins(k).idx + 1
     IN  CASE Ins(k).op = "local_get" ->
                Continue(k, Append(stack, local[i]), local, next_jt_idx)
           [] Ins(k).op = "local_set" ->
                Continue(k, Pop(1), [local EXCEPT ![i] = Topmost(1)[1]], next_jt_idx)
           [] OTHER ->
                Continue(k, stack, [local EXCEPT ![i] = Topmost(1)[1]], next_jt_idx)

RunData(k) ==
  /\ Ins(k).op \in DataOps \ {"select", "select_t", "call_indirect"}
  /\ Run(k)
  /\ LET e == DataEffect(Ins(k))
     IN  IF Ins(k).op \in EntityOps /\ ~Ins(k).there THEN Stop("bad_mem")
         ELSE \/ e.trap /\ Stop("trapped")
              \/ Continue(k, Pop(e.pop) \o Made(k, e.push), local, next_jt_idx)

\* A handler that reads more values than the stack holds.
ReadBelowBase(k) ==
  /\ At(k)
  /\ ~Enough(k)
  /\ Stop("bad_stack")
  /\ UNCHANGED vars

\* pc is at no instruction.
BadFetch ==
  /\ status = "running"
  /\ \A k \in 1..Len(code) : pc # code[k].at
  /\ Stop("bad_pc")
  /\ UNCHANGED vars

RunStep(k) ==
  \/ RunNop(k) \/ RunUnreachable(k) \/ RunIf(k) \/ RunElse(k) \/ RunEnd(k)
  \/ RunReturn(k) \/ RunBr(k) \/ RunBrIf(k) \/ RunBrTable(k) \/ RunCall(k)
  \/ RunCallIndirect(k) \/ RunSelect(k) \/ RunLocal(k) \/ RunData(k)
  \/ ReadBelowBase(k)

Validate == Next /\ UNCHANGED runvars

Execute == (\E k \in 1..Len(code) : RunStep(k)) \/ BadFetch

\* The call is over, or there is no function to call.
Finished ==
  /\ phase \in {"invalid", "assert"} \/ status \notin {"idle", "running"}
  /\ UNCHANGED allvars

RunInit ==
  /\ Init
  /\ pc = 0
  /\ stack = << >>
  /\ local = << >>
  /\ next_jt_idx = 0
  /\ status = "idle"

RunNext == Validate \/ Start \/ Execute \/ Finished

RunSpec == RunInit /\ [][RunNext]_allvars

----------------------------------------------------------------------------
\* The variables have the types that in_place_dt_call declares.
RunTypeOK ==
  /\ pc \in Nat
  /\ stack \in Seq(Values)
  /\ local \in Seq(Values)
  /\ next_jt_idx \in 0..U16_MAX
  /\ status \in Statuses

TypesOf(s) == [i \in 1..Len(s) |-> s[i].t]

\* The cursor that at instruction k names the first slot not yet passed.
CursorAt(k) ==
  \/ code[k].slot < Len(jt) /\ next_jt_idx = code[k].slot
  \/ code[k].slot = Len(jt) /\ next_jt_idx \in {Len(jt), JUMP_TABLE_IDX_INVALID}

(***************************************************************************)
(* The interpreter keeps no labels and never searches the jump table: in   *)
(* every function that validate_func accepted whole, whichever branches    *)
(* are taken, pc is at an instruction, next_jt_idx at that instruction's   *)
(* slots, and the assertions on the slot hold, if a u16 can number them.   *)
(***************************************************************************)
CursorSafe ==
  Closed /\ Numbered =>
    /\ status \notin {"bad_slot", "bad_pc"}
    /\ status = "running" =>
         \E k \in 1..Len(code) : pc = code[k].at /\ CursorAt(k)

(***************************************************************************)
(* Type soundness: where the validator made every check, a running         *)
(* activation never enters code that the validator took for dead, its      *)
(* stack holds exactly the types that the validator saw there, within the  *)
(* room that it computed, and its locals the types that are declared.      *)
(***************************************************************************)
StackTyped ==
  skipped = {} =>
    /\ status \notin {"bad_stack", "bad_mem"}
    /\ status = "running" =>
         \E k \in 1..Len(code) :
           /\ pc = code[k].at
           /\ IF k = Len(code)
                THEN TypesOf(stack) = f.type.results
                ELSE ~code[k].dead /\ TypesOf(stack) = code[k].types
    /\ status = "returned" => TypesOf(stack) = f.type.results
    /\ status # "idle" => TypesOf(local) = LocalTypes

\* A direct call of a function of the same module always has room for the
\* callee's locals in the caller's stack.
RoomForOwnCallees ==
  status = "bad_room" /\ skipped = {} =>
    \A k \in 1..Len(code) : pc = code[k].at /\ Ins(k).op = "call" =>
      Callees[Ins(k).fn + 1].imported

(***************************************************************************)
(* A function that two virtual machines instantiate is validated twice and *)
(* the second table is appended to the first, which the interpreters go on *)
(* using: linking both together leaves the first part as it was.           *)
(***************************************************************************)
Unlinked(t) == [i \in DOMAIN t |-> [t[i] EXCEPT !.next_idx = JUMP_TABLE_IDX_INVALID]]
Relink(t)   == Link(t \o Unlinked(t))

RelinkBenign ==
  phase = "ready" /\ Closed => SubSeq(Relink(jt), 1, Len(jt)) = jt

----------------------------------------------------------------------------
(***************************************************************************)
(* What comments and assertions say and the code does not keep.            *)
(***************************************************************************)

\* in_place_dt.c asserts at the end of a function that the stack holds the
\* results ("sp - stack_base >= arity").  Closed leaves functions aside that
\* end inside a block.
ReturnHasResults ==
  Closed /\ status = "bad_stack" =>
    \A k \in 1..Len(code) :
      pc = code[k].at /\ Ins(k).op = "end" => Enough(k)

\* in_place_dt.c asserts on a direct call that "the stack is enough to hold the
\* callee's all local variables".
RoomForCallees ==
  skipped = {} /\ status = "bad_room" =>
    \A k \in 1..Len(code) : pc = code[k].at => Ins(k).op # "call"
=============================================================================
