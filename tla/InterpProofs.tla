---------------------------- MODULE InterpProofs ----------------------------
(***************************************************************************)
(* The in-place interpreter runs on the jump table that the validator      *)
(* leaves, for every function that it accepts and however its branches go: *)
(* pc is always at an instruction and next_jt_idx at its slots.            *)
(*                                                                         *)
(* CodeInv is what the run needs of the validated function beyond the      *)
(* layout and the links; RunShape says what a handler does to pc, the      *)
(* stack, the locals and the cursor; Activation is the invariant of a run. *)
(***************************************************************************)
EXTENDS JumpTableProofs, InPlaceInterp

----------------------------------------------------------------------------
\* The indices of an accepted instruction are in range.
InRange(ins) ==
  /\ ins.op = "call" => ins.fn < Len(Callees)
  /\ ins.op \in LocalOps => ins.idx < Len(LocalTypes)

\* A slot leads to the slot that linking it again would find.
SelfLinked ==
  \A s \in 1..Len(jt) :
    NextSlots(jt, s) # {} => jt[s].next_idx = U16(Min(NextSlots(jt, s)) - 1)

CodeInv ==
  /\ \A k \in 1..Len(code) : InRange(code[k].ins)
  /\ \A j, k \in 1..Len(code) : j < k => code[j].at < code[k].at
  /\ \A s \in 1..Len(jt) : Target(jt[s]) \in Nat
  /\ phase = "ready" => EndDecoded /\ SelfLinked

VInv == TInv /\ Layout /\ JumpTable /\ CodeInv

\* The targets stay addresses, whichever callback runs.
LEMMA StepReaches ==
  ASSUME VInv, NEW ins \in Instrs, Step(ins), NEW s \in 1..Len(jt')
  PROVE  Target(jt'[s]) \in Nat
  <1>1. TInv /\ Ordered /\ Targets /\ \A r \in 1..Len(jt) : Target(jt[r]) \in Nat
    BY DEF VInv, Layout, JumpTable, CodeInv
  <1>2. Decode(ins) /\ StepShape(ins) /\ phase = "decode"
    BY <1>1, StepsShape DEF Decode
  <1>3. s \in 1..Len(jt) \/ s \in (Len(jt) + 1)..Len(jt')
    BY <1>1, <1>2, OldOrNew
  <1>4. offset' \in Nat /\ offset \in Nat
    BY <1>1, <1>2, DecodeType DEF TInv, TypeOK
  <1>5. CASE s \in (Len(jt) + 1)..Len(jt')
    <2>1. jt'[s].pc \in Nat /\ jt'[s].target_offset = 0
      BY <1>1, <1>2, <1>5, OldOrNew DEF StepShape
    <2> QED BY <2>1 DEF Target
  <1>6. CASE s \in 1..Len(jt) /\ on_else(ins)
    <2>1. Swapped
      BY <1>1, <1>6, ElseSwapped
    <2> QED BY <1>1, <1>4, <1>6, <2>1 DEF Swapped
  <1>7. CASE s \in 1..Len(jt) /\ on_end(ins)
    <2> DEFINE n == Len(ctrl_stack)
    <2>1. Popped
      BY <1>1, <1>7, EndPopped
    <2>2. n \in 1..n /\ ctrl_stack[n] \in Frames
      BY <1>1, <2>1 DEF Popped, TInv, TypeOK
    <2>3. ctrl_stack[n].pc \in Nat
      BY <2>2 DEF Frames
    <2>4. \/ Target(jt'[s]) \in {ctrl_stack[n].pc, offset, offset'}
          \/ jt'[s] = jt[s]
      BY <1>7, <2>1 DEF Popped
    <2> QED BY <1>1, <1>4, <1>7, <2>3, <2>4
  <1>8. CASE s \in 1..Len(jt) /\ ~on_else(ins) /\ ~on_end(ins)
    <2>1. Kept
      BY <1>1, <1>8, PlainKept, BlockKept, BrKept, BrTableKept DEF Step
    <2> QED BY <1>1, <1>8, <2>1 DEF Kept, SameSlots
  <1> QED BY <1>3, <1>5, <1>6, <1>7, <1>8

\* Decoding keeps the order of the code and the range of its indices.
LEMMA StepCode ==
  ASSUME VInv, NEW ins \in Instrs, Step(ins)
  PROVE  CodeInv'
  <1>1. TInv /\ Ordered /\ CodeInv
    BY DEF VInv, Layout
  <1>2. Decode(ins) /\ IndexOk(ins) /\ f' = f /\ phase' = "decode"
    BY <1>1, StepsShape, DecodeType
  <1>3. /\ Len(code') = Len(code) + 1 /\ Len(code) \in Nat
        /\ \A k \in 1..Len(code) : code'[k] = code[k]
        /\ code'[Len(code) + 1].at = offset
        /\ code'[Len(code) + 1].ins = ins
    BY <1>1, <1>2, Grown
  <1>4. \A k \in 1..Len(code) : /\ code[k].at \in Nat /\ code[k].at < NextAt(k)
                                /\ NextAt(k) \in Nat /\ NextAt(k) <= offset
    BY <1>1, CodeTypes DEF Ordered
  <1>5. offset \in Nat
    BY <1>1 DEF TInv, TypeOK
  <1>6. \A k \in 1..Len(code') : k \in 1..Len(code) \/ k = Len(code) + 1
    BY <1>3
  <1>7. \A k \in 1..Len(code') : InRange(code[k].ins)'
    <2>1. LocalTypes' = LocalTypes
      BY <1>2 DEF LocalTypes
    <2>2. InRange(ins)
      BY <1>2 DEF IndexOk, InRange
    <2>3. \A k \in 1..Len(code) : InRange(code[k].ins)
      BY <1>1 DEF CodeInv
    <2> QED BY <1>3, <1>6, <2>1, <2>2, <2>3 DEF InRange
  <1>8. \A j, k \in 1..Len(code') : j < k => code'[j].at < code'[k].at
    <2>1. \A j, k \in 1..Len(code) : j < k => code[j].at < code[k].at
      BY <1>1 DEF CodeInv
    <2> QED BY <1>3, <1>4, <1>5, <1>6, <2>1, SMTT(30)
  <1>9. \A s \in 1..Len(jt') : Target(jt'[s]) \in Nat
    BY StepReaches
  <1> QED BY <1>2, <1>7, <1>8, <1>9 DEF CodeInv, InRange

\* Linking does not change what linking depends on.
LEMMA SameNext ==
  ASSUME NEW t \in Seq(Slots), NEW i \in 1..Len(t)
  PROVE  NextSlots(Link(t), i) = NextSlots(t, i) /\ Target(Link(t)[i]) = Target(t[i])
  <1>1. /\ Len(Link(t)) = Len(t) /\ Len(t) \in Nat
        /\ \A j \in 1..Len(t) : /\ Link(t)[j].pc = t[j].pc
                                /\ Link(t)[j].target_offset = t[j].target_offset
    BY Linked
  <1>2. Target(Link(t)[i]) = Target(t[i])
    BY <1>1 DEF Target
  <1>3. SlotsAhead(Link(t), i) = SlotsAhead(t, i)
    BY <1>1, <1>2 DEF SlotsAhead
  <1>4. SlotsBehind(Link(t), i) = SlotsBehind(t, i)
    BY <1>1, <1>2 DEF SlotsBehind
  <1> QED BY <1>1, <1>2, <1>3, <1>4 DEF NextSlots

\* CodeInv is inductive, relative to the validator's other invariants.
LEMMA NextCode ==
  ASSUME VInv, [Next]_vars
  PROVE  CodeInv'
  <1>1. TInv /\ CodeInv /\ jt \in Seq(Slots)
    BY DEF VInv, TInv, TypeOK
  <1>2. CASE \E ins \in Instrs : Step(ins)
    BY <1>2, StepCode
  <1>3. CASE on_decode_end
    <2>1. /\ code' = code /\ f' = f /\ jt' = Link(jt) /\ EndDecoded
      BY <1>3 DEF on_decode_end
    <2>2. /\ Len(jt') = Len(jt)
          /\ \A s \in 1..Len(jt) :
               /\ NextSlots(jt', s) = NextSlots(jt, s)
               /\ Target(jt'[s]) = Target(jt[s])
               /\ jt'[s].next_idx =
                    IF NextSlots(jt, s) = {}
                      THEN jt[s].next_idx ELSE U16(Min(NextSlots(jt, s)) - 1)
      BY <1>1, <2>1, Linked, SameNext
    <2>3. SelfLinked'
      BY <2>2 DEF SelfLinked
    <2>4. \A s \in 1..Len(jt') : Target(jt'[s]) \in Nat
      BY <1>1, <2>2 DEF CodeInv
    <2>5. EndDecoded'
      BY <2>1 DEF EndDecoded
    <2>6. /\ \A k \in 1..Len(code') : InRange(code[k].ins)'
          /\ \A j, k \in 1..Len(code') : j < k => code'[j].at < code'[k].at
      BY <1>1, <2>1 DEF CodeInv, InRange, LocalTypes
    <2> QED BY <2>3, <2>4, <2>5, <2>6 DEF CodeInv, InRange
  <1>4. CASE Reject \/ Truncated \/ EmptyVecAccess
    BY <1>4 DEF Reject, Truncated, EmptyVecAccess, Quit, CodeInv
  <1>5. CASE UNCHANGED vars
    BY <1>1, <1>5 DEF vars, CodeInv, InRange, LocalTypes, EndDecoded, SelfLinked
  <1> QED BY <1>2, <1>3, <1>4, <1>5 DEF Next

\* The validator's invariants together.
LEMMA InitVInv ==
  ASSUME Init
  PROVE  VInv
  BY InitTInv, EmptyLayout, InitJumpTable DEF VInv, CodeInv, Init

\* The validator's steps, and steps of the interpreter, keep the validator's invariant.
LEMMA NextVInv ==
  ASSUME VInv, [Next]_vars
  PROVE  VInv'
  BY NextTInv, NextLayout, NextJumpTable, NextCode DEF VInv

----------------------------------------------------------------------------
(***************************************************************************)
(* The stack's values.                                                     *)
(***************************************************************************)
\* The first m values of a stack.
LEMMA Lower ==
  ASSUME NEW S, NEW s \in Seq(S), NEW m \in 0..Len(s)
  PROVE  /\ SubSeq(s, 1, m) \in Seq(S) /\ Len(SubSeq(s, 1, m)) = m
         /\ \A i \in 1..m : SubSeq(s, 1, m)[i] = s[i]
  <1>1. \A i \in 1..m : s[i] \in S
    OBVIOUS
  <1> QED BY <1>1, SubSeqProperties

\* The topmost n values of a stack.
LEMMA Upper ==
  ASSUME NEW S, NEW s \in Seq(S), NEW n \in 0..Len(s)
  PROVE  /\ SubSeq(s, Len(s) - n + 1, Len(s)) \in Seq(S)
         /\ Len(SubSeq(s, Len(s) - n + 1, Len(s))) = n
         /\ \A i \in 1..n : SubSeq(s, Len(s) - n + 1, Len(s))[i] = s[Len(s) - n + i]
  <1> DEFINE a == Len(s) - n + 1
  <1>1. a \in Int /\ Len(s) \in Int /\ \A i \in a..Len(s) : s[i] \in S
    OBVIOUS
  <1>2. /\ SubSeq(s, a, Len(s)) \in Seq(S)
        /\ Len(SubSeq(s, a, Len(s))) = IF a <= Len(s) THEN Len(s) - a + 1 ELSE 0
        /\ \A i \in 1..(Len(s) - a + 1) : SubSeq(s, a, Len(s))[i] = s[a + i - 1]
    <2> HIDE DEF a
    <2> QED BY <1>1, SubSeqProperties
  <1>3. Len(s) - a + 1 = n /\ (a <= Len(s) <=> n # 0) /\ \A i \in 1..n : a + i - 1 = Len(s) - n + i
    OBVIOUS
  <1> HIDE DEF a
  <1>4. Len(SubSeq(s, a, Len(s))) = n
    BY <1>2, <1>3
  <1> QED BY <1>2, <1>3, <1>4 DEF a

\* A handler that has the values it reads pops and keeps values.
LEMMA Popping ==
  ASSUME stack \in Seq(Values), NEW n \in Nat, n <= Len(stack)
  PROVE  /\ Pop(n) \in Seq(Values) /\ Len(Pop(n)) = Len(stack) - n
         /\ Topmost(n) \in Seq(Values) /\ Len(Topmost(n)) = n
         /\ \A i \in 1..n : Topmost(n)[i] \in Values
  <1>1. Len(stack) - n \in 0..Len(stack) /\ n \in 0..Len(stack)
    OBVIOUS
  <1>2. Pop(n) \in Seq(Values) /\ Len(Pop(n)) = Len(stack) - n
    BY <1>1, Lower DEF Pop
  <1>3. Topmost(n) \in Seq(Values) /\ Len(Topmost(n)) = n
    BY <1>1, Upper DEF Topmost
  <1> QED BY <1>2, <1>3

\* What an instruction makes are values.
LEMMA MakingValues ==
  ASSUME NEW k \in Nat, NEW ts \in Seq(ValTypes)
  PROVE  Made(k, ts) \in Seq(Values) /\ Len(Made(k, ts)) = Len(ts)
  <1>1. \A i \in 1..Len(ts) : [t |-> ts[i], by |-> k] \in Values
    BY DEF Values
  <1>2. Made(k, ts) \in [1..Len(ts) -> Values] /\ Len(ts) \in Nat
    BY <1>1 DEF Made
  <1> QED BY <1>2 DEF Made

\* The effects of the data instructions take a number of values and leave
\* value types.
Effects == [pop : Nat, push : Seq(ValTypes), trap : BOOLEAN]

\* What the handlers of the reference and table instructions take and leave.
LEMMA RefEffectType ==
  ASSUME NEW ins \in Instrs
  PROVE  RefEffect(ins) \in Effects
  <1> DEFINE Typed2 == {"global_get", "table_get", "ref_null"}
             Plain == {"global_set", "table_set", "ref_is_null", "ref_func", "bulk",
                       "table_grow", "table_size", "table_fill"}
  <1>1. ins.op \in Typed2 => ins.t \in ValTypes
    BY InstrsAssumption DEF TypedOps
  <1>2. "i32" \in ValTypes /\ "funcref" \in ValTypes
    BY DEF ValTypes, NumTypes, RefTypes
  <1>3. CASE ins.op \in Typed2
    BY <1>1, <1>3 DEF RefEffect, Effect, Effects
  <1>4. CASE ins.op \in Plain
    BY <1>2, <1>4 DEF RefEffect, Effect, Effects
  <1>5. CASE ins.op = "call_indirect"
    <2>1. /\ ins.type.results \in Seq(ValTypes) /\ ins.type.params \in Seq(ValTypes)
      BY <1>5, InstrsAssumption DEF FuncTypes
    <2>2. Len(ins.type.params) + 1 \in Nat
      BY <2>1
    <2>3. RefEffect(ins) = Effect(Len(ins.type.params) + 1, ins.type.results, TRUE)
      BY <1>5 DEF RefEffect
    <2> QED BY <2>1, <2>2, <2>3 DEF Effect, Effects
  <1>6. CASE ins.op \notin Typed2 \cup Plain \cup {"call_indirect"}
    BY <1>6 DEF RefEffect, Effect, Effects
  <1> QED BY <1>3, <1>4, <1>5, <1>6

\* What the handlers of all data instructions take and leave.
LEMMA DataEffectType ==
  ASSUME NEW ins \in Instrs
  PROVE  DataEffect(ins) \in Effects
  <1> DEFINE Typed2 == {"const", "unop", "binop", "convertop", "load"}
             Plain == {"drop", "testop", "relop", "store", "memory_size", "memory_grow"}
  <1>1. ins.op \in Typed2 => ins.t \in ValTypes
    BY InstrsAssumption DEF TypedOps
  <1>2. "i32" \in ValTypes
    BY DEF ValTypes, NumTypes
  <1>3. CASE ins.op \in Typed2
    BY <1>1, <1>3 DEF DataEffect, Effect, Effects
  <1>4. CASE ins.op \in Plain
    BY <1>2, <1>4 DEF DataEffect, Effect, Effects
  <1>5. CASE ins.op \notin Typed2 \cup Plain
    <2>1. DataEffect(ins) = RefEffect(ins)
      BY <1>5 DEF DataEffect
    <2> QED BY <2>1, RefEffectType
  <1> QED BY <1>3, <1>4, <1>5

----------------------------------------------------------------------------
(***************************************************************************)
(* What a handler does: it stops, goes on behind its instruction with the  *)
(* cursor behind its slot (if it has one), takes one of its slots, or      *)
(* returns.                                                                *)
(***************************************************************************)
Halts == \E how \in {"trapped", "bad_stack", "bad_room", "bad_mem"} : Stop(how)

GoesOn(k) ==
  /\ k < Len(code)
  /\ \E s, l \in Seq(Values) :
       /\ Len(l) = Len(local)
       /\ \/ SlotCount(Ins(k)) = 0 /\ Continue(k, s, l, next_jt_idx)
          \/ SlotCount(Ins(k)) = 1 /\ Continue(k, s, l, U16(next_jt_idx + 1))

Jumps(k) ==
  \E i \in Nat, s \in Seq(Values), move \in BOOLEAN :
    /\ i < SlotCount(Ins(k))
    /\ Jump(U16(next_jt_idx + i), SlotAddr(k), s, move)

Returns == Return /\ stack' \in Seq(Values)

RunShape(k) == Halts \/ GoesOn(k) \/ Jumps(k) \/ Returns

\* The locals' and the function's types while an activation lasts.
Activated ==
  /\ status # "idle" => phase = "ready"
  /\ RunTypeOK
  /\ status # "idle" => Len(local) = Len(LocalTypes)

\* What a handler may rely on.
LEMMA RunFacts ==
  ASSUME VInv, Activated, NEW k \in 1..Len(code), At(k)
  PROVE  /\ phase = "ready" /\ stack \in Seq(Values) /\ local \in Seq(Values)
         /\ Len(local) = Len(LocalTypes)
         /\ next_jt_idx \in 0..U16_MAX /\ next_jt_idx \in Nat
         /\ U16(next_jt_idx + 0) = next_jt_idx
         /\ Ins(k) \in Instrs /\ InRange(Ins(k)) /\ k \in Nat
         /\ f.type.results \in Seq(ValTypes)
         /\ Ins(k).op # "end" => k < Len(code)
         /\ NextAt(k) # offset => k < Len(code)
  <1>1. status # "idle"
    BY DEF At
  <1>2. /\ phase = "ready" /\ stack \in Seq(Values) /\ local \in Seq(Values)
        /\ Len(local) = Len(LocalTypes) /\ next_jt_idx \in 0..U16_MAX
    BY <1>1 DEF Activated, RunTypeOK
  <1>3. Ins(k) \in Instrs /\ InRange(Ins(k))
    BY CodeTypes DEF VInv, CodeInv, Ins
  <1>4. f.type.results \in Seq(ValTypes)
    BY FunsAssumption DEF VInv, TInv, TypeOK, FuncTypes
  <1>5. Len(code) \in Nat
    BY DEF VInv, TInv, TypeOK
  <1>6. code[Len(code)].ins.op = "end"
    BY <1>2 DEF VInv, CodeInv, EndDecoded
  <1>7. Ins(k).op # "end" => k < Len(code)
    BY <1>5, <1>6 DEF Ins
  <1>8. NextAt(k) # offset => k < Len(code)
    <2>1. k = Len(code) => NextAt(k) = offset
      BY DEF VInv, Layout, SlotLayout
    <2> QED BY <1>5, <2>1
  <1>9. next_jt_idx \in Nat /\ U16(next_jt_idx + 0) = next_jt_idx
    BY <1>2, U16Id, WidthAssumption
  <1> QED BY <1>2, <1>3, <1>4, <1>5, <1>7, <1>8, <1>9

\* How many values each handler reads.
LEMMA ReadsIs ==
  ASSUME NEW k
  PROVE  LET op == Ins(k).op
         IN  /\ op \in {"if", "br_if", "br_table", "local_set", "local_tee"} => Reads(k) = 1
             /\ op \in {"select", "select_t"} => Reads(k) = 3
             /\ op = "call" => Reads(k) = Len(Callees[Ins(k).fn + 1].type.params)
             /\ op = "return" => Reads(k) = Len(f.type.results)
             /\ op = "end" => Reads(k) = IF NextAt(k) = offset
                                           THEN Len(f.type.results) ELSE 0
             /\ op \in DataOps \ {"select", "select_t"} =>
                  Reads(k) = DataEffect(Ins(k)).pop
             /\ op \in {"nop", "unreachable", "block", "loop", "else", "br", "local_get"} =>
                  Reads(k) = 0
  <1> DEFINE op == Ins(k).op
             a == Len(Callees[Ins(k).fn + 1].type.params)
             b == Len(f.type.results)
             c == IF NextAt(k) = offset THEN b ELSE 0
             d == DataEffect(Ins(k)).pop
  <1>1. Reads(k) =
          CASE op \in {"if", "br_if", "br_table", "local_set", "local_tee"} -> 1
            [] op \in {"select", "select_t"} -> 3
            [] op = "call"   -> a
            [] op = "return" -> b
            [] op = "end"    -> c
            [] op \in DataOps \ {"select", "select_t"} -> d
            [] OTHER -> 0
    BY DEF Reads
  <1> HIDE DEF op, a, b, c, d
  <1>2. /\ op \in {"if", "br_if", "br_table", "local_set", "local_tee"} => Reads(k) = 1
        /\ op \in {"select", "select_t"} => Reads(k) = 3
        /\ op = "call" => Reads(k) = a
        /\ op = "return" => Reads(k) = b
        /\ op = "end" => Reads(k) = c
        /\ op \in DataOps \ {"select", "select_t"} => Reads(k) = d
        /\ op \in {"nop", "unreachable", "block", "loop", "else", "br", "local_get"} =>
             Reads(k) = 0
    BY <1>1 DEF DataOps
  <1> QED BY <1>2 DEF op, a, b, c, d

\* The handlers that leave the stack's values alone or only read a condition.
LEMMA ControlRuns ==
  ASSUME VInv, Activated, NEW k \in 1..Len(code),
         \/ RunNop(k) \/ RunUnreachable(k) \/ RunIf(k) \/ RunElse(k)
         \/ RunBr(k) \/ RunBrIf(k)
  PROVE  RunShape(k)
  <1>1. At(k) /\ Enough(k)
    BY DEF RunNop, RunUnreachable, RunIf, RunElse, RunBr, RunBrIf, Run
  <1>2. /\ stack \in Seq(Values) /\ local \in Seq(Values)
        /\ U16(next_jt_idx + 0) = next_jt_idx
        /\ Ins(k).op # "end" => k < Len(code)
    BY <1>1, RunFacts
  <1>3. Ins(k).op \in {"if", "br_if"} => Pop(1) \in Seq(Values)
    <2>1. Ins(k).op \in {"if", "br_if"} => Reads(k) = 1
      BY ReadsIs
    <2> QED BY <1>1, <1>2, <2>1, Popping DEF Enough
  <1>4. SlotAddr(k) = IF Ins(k).op = "br_table" THEN NextAt(k) ELSE Imm1(k)
    BY DEF SlotAddr, Ins, Imm1
  <1>5. CASE RunNop(k)
    <2>1. SlotCount(Ins(k)) = 0 /\ Ins(k).op # "end"
      BY <1>5 DEF RunNop, SlotCount, JumpOps
    <2> QED BY <1>2, <1>5, <2>1 DEF RunNop, RunShape, GoesOn
  <1>6. CASE RunUnreachable(k)
    BY <1>6 DEF RunUnreachable, RunShape, Halts
  <1>7. CASE RunElse(k) \/ RunBr(k)
    <2>1. SlotCount(Ins(k)) = 1 /\ Ins(k).op # "br_table"
      BY <1>7 DEF RunElse, RunBr, SlotCount, JumpOps
    <2>2. PICK move \in BOOLEAN : Jump(next_jt_idx, Imm1(k), stack, move)
      BY <1>7 DEF RunElse, RunBr
    <2>3. Jump(U16(next_jt_idx + 0), SlotAddr(k), stack, move)
      BY <1>2, <1>4, <2>1, <2>2
    <2> QED BY <1>2, <2>1, <2>3 DEF RunShape, Jumps
  <1>8. CASE RunIf(k) \/ RunBrIf(k)
    <2>1. /\ SlotCount(Ins(k)) = 1 /\ Ins(k).op # "br_table" /\ Ins(k).op # "end"
          /\ Pop(1) \in Seq(Values)
      BY <1>3, <1>8 DEF RunIf, RunBrIf, SlotCount, JumpOps
    <2>2. \/ Continue(k, Pop(1), local, U16(next_jt_idx + 1))
          \/ \E move \in BOOLEAN : Jump(next_jt_idx, Imm1(k), Pop(1), move)
      BY <1>8 DEF RunIf, RunBrIf
    <2>3. CASE Continue(k, Pop(1), local, U16(next_jt_idx + 1))
      BY <1>2, <2>1, <2>3 DEF RunShape, GoesOn
    <2>4. CASE \E move \in BOOLEAN : Jump(next_jt_idx, Imm1(k), Pop(1), move)
      <3>1. PICK move \in BOOLEAN : Jump(next_jt_idx, Imm1(k), Pop(1), move)
        BY <2>4
      <3>2. Jump(U16(next_jt_idx + 0), SlotAddr(k), Pop(1), move)
        BY <1>2, <1>4, <2>1, <3>1
      <3> QED BY <2>1, <3>2 DEF RunShape, Jumps
    <2> QED BY <2>2, <2>3, <2>4
  <1> QED BY <1>5, <1>6, <1>7, <1>8

\* br_table.
LEMMA BrTableRuns ==
  ASSUME VInv, Activated, NEW k \in 1..Len(code), RunBrTable(k)
  PROVE  RunShape(k)
  <1>1. At(k) /\ Enough(k) /\ Ins(k).op = "br_table"
    BY DEF RunBrTable, Run
  <1>2. stack \in Seq(Values) /\ Ins(k) \in Instrs
    BY <1>1, RunFacts
  <1>3. Reads(k) = 1
    BY <1>1, ReadsIs
  <1>4. Pop(1) \in Seq(Values)
    BY <1>1, <1>2, <1>3, Popping DEF Enough
  <1>5. SlotAddr(k) = NextAt(k)
    BY <1>1 DEF SlotAddr, Ins
  <1>6. SlotCount(Ins(k)) = Len(Ins(k).ls) /\ Len(Ins(k).ls) \in Nat
    BY <1>1, <1>2, InstrsAssumption DEF SlotCount
  <1>7. PICK i \in 0..(Len(Ins(k).ls) - 1) :
          Jump(U16(next_jt_idx + i), NextAt(k), Pop(1), TRUE)
    BY DEF RunBrTable
  <1>8. i \in Nat /\ i < SlotCount(Ins(k))
    BY <1>6, <1>7
  <1> QED BY <1>4, <1>5, <1>7, <1>8 DEF RunShape, Jumps

\* end, return and a handler that finds too few values.
LEMMA EndRuns ==
  ASSUME VInv, Activated, NEW k \in 1..Len(code),
         RunEnd(k) \/ RunReturn(k) \/ ReadBelowBase(k)
  PROVE  RunShape(k)
  <1>1. At(k)
    BY DEF RunEnd, RunReturn, ReadBelowBase, Run
  <1>2. /\ stack \in Seq(Values) /\ local \in Seq(Values)
        /\ f.type.results \in Seq(ValTypes)
        /\ NextAt(k) # offset => k < Len(code)
    BY <1>1, RunFacts
  <1>3. CASE ReadBelowBase(k)
    BY <1>3 DEF ReadBelowBase, RunShape, Halts
  <1>4. CASE Return /\ Len(stack) >= Len(f.type.results)
    <2>1. Topmost(Len(f.type.results)) \in Seq(Values)
      BY <1>2, <1>4, Popping
    <2> QED BY <1>4, <2>1 DEF Return, RunShape, Returns
  <1>5. CASE RunReturn(k)
    <2>1. Len(stack) >= Len(f.type.results) /\ Return
      BY <1>5, ReadsIs DEF RunReturn, Run, Enough
    <2> QED BY <1>4, <2>1
  <1>6. CASE RunEnd(k) /\ NextAt(k) = offset
    <2>1. Len(stack) >= Len(f.type.results) /\ Return
      BY <1>6, ReadsIs DEF RunEnd, Run, Enough
    <2> QED BY <1>4, <2>1
  <1>7. CASE RunEnd(k) /\ NextAt(k) # offset
    <2>1. SlotCount(Ins(k)) = 0 /\ Continue(k, stack, local, next_jt_idx)
      BY <1>7 DEF RunEnd, SlotCount, JumpOps
    <2> QED BY <1>2, <1>7, <2>1 DEF RunShape, GoesOn
  <1> QED BY <1>3, <1>5, <1>6, <1>7

\* call and call_indirect.
LEMMA CallRuns ==
  ASSUME VInv, Activated, NEW k \in 1..Len(code), RunCall(k) \/ RunCallIndirect(k)
  PROVE  RunShape(k)
  <1>1. At(k) /\ Enough(k) /\ Ins(k).op \in {"call", "call_indirect"}
    BY DEF RunCall, RunCallIndirect, Run
  <1>2. /\ stack \in Seq(Values) /\ local \in Seq(Values) /\ Ins(k) \in Instrs
        /\ InRange(Ins(k)) /\ k \in Nat /\ k < Len(code)
    BY <1>1, RunFacts
  <1>3. SlotCount(Ins(k)) = 0
    BY <1>1 DEF SlotCount, JumpOps
  <1>4. ASSUME NEW n \in Nat, n = Reads(k), NEW ts \in Seq(ValTypes)
        PROVE  Pop(n) \o Made(k, ts) \in Seq(Values)
    <2>1. Pop(n) \in Seq(Values)
      BY <1>1, <1>2, <1>4, Popping DEF Enough
    <2>2. Made(k, ts) \in Seq(Values)
      BY <1>2, MakingValues
    <2> QED BY <2>1, <2>2
  <1>5. CASE RunCall(k)
    <2> DEFINE fn == Callees[Ins(k).fn + 1]
               n == Len(fn.type.params)
    <2>1. Ins(k).op = "call"
      BY <1>5 DEF RunCall
    <2>2. Ins(k).fn + 1 \in 1..Len(Callees)
      BY <1>2, <2>1, InstrsAssumption, CalleesAssumption DEF InRange
    <2>3. fn.type \in FuncTypes
      BY <2>2, CalleeType
    <2>4. fn.type.results \in Seq(ValTypes) /\ n \in Nat
      BY <2>3 DEF FuncTypes
    <2>5. n = Reads(k)
      BY <2>1, ReadsIs
    <2>6. Pop(n) \o Made(k, fn.type.results) \in Seq(Values)
      BY <1>4, <2>4, <2>5
    <2>7. \/ Stop("bad_room") \/ Stop("trapped")
          \/ Continue(k, Pop(n) \o Made(k, fn.type.results), local, next_jt_idx)
      BY <1>5 DEF RunCall
    <2> HIDE DEF n, fn
    <2> QED BY <1>2, <1>3, <2>6, <2>7 DEF RunShape, Halts, GoesOn
  <1>6. CASE RunCallIndirect(k)
    <2>1. Ins(k).op = "call_indirect"
      BY <1>6 DEF RunCallIndirect
    <2>2. Ins(k).type.results \in Seq(ValTypes)
      BY <1>2, <2>1, InstrsAssumption DEF FuncTypes
    <2>3. Reads(k) = DataEffect(Ins(k)).pop
      BY <2>1, ReadsIs DEF DataOps
    <2>4. Reads(k) \in Nat
      BY <1>2, <2>3, DataEffectType DEF Effects
    <2>5. Pop(Reads(k)) \o Made(k, Ins(k).type.results) \in Seq(Values)
      BY <1>4, <2>2, <2>4
    <2>6. \/ Stop("bad_room") \/ Stop("trapped")
          \/ Continue(k, Pop(Reads(k)) \o Made(k, Ins(k).type.results), local, next_jt_idx)
      BY <1>6 DEF RunCallIndirect
    <2> QED BY <1>2, <1>3, <2>5, <2>6 DEF RunShape, Halts, GoesOn
  <1> QED BY <1>5, <1>6

\* The locals, select and the other data instructions.
LEMMA DataRuns ==
  ASSUME VInv, Activated, NEW k \in 1..Len(code),
         RunSelect(k) \/ RunLocal(k) \/ RunData(k)
  PROVE  RunShape(k)
  <1>1. /\ At(k) /\ Enough(k)
        /\ Ins(k).op \in LocalOps \cup DataOps
    BY DEF RunSelect, RunLocal, RunData, Run, DataOps
  <1>2. SlotCount(Ins(k)) = 0 /\ Ins(k).op # "end"
    BY <1>1 DEF SlotCount, JumpOps, LocalOps, DataOps
  <1>3. /\ stack \in Seq(Values) /\ local \in Seq(Values) /\ Ins(k) \in Instrs
        /\ Len(local) = Len(LocalTypes)
        /\ InRange(Ins(k)) /\ k \in Nat /\ k < Len(code)
    BY <1>1, <1>2, RunFacts
  <1>4. ASSUME NEW s \in Seq(Values), NEW l \in Seq(Values), Len(l) = Len(local),
               Continue(k, s, l, next_jt_idx)
        PROVE  RunShape(k)
    BY <1>2, <1>3, <1>4 DEF RunShape, GoesOn
  <1>5. CASE RunSelect(k)
    <2>1. PICK i \in {1, 2} :
            Continue(k, Append(Pop(3), Topmost(3)[i]), local, next_jt_idx)
      BY <1>5 DEF RunSelect
    <2>2. Reads(k) = 3
      BY <1>5, ReadsIs DEF RunSelect
    <2>3. Pop(3) \in Seq(Values) /\ Topmost(3)[i] \in Values
      BY <1>1, <1>3, <2>1, <2>2, Popping DEF Enough
    <2>4. Append(Pop(3), Topmost(3)[i]) \in Seq(Values)
      BY <2>3
    <2> QED BY <1>3, <1>4, <2>1, <2>4
  <1>6. CASE RunLocal(k)
    <2> DEFINE j == Ins(k).idx + 1
               l == [local EXCEPT ![j] = Topmost(1)[1]]
    <2>1. Ins(k).op \in LocalOps
      BY <1>6 DEF RunLocal
    <2>2. j \in 1..Len(local)
      <3>1. Ins(k).idx \in Nat /\ Ins(k).idx < Len(LocalTypes)
        BY <1>3, <2>1, InstrsAssumption DEF InRange
      <3> QED BY <1>3, <3>1
    <2>3. CASE Ins(k).op = "local_get"
      <3>1. Continue(k, Append(stack, local[j]), local, next_jt_idx)
        BY <1>6, <2>3 DEF RunLocal
      <3>2. Append(stack, local[j]) \in Seq(Values)
        BY <1>3, <2>2
      <3> QED BY <1>3, <1>4, <3>1, <3>2
    <2>4. CASE Ins(k).op \in {"local_set", "local_tee"}
      <3>1. Reads(k) = 1
        BY <2>4, ReadsIs
      <3>2. Pop(1) \in Seq(Values) /\ Topmost(1)[1] \in Values
        BY <1>1, <1>3, <3>1, Popping DEF Enough
      <3>3. l \in Seq(Values) /\ Len(l) = Len(local)
        <4> DEFINE v == Topmost(1)[1]
        <4>1. v \in Values
          BY <3>2
        <4> HIDE DEF v, j
        <4> QED BY <1>3, <2>2, <4>1 DEF v
      <3>4. \/ Continue(k, Pop(1), l, next_jt_idx)
            \/ Continue(k, stack, l, next_jt_idx)
        BY <1>6, <2>4 DEF RunLocal
      <3> HIDE DEF l
      <3> QED BY <1>3, <1>4, <3>2, <3>3, <3>4
    <2> QED BY <2>1, <2>3, <2>4 DEF LocalOps
  <1>7. CASE RunData(k)
    <2> DEFINE e == DataEffect(Ins(k))
    <2>1. e.pop \in Nat /\ e.push \in Seq(ValTypes)
      BY <1>3, DataEffectType DEF Effects
    <2>2. Reads(k) = e.pop
      BY <1>7, ReadsIs DEF RunData
    <2>3. Pop(e.pop) \in Seq(Values) /\ Made(k, e.push) \in Seq(Values)
      BY <1>1, <1>3, <2>1, <2>2, Popping, MakingValues DEF Enough
    <2>4. Pop(e.pop) \o Made(k, e.push) \in Seq(Values)
      BY <2>3
    <2>5. \/ Stop("bad_mem") \/ Stop("trapped")
          \/ Continue(k, Pop(e.pop) \o Made(k, e.push), local, next_jt_idx)
      BY <1>7 DEF RunData
    <2> HIDE DEF e
    <2>6. CASE Stop("bad_mem") \/ Stop("trapped")
      BY <2>6 DEF RunShape, Halts
    <2> QED BY <1>3, <1>4, <2>4, <2>5, <2>6
  <1> QED BY <1>5, <1>6, <1>7

\* Every handler.
LEMMA RunsShape ==
  ASSUME VInv, Activated, NEW k \in 1..Len(code), RunStep(k)
  PROVE  RunShape(k) /\ At(k) /\ UNCHANGED vars
  <1>1. At(k) /\ UNCHANGED vars
    BY DEF RunStep, RunNop, RunUnreachable, RunIf, RunElse, RunEnd, RunReturn,
       RunBr, RunBrIf, RunBrTable, RunCall, RunCallIndirect, RunSelect, RunLocal,
       RunData, ReadBelowBase, Run
  <1>2. RunShape(k)
    BY ControlRuns, BrTableRuns, EndRuns, CallRuns, DataRuns DEF RunStep
  <1> QED BY <1>1, <1>2

\* Moving the operands of a branch down keeps the stack's values.
LEMMA MovedType ==
  ASSUME NEW S, NEW s \in Seq(S), NEW slot \in Slots, MoveOk(slot, s)
  PROVE  Moved(slot, s) \in Seq(S)
  <1> DEFINE so == slot.stack_offset
             n == slot.arity
  <1>1. so \in Nat /\ n \in Nat /\ Len(s) \in Nat
    BY DEF Slots
  <1>2. CASE so = 0
    BY <1>2 DEF Moved
  <1>3. CASE so # 0
    <2>1. Len(s) >= so + n
      BY <1>3 DEF MoveOk
    <2>2. Len(s) - so - n \in 0..Len(s) /\ n \in 0..Len(s)
      BY <1>1, <2>1
    <2>3. SubSeq(s, 1, Len(s) - so - n) \in Seq(S)
      BY <2>2, Lower
    <2>4. SubSeq(s, Len(s) - n + 1, Len(s)) \in Seq(S)
      BY <2>2, Upper
    <2>5. Moved(slot, s) = SubSeq(s, 1, Len(s) - so - n) \o SubSeq(s, Len(s) - n + 1, Len(s))
      BY <1>3 DEF Moved
    <2> QED BY <2>3, <2>4, <2>5
  <1> QED BY <1>2, <1>3

----------------------------------------------------------------------------
\* A validation step happens only before the activation.
LEMMA ValidateIdle ==
  ASSUME Activated, Next
  PROVE  status = "idle"
  <1>1. phase = "decode"
    BY DEF Next, Step, on_unreachable, on_nop, on_block, on_else, on_end, on_br_or_if,
       on_br_table, on_return, on_call, on_data, Decode, on_decode_end, Reject,
       Truncated, EmptyVecAccess
  <1> QED BY <1>1 DEF Activated

\* A slot's link and target are what pc and next_jt_idx can hold.
LEMMA JumpType ==
  ASSUME VInv, Activated, NEW i \in Nat, NEW from, NEW s \in Seq(Values),
         NEW move \in BOOLEAN, Jump(i, from, s, move)
  PROVE  \/ Stop("bad_slot") /\ ~SlotOk(i, from)
         \/ Stop("bad_stack")
         \/ /\ SlotOk(i, from) /\ i + 1 \in 1..Len(jt)
            /\ pc' = Target(jt[i + 1]) /\ pc' \in Nat
            /\ next_jt_idx' = jt[i + 1].next_idx /\ next_jt_idx' \in 0..U16_MAX
            /\ stack' \in Seq(Values) /\ local' = local /\ status' = status
  <1>1. CASE ~SlotOk(i, from)
    BY <1>1 DEF Jump
  <1>2. CASE SlotOk(i, from)
    <2> DEFINE slot == jt[i + 1]
    <2>1. i + 1 \in 1..Len(jt) /\ jt \in Seq(Slots)
      BY <1>2 DEF SlotOk, VInv, TInv, TypeOK
    <2>2. slot \in Slots
      BY <2>1
    <2>3. Target(slot) \in Nat /\ slot.next_idx \in 0..U16_MAX
      BY <2>1, <2>2 DEF VInv, CodeInv, Slots
    <2>4. CASE move /\ ~MoveOk(slot, s)
      BY <1>2, <2>4 DEF Jump
    <2>5. CASE ~(move /\ ~MoveOk(slot, s))
      <3>1. /\ pc' = Target(slot) /\ next_jt_idx' = slot.next_idx
            /\ stack' = IF move THEN Moved(slot, s) ELSE s
            /\ local' = local /\ status' = status
        BY <1>2, <2>5 DEF Jump
      <3>2. stack' \in Seq(Values)
        BY <2>2, <2>5, <3>1, MovedType
      <3> QED BY <1>2, <2>1, <2>3, <3>1, <3>2
    <2> QED BY <2>4, <2>5
  <1> QED BY <1>1, <1>2

\* A handler keeps the types.
LEMMA RunActivated ==
  ASSUME VInv, Activated, NEW k \in 1..Len(code), RunStep(k)
  PROVE  Activated'
  <1>1. RunShape(k) /\ At(k) /\ UNCHANGED vars
    BY RunsShape
  <1>2. /\ phase = "ready" /\ stack \in Seq(Values) /\ local \in Seq(Values)
        /\ next_jt_idx \in 0..U16_MAX /\ next_jt_idx \in Nat
        /\ Len(local) = Len(LocalTypes)
    BY <1>1, RunFacts
  <1>3. pc \in Nat /\ status = "running" /\ NextAt(k) \in Nat
    BY <1>1, CodeTypes DEF Activated, RunTypeOK, At, VInv
  <1>4. phase' = "ready" /\ LocalTypes' = LocalTypes
    BY <1>1, <1>2 DEF vars, LocalTypes
  <1>5. /\ U16(next_jt_idx + 1) \in 0..U16_MAX
        /\ \A i \in Nat : U16(next_jt_idx + i) \in 0..U16_MAX
    <2>1. \A i \in Nat : next_jt_idx + i \in Int
      BY <1>2
    <2> QED BY <2>1, U16Range
  <1>6. ASSUME NEW how \in Statuses, Stop(how)
        PROVE  Activated'
    BY <1>2, <1>3, <1>4, <1>6 DEF Stop, Activated, RunTypeOK
  <1>7. CASE Halts
    BY <1>6, <1>7 DEF Halts, Statuses
  <1>8. CASE GoesOn(k)
    <2>1. PICK s \in Seq(Values), l \in Seq(Values), i \in 0..U16_MAX :
            Len(l) = Len(local) /\ Continue(k, s, l, i)
      BY <1>2, <1>5, <1>8 DEF GoesOn
    <2>2. CASE Len(s) > stack_size_max
      BY <1>6, <2>1, <2>2 DEF Continue, Statuses
    <2>3. CASE ~(Len(s) > stack_size_max)
      <3>1. /\ pc' = NextAt(k) /\ stack' = s /\ local' = l /\ next_jt_idx' = i
            /\ status' = status
        BY <2>1, <2>3 DEF Continue
      <3> QED BY <1>2, <1>3, <1>4, <2>1, <3>1 DEF Activated, RunTypeOK, Statuses
    <2> QED BY <2>2, <2>3
  <1>9. CASE Jumps(k)
    <2>1. PICK i \in Nat, s \in Seq(Values), move \in BOOLEAN :
            Jump(U16(next_jt_idx + i), SlotAddr(k), s, move)
      BY <1>9 DEF Jumps
    <2> DEFINE j == U16(next_jt_idx + i)
    <2>2. j \in Nat
      BY <1>5, <2>1
    <2> HIDE DEF j
    <2>3. \/ Stop("bad_slot") \/ Stop("bad_stack")
          \/ /\ pc' \in Nat /\ next_jt_idx' \in 0..U16_MAX
             /\ stack' \in Seq(Values) /\ local' = local /\ status' = status
      BY <2>1, <2>2, JumpType DEF j
    <2>4. CASE Stop("bad_slot") \/ Stop("bad_stack")
      BY <1>6, <2>4 DEF Statuses
    <2>5. CASE /\ pc' \in Nat /\ next_jt_idx' \in 0..U16_MAX
               /\ stack' \in Seq(Values) /\ local' = local /\ status' = status
      BY <1>2, <1>3, <1>4, <2>5 DEF Activated, RunTypeOK, Statuses
    <2> QED BY <2>3, <2>4, <2>5
  <1>10. CASE Returns
    BY <1>2, <1>3, <1>4, <1>10 DEF Returns, Return, Activated, RunTypeOK, Statuses
  <1> QED BY <1>1, <1>7, <1>8, <1>9, <1>10 DEF RunShape

\* The entry of in_place_dt_call makes locals of the declared types.
LEMMA StartActivated ==
  ASSUME VInv, Activated, Start
  PROVE  Activated'
  <1> DEFINE v(i) == [t  |-> LocalTypes[i],
                      by |-> IF i <= Len(f.type.params) THEN ARG ELSE ZERO]
             l == [i \in 1..Len(LocalTypes) |-> v(i)]
  <1>1. /\ phase = "ready" /\ status' = "running" /\ pc' = 0 /\ stack' = << >>
        /\ local' = l /\ next_jt_idx' = 0 /\ UNCHANGED vars
    BY DEF Start
  <1>2. LocalTypes \in Seq(ValTypes) /\ Len(LocalTypes) \in Nat
    BY LocalTypesType DEF VInv
  <1>3. \A i \in 1..Len(LocalTypes) : v(i) \in Values
    BY <1>2 DEF Values, ARG, ZERO
  <1> HIDE DEF v
  <1>4. l \in Seq(Values) /\ Len(l) = Len(LocalTypes)
    BY <1>2, <1>3
  <1>5. LocalTypes' = LocalTypes /\ phase' = phase
    BY <1>1 DEF vars, LocalTypes
  <1> HIDE DEF l
  <1> QED BY <1>1, <1>4, <1>5, WidthAssumption DEF Activated, RunTypeOK, Statuses

----------------------------------------------------------------------------
(***************************************************************************)
(* The cursor.                                                             *)
(***************************************************************************)
\* The instruction at pc is the only one there.
LEMMA OneAt ==
  ASSUME VInv, NEW j \in 1..Len(code), NEW k \in 1..Len(code), code[j].at = code[k].at
  PROVE  j = k
  <1>1. \A i \in 1..Len(code) : code[i].at \in Nat
    BY CodeTypes DEF VInv
  <1>2. Len(code) \in Nat
    BY DEF VInv, TInv, TypeOK
  <1>3. ~(j < k) /\ ~(k < j)
    BY <1>1 DEF VInv, CodeInv
  <1> QED BY <1>2, <1>3

\* The first slot behind an instruction's address is the instruction's.
LEMMA CursorAfterJump ==
  ASSUME VInv, NEW k \in 1..Len(code), NEW i \in Nat,
         i = FirstSlotAfter(code[k].at)
  PROVE  \/ code[k].slot < Len(jt) /\ i = code[k].slot
         \/ code[k].slot = Len(jt) /\ i = JUMP_TABLE_IDX_INVALID
  <1> DEFINE a == code[k].at
             n == code[k].slot
             S == {s \in 1..Len(jt) : jt[s].pc > a}
  <1>1. n \in Nat /\ a \in Nat /\ Len(jt) \in Nat /\ n <= Len(jt)
    <2>1. TInv /\ Ordered
      BY DEF VInv, Layout
    <2>2. n \in Nat /\ a \in Nat /\ n <= EndSlot(k) /\ EndSlot(k) \in Nat
      BY <2>1, CodeTypes
    <2>3. EndSlot(k) <= Len(jt) /\ Len(jt) \in Nat
      BY <2>1 DEF Ordered, TInv, TypeOK
    <2> QED BY <2>2, <2>3
  <1>2. \A s \in 1..Len(jt) : jt[s].pc \in Nat /\ (s <= n <=> jt[s].pc <= a)
    BY SlotTypes DEF VInv, Layout, Ordered
  <1> HIDE DEF a, n
  <1>3. S = {s \in 1..Len(jt) : s > n}
    BY <1>1, <1>2
  <1>4. i = IF S = {} THEN JUMP_TABLE_IDX_INVALID ELSE Min(S) - 1
    BY DEF FirstSlotAfter, a
  <1> HIDE DEF S
  <1>5. CASE n = Len(jt)
    <2>1. S = {}
      BY <1>1, <1>3, <1>5
    <2> QED BY <1>4, <1>5, <2>1 DEF n
  <1>6. CASE n # Len(jt)
    <2>1. n + 1 \in S /\ \A s \in S : n + 1 <= s
      BY <1>1, <1>3, <1>6
    <2>2. S \in SUBSET Nat
      BY <1>1, <1>3
    <2>3. Min(S) = n + 1
      BY <2>1, <2>2, MinEq
    <2> QED BY <1>1, <1>4, <1>6, <2>1, <2>3 DEF n
  <1> QED BY <1>5, <1>6

\* A handler of a function that is accepted whole keeps the cursor.
LEMMA RunCursor ==
  ASSUME VInv, Activated, CursorSafe, NEW k \in 1..Len(code), RunStep(k)
  PROVE  CursorSafe'
  <1>1. RunShape(k) /\ At(k) /\ UNCHANGED vars
    BY RunsShape
  <1>2. /\ code' = code /\ jt' = jt /\ (Closed' <=> Closed) /\ (Numbered' <=> Numbered)
    BY <1>1 DEF vars, Closed, Numbered
  <1> SUFFICES ASSUME Closed, Numbered
               PROVE  /\ status' \notin {"bad_slot", "bad_pc"}
                      /\ status' = "running" =>
                           \E j \in 1..Len(code) : pc' = code[j].at /\ CursorAt(j)'
    BY <1>2 DEF CursorSafe
  <1>3. /\ next_jt_idx \in Nat /\ phase = "ready" /\ status = "running"
        /\ stack \in Seq(Values) /\ Ins(k) \in Instrs
    BY <1>1, RunFacts DEF At
  <1>4. CursorAt(k)
    <2>1. PICK j \in 1..Len(code) : pc = code[j].at /\ CursorAt(j)
      BY <1>3 DEF CursorSafe
    <2>2. j = k
      BY <1>1, <2>1, OneAt DEF At
    <2> QED BY <2>1, <2>2
  <1> DEFINE n == code[k].slot
             C == SlotCount(Ins(k))
             J == Len(jt)
  <1>5. /\ n \in Nat /\ C \in Nat /\ J \in Nat /\ J <= U16_MAX /\ U16_MAX \in Nat
        /\ EndSlot(k) = n + C /\ n + C <= J
        /\ \A s \in (n + 1)..(n + C) : jt[s].pc = SlotAddr(k)
    <2>1. TInv /\ Ordered /\ SlotLayout
      BY DEF VInv, Layout
    <2>2. n \in Nat /\ C \in Nat /\ EndSlot(k) = n + C
      BY <1>3, <2>1, CodeTypes, Sizes DEF EndSlot, Ins
    <2>3. EndSlot(k) <= J /\ J \in Nat
      BY <2>1 DEF Ordered, TInv, TypeOK
    <2>4. \A s \in (n + 1)..(n + C) : jt[s].pc = SlotAddr(k)
      BY <2>1, <2>2 DEF SlotLayout
    <2> QED BY <2>2, <2>3, <2>4, WidthAssumption DEF Numbered
  <1>6. C > 0 => next_jt_idx = n
    BY <1>4, <1>5 DEF CursorAt
  <1>7. \A i \in Nat : i <= J => U16(i) = i
    BY <1>5, U16Id
  <1>8. CASE Halts
    BY <1>8 DEF Halts, Stop
  <1>9. CASE GoesOn(k)
    <2>1. k < Len(code) /\ k + 1 \in 1..Len(code)
      BY <1>9 DEF GoesOn, VInv, TInv, TypeOK
    <2>2. NextAt(k) = code[k + 1].at /\ code[k + 1].slot = n + C
      BY <1>5, <2>1 DEF VInv, Layout, SlotLayout
    <2>3. PICK s, l \in Seq(Values), i \in Nat :
            /\ Continue(k, s, l, i)
            /\ (C = 0 /\ i = next_jt_idx) \/ (C = 1 /\ i = n + 1)
      <3>1. PICK s \in Seq(Values), l \in Seq(Values) :
              \/ C = 0 /\ Continue(k, s, l, next_jt_idx)
              \/ C = 1 /\ Continue(k, s, l, U16(next_jt_idx + 1))
        BY <1>9 DEF GoesOn
      <3>2. CASE C = 0 /\ Continue(k, s, l, next_jt_idx)
        BY <1>3, <3>2
      <3>3. CASE C = 1 /\ Continue(k, s, l, U16(next_jt_idx + 1))
        <4>1. next_jt_idx + 1 = n + 1 /\ U16(n + 1) = n + 1
          BY <1>5, <1>6, <1>7, <3>3
        <4> QED BY <1>5, <3>3, <4>1
      <3> QED BY <3>1, <3>2, <3>3
    <2>4. CASE Len(s) > stack_size_max
      BY <2>3, <2>4 DEF Continue, Stop
    <2>5. CASE ~(Len(s) > stack_size_max)
      <3>1. pc' = NextAt(k) /\ next_jt_idx' = i /\ status' = status
        BY <2>3, <2>5 DEF Continue
      <3>2. \/ n + C < J /\ next_jt_idx' = n + C
            \/ n + C = J /\ next_jt_idx' \in {J, JUMP_TABLE_IDX_INVALID}
        <4>1. CASE C = 0 /\ i = next_jt_idx
          BY <1>4, <1>5, <3>1, <4>1 DEF CursorAt
        <4>2. CASE C = 1 /\ i = n + 1
          BY <1>5, <3>1, <4>2
        <4> QED BY <2>3, <4>1, <4>2
      <3> HIDE DEF n, C
      <3>3. CursorAt(k + 1)'
        BY <1>2, <2>2, <3>2 DEF CursorAt, JUMP_TABLE_IDX_INVALID
      <3> QED BY <1>3, <2>1, <2>2, <3>1, <3>3
    <2> QED BY <2>4, <2>5
  <1>10. CASE Jumps(k)
    <2>1. PICK i \in Nat, s \in Seq(Values), move \in BOOLEAN :
            i < C /\ Jump(U16(next_jt_idx + i), SlotAddr(k), s, move)
      BY <1>10 DEF Jumps
    <2> DEFINE j == n + i
    <2>2. U16(next_jt_idx + i) = j /\ j \in Nat /\ j < J /\ j + 1 \in (n + 1)..(n + C)
      <3>1. next_jt_idx = n
        BY <1>5, <1>6, <2>1
      <3>2. j \in Nat /\ j < J /\ j <= J /\ j + 1 \in (n + 1)..(n + C)
        BY <1>5, <2>1, SMTT(30)
      <3> QED BY <1>7, <3>1, <3>2
    <2>3. SlotOk(j, SlotAddr(k))
      BY <1>5, <2>2 DEF SlotOk
    <2> HIDE DEF j
    <2>4. Jump(j, SlotAddr(k), s, move)
      BY <2>1, <2>2
    <2>5. \/ Stop("bad_stack")
          \/ /\ j + 1 \in 1..J
             /\ pc' = Target(jt[j + 1]) /\ next_jt_idx' = jt[j + 1].next_idx
             /\ status' = status
             /\ next_jt_idx' \in 0..U16_MAX
      BY <2>2, <2>3, <2>4, JumpType
    <2>6. CASE Stop("bad_stack")
      BY <2>6 DEF Stop
    <2>7. CASE /\ j + 1 \in 1..J
               /\ pc' = Target(jt[j + 1]) /\ next_jt_idx' = jt[j + 1].next_idx
               /\ status' = status
               /\ next_jt_idx' \in 0..U16_MAX
      <3>1. /\ \E m \in 1..Len(code) : code[m].at = Target(jt[j + 1])
            /\ jt[j + 1].next_idx = FirstSlotAfter(Target(jt[j + 1]))
        BY <1>3, <2>7 DEF VInv, JumpTable, JumpTableLinked
      <3>2. PICK m \in 1..Len(code) : code[m].at = Target(jt[j + 1])
        BY <3>1
      <3>3. next_jt_idx' = FirstSlotAfter(code[m].at) /\ next_jt_idx' \in Nat
        BY <1>5, <2>7, <3>1, <3>2
      <3>4. \/ code[m].slot < Len(jt) /\ next_jt_idx' = code[m].slot
            \/ code[m].slot = Len(jt) /\ next_jt_idx' = JUMP_TABLE_IDX_INVALID
        BY <3>3, CursorAfterJump
      <3>5. CursorAt(m)'
        BY <1>2, <3>4 DEF CursorAt, JUMP_TABLE_IDX_INVALID
      <3> QED BY <1>3, <2>7, <3>2, <3>5
    <2> QED BY <2>5, <2>6, <2>7
  <1>11. CASE Returns
    BY <1>11 DEF Returns, Return
  <1> QED BY <1>1, <1>8, <1>9, <1>10, <1>11 DEF RunShape

\* The entry puts pc and the cursor at the first instruction and its slots.
LEMMA StartCursor ==
  ASSUME VInv, Start
  PROVE  CursorSafe'
  <1>1. /\ phase = "ready" /\ status' = "running" /\ pc' = 0 /\ next_jt_idx' = 0
        /\ code' = code /\ jt' = jt
    BY DEF Start, vars
  <1>2. code # << >> /\ code \in Seq(Decoded) /\ jt \in Seq(Slots)
    BY <1>1 DEF VInv, CodeInv, EndDecoded, TInv, TypeOK
  <1>3. 1 \in 1..Len(code) /\ code[1].at = 0 /\ code[1].slot = 0
    BY <1>2 DEF VInv, Layout, SlotLayout
  <1>4. CursorAt(1)'
    BY <1>1, <1>2, <1>3 DEF CursorAt
  <1> QED BY <1>1, <1>3, <1>4 DEF CursorSafe

----------------------------------------------------------------------------
RunInv == VInv /\ Activated /\ CursorSafe

\* Before validation nothing is activated.
LEMMA InitRun ==
  ASSUME RunInit
  PROVE  RunInv
  BY InitVInv, WidthAssumption
     DEF RunInit, RunInv, Activated, RunTypeOK, Statuses, CursorSafe

\* Every step, of the validator or of the activation, keeps the invariant.
LEMMA NextRun ==
  ASSUME RunInv, [RunNext]_allvars
  PROVE  RunInv'
  <1>1. VInv /\ Activated /\ CursorSafe
    BY DEF RunInv
  <1>2. CASE Validate
    <2>1. Next /\ UNCHANGED runvars /\ status = "idle"
      BY <1>1, <1>2, ValidateIdle DEF Validate
    <2>2. VInv'
      BY <1>1, <2>1, NextVInv
    <2> QED BY <1>1, <2>1, <2>2 DEF RunInv, runvars, Activated, RunTypeOK, CursorSafe
  <1>3. ASSUME UNCHANGED vars
        PROVE  VInv'
    BY <1>1, <1>3, NextVInv
  <1>4. CASE Start
    <2>1. UNCHANGED vars
      BY <1>4 DEF Start
    <2> QED BY <1>1, <1>3, <1>4, <2>1, StartActivated, StartCursor DEF RunInv
  <1>5. CASE \E k \in 1..Len(code) : RunStep(k)
    <2>1. PICK k \in 1..Len(code) : RunStep(k)
      BY <1>5
    <2>2. UNCHANGED vars
      BY <1>1, <2>1, RunsShape
    <2> QED BY <1>1, <1>3, <2>1, <2>2, RunActivated, RunCursor DEF RunInv
  <1>6. CASE BadFetch
    <2>1. /\ status = "running" /\ \A k \in 1..Len(code) : pc # code[k].at
          /\ Stop("bad_pc") /\ UNCHANGED vars
      BY <1>6 DEF BadFetch
    <2>2. ~(Closed /\ Numbered)
      BY <1>1, <2>1 DEF CursorSafe
    <2>3. CursorSafe'
      BY <2>1, <2>2 DEF CursorSafe, vars, Closed, Numbered
    <2>4. Activated'
      BY <1>1, <2>1 DEF Activated, RunTypeOK, Stop, vars, LocalTypes, Statuses
    <2> QED BY <1>3, <2>1, <2>3, <2>4 DEF RunInv
  <1>7. CASE UNCHANGED allvars
    <2>1. UNCHANGED vars /\ UNCHANGED runvars
      BY <1>7 DEF allvars
    <2>2. CursorSafe' /\ Activated'
      BY <1>1, <2>1 DEF Activated, RunTypeOK, vars, runvars, LocalTypes, CursorSafe,
         CursorAt, Closed, Numbered, JUMP_TABLE_IDX_INVALID
    <2> QED BY <1>3, <2>1, <2>2 DEF RunInv
  <1> QED BY <1>2, <1>4, <1>5, <1>6, <1>7 DEF RunNext, Execute, Finished

\* The invariants of the validator and of the activation together.
LEMMA RunInvariant == RunSpec => []RunInv
  <1>1. RunInit => RunInv
    BY InitRun
  <1>2. RunInv /\ [RunNext]_allvars => RunInv'
    BY NextRun
  <1> QED BY <1>1, <1>2, PTL DEF RunSpec

(***************************************************************************)
(* Type correctness of the activation, for every function that             *)
(* validate_func accepts, malformed ones included: pc never becomes        *)
(* negative, and what is moved between stack and locals are values.        *)
(***************************************************************************)
THEOREM RunTyped == RunSpec => []RunTypeOK
  <1>1. RunInv => RunTypeOK
    BY DEF RunInv, Activated
  <1> QED BY <1>1, RunInvariant, PTL

(***************************************************************************)
(* In every function that is accepted whole, whatever its branches do, the *)
(* interpreter is at an instruction with next_jt_idx at that instruction's *)
(* slots, and its assertions on the slot hold: it needs neither labels nor *)
(* a search of the jump table.                                             *)
(***************************************************************************)
THEOREM CursorKept == RunSpec => []CursorSafe
  <1>1. RunInv => CursorSafe
    BY DEF RunInv
  <1> QED BY <1>1, RunInvariant, PTL

----------------------------------------------------------------------------
(***************************************************************************)
(* Validating a function again.  Appending the table to itself gives no    *)
(* slot of the first half another slot to go on with: a slot of the second *)
(* half that lies behind a forward target has its like in the first.       *)
(***************************************************************************)
LEMMA UnlinkedType ==
  ASSUME NEW t \in Seq(Slots)
  PROVE  /\ Unlinked(t) \in Seq(Slots) /\ Len(Unlinked(t)) = Len(t)
         /\ \A i \in 1..Len(t) : Unlinked(t)[i].pc = t[i].pc
  <1> DEFINE e(i) == [t[i] EXCEPT !.next_idx = JUMP_TABLE_IDX_INVALID]
  <1>1. DOMAIN t = 1..Len(t) /\ Len(t) \in Nat /\ \A i \in 1..Len(t) : t[i] \in Slots
    OBVIOUS
  <1>2. JUMP_TABLE_IDX_INVALID \in 0..U16_MAX
    BY WidthAssumption DEF JUMP_TABLE_IDX_INVALID
  <1>3. \A i \in 1..Len(t) : e(i) \in Slots /\ e(i).pc = t[i].pc
    BY <1>1, <1>2, LinkUpdate
  <1>4. Unlinked(t) = [i \in 1..Len(t) |-> e(i)]
    BY <1>1, Zenon DEF Unlinked
  <1> HIDE DEF e
  <1>5. /\ Unlinked(t) \in [1..Len(t) -> Slots]
        /\ \A i \in 1..Len(t) : Unlinked(t)[i] = e(i)
    BY <1>3, <1>4, Zenon
  <1>6. Unlinked(t) \in Seq(Slots) /\ Len(Unlinked(t)) = Len(t)
    BY <1>1, <1>5
  <1> QED BY <1>3, <1>5, <1>6

\* What a slot of the first half goes on with.
LEMMA FirstHalf ==
  ASSUME NEW t \in Seq(Slots), NEW u \in Seq(Slots), Len(u) = Len(t) + Len(t),
         \A j \in 1..Len(t) : u[j] = t[j] /\ u[j + Len(t)].pc = t[j].pc,
         \A r, s \in 1..Len(t) : r <= s => t[r].pc <= t[s].pc,
         NEW i \in 1..Len(t)
  PROVE  /\ NextSlots(t, i) = {} <=> NextSlots(u, i) = {}
         /\ NextSlots(t, i) # {} => Min(NextSlots(u, i)) = Min(NextSlots(t, i))
  <1> DEFINE n == Len(t)
             a == Target(t[i])
  <1>1. /\ n \in Nat /\ i \in 1..n /\ Len(u) = n + n
        /\ \A j \in 1..n : t[j].pc \in Nat /\ t[j].target_offset \in Int
    <2>1. /\ \A j \in 1..n : t[j] \in Slots
          /\ n \in Nat /\ i \in 1..n /\ Len(u) = n + n
      OBVIOUS
    <2>2. \A s \in Slots : s.pc \in Nat /\ s.target_offset \in Int
      BY DEF Slots
    <2> QED BY <2>1, <2>2
  <1>2. /\ u[i] = t[i] /\ Target(u[i]) = a
        /\ \A j \in 1..n : u[j].pc = t[j].pc /\ u[j + n].pc = t[j].pc
    OBVIOUS
  <1> HIDE DEF n, a
  <1>3. CASE ~(t[i].target_offset > 0)
    <2>1. SlotsBehind(u, i) = SlotsBehind(t, i)
      <3>1. \A j \in 1..i : \A k \in j..i : k \in 1..n
        BY <1>1
      <3> QED BY <1>2, <3>1 DEF SlotsBehind, a
    <2> QED BY <1>2, <1>3, <2>1 DEF NextSlots
  <1>4. CASE t[i].target_offset > 0
    <2> DEFINE S == NextSlots(t, i)
               U == NextSlots(u, i)
    <2>1. /\ S = {j \in (i + 1)..n : t[j].pc > a}
          /\ U = {j \in (i + 1)..(n + n) : u[j].pc > a}
      BY <1>1, <1>2, <1>4 DEF NextSlots, SlotsAhead, n, a
    <2>2. a > t[i].pc /\ a \in Int
      BY <1>1, <1>4 DEF a, Target
    <2> HIDE DEF S, U
    <2>3. S \subseteq U
      BY <1>1, <1>2, <2>1
    <2>4. ASSUME NEW j \in U, j > n
          PROVE  S # {}
      <3>1. j - n \in 1..n /\ (j - n) + n = j
        BY <1>1, <2>1, <2>4
      <3>2. t[j - n].pc > a
        BY <1>2, <2>1, <2>4, <3>1
      <3>3. ~(j - n <= i)
        <4>1. t[j - n].pc \in Nat /\ t[i].pc \in Nat
          BY <1>1, <3>1
        <4>2. j - n <= i => t[j - n].pc <= t[i].pc
          BY <1>1, <3>1 DEF n
        <4> QED BY <2>2, <3>2, <4>1, <4>2
      <3>4. j - n \in S
        BY <1>1, <2>1, <3>1, <3>2, <3>3
      <3> QED BY <3>4
    <2>5. \A j \in U : j \in S \/ j > n
      BY <1>1, <1>2, <2>1
    <2>6. S = {} <=> U = {}
      BY <2>3, <2>4, <2>5
    <2>7. ASSUME S # {}
          PROVE  Min(U) = Min(S)
      <3>1. S \in SUBSET Nat /\ U \in SUBSET Nat /\ \A j \in S : j <= n
        BY <1>1, <2>1
      <3>2. Min(S) \in S /\ \A y \in S : Min(S) <= y
        BY <2>7, <3>1, MinIs
      <3>3. \A y \in U : Min(S) <= y
        <4>1. Min(S) \in Nat /\ Min(S) <= n
          BY <3>1, <3>2
        <4> QED BY <1>1, <2>5, <3>1, <3>2, <4>1
      <3> QED BY <2>3, <3>1, <3>2, <3>3, MinEq
    <2> QED BY <2>6, <2>7 DEF S, U
  <1> QED BY <1>3, <1>4

\* So a linked table is left as it was.
LEMMA RelinkSame ==
  ASSUME NEW t \in Seq(Slots),
         \A r, s \in 1..Len(t) : r <= s => t[r].pc <= t[s].pc,
         \A s \in 1..Len(t) :
           NextSlots(t, s) # {} => t[s].next_idx = U16(Min(NextSlots(t, s)) - 1)
  PROVE  SubSeq(Relink(t), 1, Len(t)) = t
  <1> DEFINE n == Len(t)
             u == t \o Unlinked(t)
             e(i) == IF NextSlots(u, i) = {}
                       THEN u[i] ELSE [u[i] EXCEPT !.next_idx = U16(Min(NextSlots(u, i)) - 1)]
  <1>1. /\ Unlinked(t) \in Seq(Slots) /\ Len(Unlinked(t)) = n /\ n \in Nat
        /\ \A i \in 1..n : Unlinked(t)[i].pc = t[i].pc
    BY UnlinkedType
  <1>2. /\ u \in Seq(Slots) /\ Len(u) = n + n
        /\ \A j \in 1..n : u[j] = t[j] /\ u[j + n].pc = t[j].pc
    <2> DEFINE w == Unlinked(t)
    <2> HIDE DEF w
    <2>1. w \in Seq(Slots) /\ Len(w) = n /\ \A i \in 1..n : w[i].pc = t[i].pc
      BY <1>1 DEF w
    <2>2. t \o w \in Seq(Slots) /\ Len(t \o w) = n + n
      BY <2>1
    <2>3. \A j \in 1..n : (t \o w)[j] = t[j] /\ (t \o w)[j + n] = w[j]
      BY <1>1, <2>1
    <2> QED BY <2>1, <2>2, <2>3 DEF w
  <1>3. ASSUME NEW i \in 1..n
        PROVE  e(i) = t[i]
    <2>1. /\ NextSlots(t, i) = {} <=> NextSlots(u, i) = {}
          /\ NextSlots(t, i) # {} => Min(NextSlots(u, i)) = Min(NextSlots(t, i))
      <3> HIDE DEF u
      <3> QED BY <1>2, FirstHalf
    <2>2. NextSlots(u, i) # {} => U16(Min(NextSlots(u, i)) - 1) = t[i].next_idx
      BY <2>1
    <2>3. u[i] = t[i] /\ t[i] \in Slots
      BY <1>2
    <2>4. [t[i] EXCEPT !.next_idx = t[i].next_idx] = t[i]
      BY <2>3 DEF Slots
    <2> HIDE DEF u
    <2> QED BY <2>2, <2>3, <2>4
  <1>4. Link(u) = [i \in 1..Len(u) |-> e(i)]
    <2>1. DOMAIN u = 1..Len(u)
      BY <1>2
    <2> HIDE DEF u
    <2> QED BY <2>1, Zenon DEF Link
  <1>5. Link(u) \in Seq(Slots) /\ Len(Link(u)) = n + n
    BY <1>2, Linked
  <1>6. \A i \in 1..n : Link(u)[i] = t[i]
    <2>1. \A i \in 1..n : i \in 1..Len(u)
      BY <1>1, <1>2
    <2> HIDE DEF u, e
    <2> QED BY <1>3, <1>4, <2>1
  <1>7. /\ SubSeq(Link(u), 1, n) \in Seq(Slots) /\ Len(SubSeq(Link(u), 1, n)) = n
        /\ \A i \in 1..n : SubSeq(Link(u), 1, n)[i] = Link(u)[i]
    <2>1. n \in 0..Len(Link(u))
      BY <1>1, <1>5
    <2> HIDE DEF u
    <2> QED BY <1>5, <2>1, Lower
  <1>8. SubSeq(Link(u), 1, n) = t
    <2> HIDE DEF u
    <2> QED BY <1>6, <1>7, SeqEqual
  <1> QED BY <1>8 DEF Relink

(***************************************************************************)
(* A function that a second virtual machine validates again keeps the jump *)
(* table that the first one's activations run on.                          *)
(***************************************************************************)
THEOREM RelinkKept == RunSpec => []RelinkBenign
  <1>1. RunInv => RelinkBenign
    <2> SUFFICES ASSUME RunInv, phase = "ready"
                 PROVE  SubSeq(Relink(jt), 1, Len(jt)) = jt
      BY DEF RelinkBenign
    <2>1. jt \in Seq(Slots) /\ SelfLinked /\ Ordered
      BY DEF RunInv, VInv, TInv, TypeOK, CodeInv, Layout
    <2> QED BY <2>1, RelinkSame DEF SelfLinked, Ordered
  <1> QED BY <1>1, RunInvariant, PTL
=============================================================================
