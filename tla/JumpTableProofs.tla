--------------------------- MODULE JumpTableProofs ---------------------------
(***************************************************************************)
(* The targets and the links of the jump table, for every function: while  *)
(* the function is decoded each slot is pending on a frame or points at an *)
(* instruction, and once it is accepted each slot leads to an instruction  *)
(* and names the first slot behind it.                                     *)
(*                                                                         *)
(* The invariant is Targets.  What a callback does to the frames and the   *)
(* table is one of four: Kept (the frames stay), Pushed (block, loop, if), *)
(* Swapped (else) and Popped (end); each of them keeps Targets.            *)
(***************************************************************************)
EXTENDS ValidatorProofs

----------------------------------------------------------------------------
Untrailed == "trailing" \notin skipped

Pending(p) == ctrl_stack[p].pending_jt_slots

\* The function's own block is the outermost one.
FuncOutermost ==
  /\ \A p \in 1..Len(ctrl_stack) : ctrl_stack[p].type = "func" => p = 1
  /\ ctrl_stack # << >> /\ Untrailed => ctrl_stack[1].type = "func"

\* A slot that is pending on a loop lies behind the loop's start.
LoopsBehind ==
  \A p \in 1..Len(ctrl_stack), s \in 1..Len(jt) :
    ctrl_stack[p].type = "loop" /\ s - 1 \in Pending(p)
      => ctrl_stack[p].pc < jt[s].pc

\* Only a jump to the end of the function may have no distance to go, and
\* on_decode_end takes that for a backward jump.
Moving ==
  Untrailed /\ ctrl_stack # << >> =>
    \A s \in 1..Len(jt) : Waiting(s) \/ Target(jt[s]) # jt[s].pc

\* Once the function's own block has ended, every slot has its target.
Complete ==
  Untrailed /\ ctrl_stack = << >> =>
    \A s \in 1..Len(jt) :
      /\ \E k \in 1..Len(code) : code[k].at = Target(jt[s])
      /\ Target(jt[s]) = jt[s].pc =>
           \A r \in 1..Len(jt) : jt[r].pc <= Target(jt[s])

Targets ==
  /\ TargetsOnBoundary
  /\ phase = "decode" => FuncOutermost /\ LoopsBehind /\ Moving /\ Complete

----------------------------------------------------------------------------
\* The boundaries so far are the addresses up to offset; decoding adds the end
\* of the new instruction.
LEMMA BoundaryGrows ==
  ASSUME TInv, Ordered, NEW ins \in Instrs, Decode(ins)
  PROVE  /\ Boundary \subseteq Boundary' /\ offset' \in Boundary' /\ offset \in Boundary
         /\ \A b \in Boundary : /\ b \in Nat /\ b <= offset
                                /\ \E k \in 1..Len(code') : code'[k].at = b
  <1>1. /\ Len(code') = Len(code) + 1 /\ Len(code) \in Nat
        /\ \A k \in 1..Len(code) : code'[k] = code[k]
        /\ code'[Len(code) + 1].at = offset
    BY Grown
  <1>2. \A k \in 1..Len(code) : code[k].at \in Nat /\ code[k].at <= offset
    BY CodeTypes DEF Ordered, TInv, TypeOK
  <1>3. offset \in Nat
    BY DEF TInv, TypeOK
  <1>4. ASSUME NEW b \in Boundary
        PROVE  /\ b \in Nat /\ b <= offset
               /\ \E k \in 1..Len(code') : code'[k].at = b
    <2>1. CASE b = offset
      BY <1>1, <1>3, <2>1
    <2>2. CASE \E k \in 1..Len(code) : b = code[k].at
      BY <1>1, <1>2, <2>2
    <2> QED BY <2>1, <2>2 DEF Boundary
  <1>5. Boundary \subseteq Boundary'
    BY <1>4 DEF Boundary
  <1> QED BY <1>4, <1>5 DEF Boundary

\* The checks that are recorded as left out stay recorded, and code after the
\* function's own end is recorded.
LEMMA SkippedGrows ==
  ASSUME NEW ins, Step(ins)
  PROVE  /\ skipped \subseteq skipped'
         /\ ctrl_stack = << >> => "trailing" \in skipped'
  <1>1. PICK checks : Skip(checks)
    BY DEF Step, on_unreachable, on_nop, on_block, on_else, on_end,
           on_br_or_if, on_br_table, on_return, on_call, on_data
  <1> QED BY <1>1 DEF Skip

----------------------------------------------------------------------------
(***************************************************************************)
(* Every callback but those of else and end: the frames stay, and there    *)
(* may be a new one; the new slots are pending, the old ones as they were. *)
(***************************************************************************)
NewWait == \A s \in (Len(jt) + 1)..Len(jt') : Waiting(s)'

SameSlots == \A s \in 1..Len(jt) : jt'[s] = jt[s]

Kept ==
  /\ Len(ctrl_stack) <= Len(ctrl_stack')
  /\ \A p \in 1..Len(ctrl_stack) :
       /\ ctrl_stack'[p].type = ctrl_stack[p].type
       /\ ctrl_stack'[p].pc = ctrl_stack[p].pc
       /\ Pending(p) \subseteq Pending(p)'
       /\ \A i \in Pending(p)' : i \in Pending(p) \/ i >= Len(jt)
  /\ \A p \in (Len(ctrl_stack) + 1)..Len(ctrl_stack') :
       /\ ctrl_stack'[p].type # "func"
       /\ ctrl_stack'[p].type = "loop" =>
            ctrl_stack'[p].pc = offset' /\ Pending(p)' = {}
  /\ SameSlots /\ NewWait

\* A slot that is not new is as it was, and a new one lies behind offset.
LEMMA OldOrNew ==
  ASSUME TInv, Ordered, NEW ins \in Instrs, Decode(ins), StepShape(ins)
  PROVE  /\ Len(jt) \in Nat /\ Len(jt') \in Nat /\ Len(jt) <= Len(jt')
         /\ \A s \in 1..Len(jt') : s \in 1..Len(jt) \/ s \in (Len(jt) + 1)..Len(jt')
         /\ \A s \in (Len(jt) + 1)..Len(jt') : /\ jt'[s].pc \in Nat
                                               /\ offset < jt'[s].pc
         /\ \A s \in 1..Len(jt) : /\ jt[s].pc \in Nat /\ jt[s].pc <= offset
                                  /\ jt[s].target_offset \in Int
                                  /\ jt'[s].pc = jt[s].pc
  <1>1. /\ Len(jt) \in Nat /\ SlotCount(ins) \in Nat
        /\ Len(jt') = Len(jt) + SlotCount(ins)
    BY Sizes DEF TInv, TypeOK, StepShape
  <1>2. Addr(ins) \in Nat /\ offset < Addr(ins)
    BY AddrBounds
  <1>3. \A s \in 1..Len(jt) : /\ jt[s].pc \in Nat /\ jt[s].pc <= offset
                              /\ jt[s].target_offset \in Int
    BY SlotTypes DEF Ordered
  <1> QED BY <1>1, <1>2, <1>3 DEF StepShape

\* Such a callback keeps Targets.
LEMMA KeptTargets ==
  ASSUME TInv, Ordered, Targets, NEW ins \in Instrs, Decode(ins), StepShape(ins),
         Kept, skipped \subseteq skipped', ctrl_stack = << >> => "trailing" \in skipped'
  PROVE  Targets'
  <1> DEFINE n == Len(ctrl_stack)
             m == Len(ctrl_stack')
  <1>1. phase = "decode" /\ phase' = "decode"
    BY DEF Decode
  <1>2. /\ n \in Nat /\ m \in Nat /\ n <= m
        /\ ctrl_stack = << >> <=> n = 0
        /\ ctrl_stack' = << >> <=> m = 0
        /\ \A p \in 1..m : p \in 1..n \/ p \in (n + 1)..m
    <2>1. ctrl_stack \in Seq(Frames) /\ ctrl_stack' \in Seq(Frames)
      BY DEF TInv, TypeOK, StepShape
    <2>2. n <= m
      BY DEF Kept
    <2> QED BY <2>1, <2>2
  <1>3. \A s \in 1..Len(jt) : Waiting(s) => Waiting(s)'
    BY <1>2 DEF Kept, Waiting, Pending
  <1>4. Boundary \subseteq Boundary' /\ offset' \in Boundary'
    BY BoundaryGrows
  <1>5. /\ Len(jt) \in Nat /\ Len(jt') \in Nat /\ Len(jt) <= Len(jt')
        /\ \A s \in 1..Len(jt') : s \in 1..Len(jt) \/ s \in (Len(jt) + 1)..Len(jt')
        /\ \A s \in (Len(jt) + 1)..Len(jt') : jt'[s].pc \in Nat /\ offset < jt'[s].pc
        /\ \A s \in 1..Len(jt) : jt[s].pc \in Nat /\ jt[s].pc <= offset
    BY OldOrNew
  <1>6. /\ \A s \in 1..Len(jt) : jt'[s] = jt[s]
        /\ \A s \in (Len(jt) + 1)..Len(jt') : Waiting(s)'
    BY DEF Kept, SameSlots, NewWait
  <1>7. TargetsOnBoundary'
    <2>1. ASSUME NEW s \in 1..Len(jt')
          PROVE  Waiting(s)' \/ Target(jt'[s]) \in Boundary'
      <3>1. CASE s \in 1..Len(jt)
        <4>1. Waiting(s) \/ Target(jt[s]) \in Boundary
          BY <1>1, <3>1 DEF Targets, TargetsOnBoundary
        <4> QED BY <1>3, <1>4, <1>6, <3>1, <4>1
      <3>2. CASE s \in (Len(jt) + 1)..Len(jt')
        BY <1>6, <3>2
      <3> QED BY <1>5, <3>1, <3>2
    <2>2. ASSUME NEW p \in 1..m, ctrl_stack'[p].type = "loop"
          PROVE  ctrl_stack'[p].pc \in Boundary'
      <3>1. CASE p \in 1..n
        BY <1>1, <1>4, <2>2, <3>1 DEF Kept, Targets, TargetsOnBoundary
      <3>2. CASE p \in (n + 1)..m
        BY <1>4, <2>2, <3>2 DEF Kept
      <3> QED BY <1>2, <3>1, <3>2
    <2> QED BY <2>1, <2>2 DEF TargetsOnBoundary
  <1>8. FuncOutermost'
    <2>1. FuncOutermost
      BY <1>1 DEF Targets
    <2>2. Untrailed' => Untrailed /\ n # 0
      BY <1>2 DEF Untrailed
    <2>3. /\ \A p \in 1..n : ctrl_stack'[p].type = ctrl_stack[p].type
          /\ \A p \in (n + 1)..m : ctrl_stack'[p].type # "func"
      BY DEF Kept
    <2>4. n # 0 => 1 \in 1..n
      BY <1>2
    <2> QED BY <1>2, <2>1, <2>2, <2>3, <2>4 DEF FuncOutermost
  <1>9. LoopsBehind'
    <2> SUFFICES ASSUME NEW p \in 1..m, NEW s \in 1..Len(jt'),
                        ctrl_stack'[p].type = "loop", s - 1 \in Pending(p)'
                 PROVE  ctrl_stack'[p].pc < jt'[s].pc
      BY DEF LoopsBehind
    <2>1. p \in 1..n
      BY <1>2 DEF Kept
    <2>2. /\ ctrl_stack[p].type = "loop" /\ ctrl_stack'[p].pc = ctrl_stack[p].pc
          /\ s - 1 \in Pending(p) \/ s - 1 >= Len(jt)
      BY <2>1 DEF Kept
    <2>3. ctrl_stack[p].pc \in Nat /\ ctrl_stack[p].pc <= offset /\ offset \in Nat
      <3>1. ctrl_stack[p].pc \in Boundary
        BY <1>1, <2>1, <2>2 DEF Targets, TargetsOnBoundary
      <3> QED BY <3>1, BoundaryGrows DEF TInv, TypeOK
    <2>4. CASE s \in 1..Len(jt)
      <3>1. s - 1 \in Pending(p)
        BY <1>5, <2>2, <2>4
      <3> QED BY <1>1, <1>6, <2>1, <2>2, <2>4, <3>1 DEF Targets, LoopsBehind
    <2>5. CASE s \in (Len(jt) + 1)..Len(jt')
      BY <1>5, <2>2, <2>3, <2>5
    <2> QED BY <1>5, <2>4, <2>5
  <1>10. Moving'
    <2>1. Moving
      BY <1>1 DEF Targets
    <2> QED BY <1>2, <1>3, <1>5, <1>6, <2>1 DEF Moving, Untrailed
  <1>11. Complete'
    BY <1>2 DEF Complete, Untrailed
  <1> QED BY <1>7, <1>8, <1>9, <1>10, <1>11 DEF Targets

----------------------------------------------------------------------------
(***************************************************************************)
(* else: the slot of the if gets its target, the others stay pending.      *)
(***************************************************************************)
Swapped ==
  LET n == Len(ctrl_stack)
  IN  /\ n > 0 /\ Len(ctrl_stack') = n
      /\ \A p \in 1..(n - 1) : ctrl_stack'[p] = ctrl_stack[p]
      /\ ctrl_stack[n].type = "if" /\ ctrl_stack'[n].type = "else"
      /\ \A s \in 1..Len(jt) :
           \/ jt'[s] = jt[s] /\ (s - 1 \in Pending(n) => s - 1 \in ctrl_stack'[n].pending_jt_slots)
           \/ Target(jt'[s]) = offset'
      /\ NewWait

\* So else keeps Targets.
LEMMA SwappedTargets ==
  ASSUME TInv, Ordered, Targets, NEW ins \in Instrs, Decode(ins), StepShape(ins),
         Swapped, skipped \subseteq skipped'
  PROVE  Targets'
  <1> DEFINE n == Len(ctrl_stack)
  <1>1. phase = "decode" /\ phase' = "decode"
    BY DEF Decode
  <1>2. /\ n \in Nat /\ n > 0 /\ Len(ctrl_stack') = n
        /\ ctrl_stack # << >> /\ ctrl_stack' # << >>
        /\ \A p \in 1..n : p \in 1..(n - 1) \/ p = n
        /\ \A p \in 1..(n - 1) : p \in 1..n
    <2>1. ctrl_stack \in Seq(Frames) /\ ctrl_stack' \in Seq(Frames)
      BY DEF TInv, TypeOK, StepShape
    <2>2. n > 0 /\ Len(ctrl_stack') = n
      BY DEF Swapped
    <2> QED BY <2>1, <2>2
  <1>3. /\ Boundary \subseteq Boundary' /\ offset' \in Boundary'
        /\ offset \in Nat /\ offset' \in Nat /\ offset < offset'
    BY BoundaryGrows, DecodeType, Sizes DEF TInv, TypeOK
  <1>4. /\ \A s \in 1..Len(jt') : s \in 1..Len(jt) \/ s \in (Len(jt) + 1)..Len(jt')
        /\ \A s \in 1..Len(jt) : /\ jt[s].pc \in Nat /\ jt[s].pc <= offset
                                 /\ jt'[s].pc = jt[s].pc
    BY OldOrNew
  <1>5. /\ \A p \in 1..(n - 1) : ctrl_stack'[p] = ctrl_stack[p]
        /\ ctrl_stack[n].type = "if" /\ ctrl_stack'[n].type = "else"
        /\ \A s \in (Len(jt) + 1)..Len(jt') : Waiting(s)'
    BY DEF Swapped, NewWait
  <1>6. ASSUME NEW s \in 1..Len(jt)
        PROVE  \/ jt'[s] = jt[s] /\ (Waiting(s) => Waiting(s)')
               \/ Target(jt'[s]) = offset'
    <2>1. \/ jt'[s] = jt[s] /\ (s - 1 \in Pending(n) => s - 1 \in ctrl_stack'[n].pending_jt_slots)
          \/ Target(jt'[s]) = offset'
      BY DEF Swapped
    <2> QED BY <1>2, <1>5, <2>1 DEF Waiting, Pending
  <1>7. TargetsOnBoundary'
    <2>1. ASSUME NEW s \in 1..Len(jt')
          PROVE  Waiting(s)' \/ Target(jt'[s]) \in Boundary'
      <3>1. CASE s \in 1..Len(jt)
        <4>1. Waiting(s) \/ Target(jt[s]) \in Boundary
          BY <1>1, <3>1 DEF Targets, TargetsOnBoundary
        <4> QED BY <1>3, <1>6, <3>1, <4>1
      <3> QED BY <1>4, <1>5, <3>1
    <2>2. \A p \in 1..n : ctrl_stack'[p].type = "loop" => ctrl_stack'[p].pc \in Boundary'
      BY <1>1, <1>2, <1>3, <1>5 DEF Targets, TargetsOnBoundary
    <2> QED BY <1>2, <2>1, <2>2 DEF TargetsOnBoundary
  <1>8. FuncOutermost'
    <2>1. FuncOutermost
      BY <1>1 DEF Targets
    <2>2. Untrailed' => Untrailed
      BY DEF Untrailed
    <2>3. Untrailed => n # 1
      BY <1>2, <1>5, <2>1 DEF FuncOutermost
    <2>4. n # 1 => 1 \in 1..(n - 1)
      BY <1>2
    <2> QED BY <1>2, <1>5, <2>1, <2>2, <2>3, <2>4 DEF FuncOutermost
  <1>9. LoopsBehind'
    <2> SUFFICES ASSUME NEW p \in 1..n, NEW s \in 1..Len(jt'),
                        ctrl_stack'[p].type = "loop", s - 1 \in Pending(p)'
                 PROVE  ctrl_stack'[p].pc < jt'[s].pc
      BY <1>2 DEF LoopsBehind
    <2>1. p \in 1..(n - 1) /\ ctrl_stack'[p] = ctrl_stack[p] /\ s - 1 \in Pending(p)
      BY <1>2, <1>5 DEF Pending
    <2>2. CASE s \in 1..Len(jt)
      <3>1. ctrl_stack[p].pc < jt[s].pc
        BY <1>1, <2>1, <2>2 DEF Targets, LoopsBehind
      <3> QED BY <1>4, <2>1, <2>2, <3>1
    <2>3. CASE s \in (Len(jt) + 1)..Len(jt')
      <3>1. ctrl_stack[p].pc \in Boundary
        BY <1>1, <2>1 DEF Targets, TargetsOnBoundary
      <3>2. ctrl_stack[p].pc \in Nat /\ ctrl_stack[p].pc <= offset
        BY <3>1, BoundaryGrows
      <3>3. jt'[s].pc \in Nat /\ offset < jt'[s].pc
        BY <2>3, OldOrNew
      <3> QED BY <1>3, <2>1, <3>2, <3>3
    <2> QED BY <1>4, <2>2, <2>3
  <1>10. Moving'
    <2> SUFFICES ASSUME Untrailed', NEW s \in 1..Len(jt'), ~Waiting(s)'
                 PROVE  Target(jt'[s]) # jt'[s].pc
      BY DEF Moving
    <2>1. s \in 1..Len(jt)
      BY <1>4, <1>5
    <2>2. CASE jt'[s] = jt[s] /\ ~Waiting(s)
      BY <1>1, <1>2, <2>1, <2>2 DEF Targets, Moving, Untrailed
    <2>3. CASE Target(jt'[s]) = offset'
      BY <1>3, <1>4, <2>1, <2>3
    <2> QED BY <1>6, <2>1, <2>2, <2>3
  <1>11. Complete'
    BY <1>2 DEF Complete
  <1> QED BY <1>7, <1>8, <1>9, <1>10, <1>11 DEF Targets

----------------------------------------------------------------------------
(***************************************************************************)
(* end: the slots that are pending on the frame get its target.            *)
(***************************************************************************)
Popped ==
  LET n == Len(ctrl_stack)
  IN  /\ n > 0 /\ Len(ctrl_stack') = n - 1
      /\ \A p \in 1..(n - 1) : ctrl_stack'[p] = ctrl_stack[p]
      /\ Len(jt') = Len(jt)
      /\ \A s \in 1..Len(jt) :
           IF s - 1 \in Pending(n)
             THEN Target(jt'[s]) = CASE ctrl_stack[n].type = "loop" -> ctrl_stack[n].pc
                                     [] ctrl_stack[n].type = "func" -> offset
                                     [] OTHER -> offset'
             ELSE jt'[s] = jt[s]

\* So end keeps Targets.
LEMMA PoppedTargets ==
  ASSUME TInv, Ordered, Targets, NEW ins \in Instrs, Decode(ins), StepShape(ins),
         Popped, skipped \subseteq skipped'
  PROVE  Targets'
  <1> DEFINE n == Len(ctrl_stack)
  <1>1. phase = "decode" /\ phase' = "decode"
    BY DEF Decode
  <1>2. /\ n \in Nat /\ n > 0 /\ Len(ctrl_stack') = n - 1 /\ n \in 1..n
        /\ ctrl_stack # << >> /\ ctrl_stack' = << >> <=> n = 1
        /\ \A p \in 1..n : p \in 1..(n - 1) \/ p = n
        /\ \A p \in 1..(n - 1) : p \in 1..n
    <2>1. ctrl_stack \in Seq(Frames) /\ ctrl_stack' \in Seq(Frames)
      BY DEF TInv, TypeOK, StepShape
    <2>2. n > 0 /\ Len(ctrl_stack') = n - 1
      BY DEF Popped
    <2> QED BY <2>1, <2>2
  <1>3. /\ Boundary \subseteq Boundary' /\ offset' \in Boundary' /\ offset \in Boundary
        /\ offset \in Nat /\ offset' \in Nat /\ offset < offset'
    BY BoundaryGrows, DecodeType, Sizes DEF TInv, TypeOK
  <1>4. /\ Len(jt') = Len(jt)
        /\ \A s \in 1..Len(jt) : /\ jt[s].pc \in Nat /\ jt[s].pc <= offset
                                 /\ jt'[s].pc = jt[s].pc
    BY OldOrNew DEF Popped
  <1>5. \A p \in 1..(n - 1) : ctrl_stack'[p] = ctrl_stack[p]
    BY DEF Popped
  <1>6. ASSUME NEW s \in 1..Len(jt), s - 1 \notin Pending(n)
        PROVE  jt'[s] = jt[s] /\ (Waiting(s) => Waiting(s)')
    <2>1. jt'[s] = jt[s]
      BY <1>6 DEF Popped
    <2>2. Waiting(s) => Waiting(s)'
      BY <1>2, <1>5, <1>6 DEF Waiting, Pending
    <2> QED BY <2>1, <2>2
  <1>7. ctrl_stack[n].type = "loop" =>
          /\ ctrl_stack[n].pc \in Boundary
          /\ \A s \in 1..Len(jt) : s - 1 \in Pending(n) => ctrl_stack[n].pc < jt[s].pc
    BY <1>1, <1>2 DEF Targets, TargetsOnBoundary, LoopsBehind
  <1>8. FuncOutermost
    BY <1>1 DEF Targets
  <1>9. ASSUME NEW s \in 1..Len(jt), s - 1 \in Pending(n)
        PROVE  /\ Target(jt'[s]) \in Boundary'
               /\ ctrl_stack[n].type # "func" => Target(jt'[s]) # jt'[s].pc
               /\ ctrl_stack[n].type = "func" => Target(jt'[s]) = offset
    <2>1. Target(jt'[s]) = CASE ctrl_stack[n].type = "loop" -> ctrl_stack[n].pc
                             [] ctrl_stack[n].type = "func" -> offset
                             [] OTHER -> offset'
      BY <1>9 DEF Popped
    <2>2. CASE ctrl_stack[n].type = "loop"
      <3>1. /\ Target(jt'[s]) = ctrl_stack[n].pc /\ ctrl_stack[n].pc \in Boundary
            /\ ctrl_stack[n].pc < jt[s].pc
        BY <1>7, <1>9, <2>1, <2>2
      <3>2. ctrl_stack[n].pc \in Nat
        BY <3>1, BoundaryGrows
      <3> QED BY <1>3, <1>4, <2>2, <3>1, <3>2
    <2>3. CASE ctrl_stack[n].type = "func"
      BY <1>3, <2>1, <2>3
    <2>4. CASE ctrl_stack[n].type \notin {"loop", "func"}
      <3>1. Target(jt'[s]) = offset'
        BY <2>1, <2>4
      <3> QED BY <1>3, <1>4, <2>4, <3>1
    <2> QED BY <2>2, <2>3, <2>4
  <1>10. TargetsOnBoundary'
    <2>1. ASSUME NEW s \in 1..Len(jt')
          PROVE  Waiting(s)' \/ Target(jt'[s]) \in Boundary'
      <3>1. CASE s - 1 \in Pending(n)
        BY <1>4, <1>9, <3>1
      <3>2. CASE s - 1 \notin Pending(n)
        <4>1. Waiting(s) \/ Target(jt[s]) \in Boundary
          BY <1>1, <1>4 DEF Targets, TargetsOnBoundary
        <4> QED BY <1>3, <1>4, <1>6, <3>2, <4>1
      <3> QED BY <3>1, <3>2
    <2>2. \A p \in 1..(n - 1) :
            ctrl_stack'[p].type = "loop" => ctrl_stack'[p].pc \in Boundary'
      BY <1>1, <1>2, <1>3, <1>5 DEF Targets, TargetsOnBoundary
    <2> QED BY <1>2, <2>1, <2>2 DEF TargetsOnBoundary
  <1>11. FuncOutermost'
    <2>1. Untrailed' => Untrailed
      BY DEF Untrailed
    <2>2. n # 1 => 1 \in 1..(n - 1)
      BY <1>2
    <2> QED BY <1>2, <1>5, <1>8, <2>1, <2>2 DEF FuncOutermost
  <1>12. LoopsBehind'
    <2> SUFFICES ASSUME NEW p \in 1..(n - 1), NEW s \in 1..Len(jt),
                        ctrl_stack'[p].type = "loop", s - 1 \in Pending(p)'
                 PROVE  ctrl_stack'[p].pc < jt'[s].pc
      BY <1>2, <1>4 DEF LoopsBehind
    <2>1. p \in 1..n /\ ctrl_stack'[p] = ctrl_stack[p] /\ s - 1 \in Pending(p)
      BY <1>2, <1>5 DEF Pending
    <2>2. ctrl_stack[p].pc < jt[s].pc
      BY <1>1, <2>1 DEF Targets, LoopsBehind
    <2> QED BY <1>4, <2>1, <2>2
  <1>13. ASSUME Untrailed', NEW s \in 1..Len(jt), s - 1 \notin Pending(n), ~Waiting(s)
         PROVE  Target(jt'[s]) # jt'[s].pc
    BY <1>1, <1>2, <1>6, <1>13 DEF Targets, Moving, Untrailed
  <1>14. Moving'
    <2> SUFFICES ASSUME Untrailed', ctrl_stack' # << >>, NEW s \in 1..Len(jt),
                        ~Waiting(s)'
                 PROVE  Target(jt'[s]) # jt'[s].pc
      BY <1>4 DEF Moving
    <2>1. ctrl_stack[n].type # "func"
      BY <1>2, <1>8 DEF FuncOutermost
    <2>2. CASE s - 1 \in Pending(n)
      BY <1>9, <2>1, <2>2
    <2>3. CASE s - 1 \notin Pending(n)
      BY <1>6, <1>13, <2>3
    <2> QED BY <2>2, <2>3
  <1>15. Complete'
    <2> SUFFICES ASSUME Untrailed', ctrl_stack' = << >>, NEW s \in 1..Len(jt)
                 PROVE  /\ \E k \in 1..Len(code') : code'[k].at = Target(jt'[s])
                        /\ Target(jt'[s]) = jt'[s].pc =>
                             \A r \in 1..Len(jt) : jt'[r].pc <= Target(jt'[s])
      BY <1>4 DEF Complete
    <2>1. n = 1 /\ ctrl_stack[n].type = "func"
      BY <1>2, <1>8 DEF FuncOutermost, Untrailed
    <2>2. CASE s - 1 \in Pending(n)
      <3>1. Target(jt'[s]) = offset
        BY <1>9, <2>1, <2>2
      <3>2. \E k \in 1..Len(code') : code'[k].at = offset
        BY <1>3, BoundaryGrows
      <3> QED BY <1>4, <3>1, <3>2
    <2>3. CASE s - 1 \notin Pending(n)
      <3>1. ~Waiting(s)
        BY <1>2, <2>1, <2>3 DEF Waiting, Pending
      <3>2. Target(jt'[s]) # jt'[s].pc
        BY <1>13, <2>3, <3>1
      <3>3. Target(jt[s]) \in Boundary /\ jt'[s] = jt[s]
        BY <1>1, <1>6, <2>3, <3>1 DEF Targets, TargetsOnBoundary
      <3>4. \E k \in 1..Len(code') : code'[k].at = Target(jt'[s])
        BY <3>3, BoundaryGrows
      <3> QED BY <3>2, <3>4
    <2> QED BY <2>2, <2>3
  <1> QED BY <1>10, <1>11, <1>12, <1>14, <1>15 DEF Targets

----------------------------------------------------------------------------
\* A slot that was given the target a points at a.
LEMMA ResolvedTarget ==
  ASSUME NEW t \in Seq(Slots), NEW slots, NEW a \in Int, NEW i \in 1..Len(t)
  PROVE  IF i - 1 \in slots THEN Target(Resolve(t, slots, a)[i]) = a
                            ELSE Resolve(t, slots, a)[i] = t[i]
  <1>1. CASE i - 1 \in slots
    <2>1. /\ Resolve(t, slots, a)[i].pc = t[i].pc
          /\ Resolve(t, slots, a)[i].target_offset = a - t[i].pc
      BY <1>1, Resolved
    <2>2. t[i].pc \in Nat
      <3>1. t[i] \in Slots
        OBVIOUS
      <3> QED BY <3>1 DEF Slots
    <2> HIDE DEF Resolve
    <2> QED BY <1>1, <2>1, <2>2 DEF Target
  <1>2. CASE i - 1 \notin slots
    <2>1. DOMAIN t = 1..Len(t)
      OBVIOUS
    <2> QED BY <1>2, <2>1 DEF Resolve
  <1> QED BY <1>1, <1>2

\* unreachable, return, nop, call and the data instructions.
LEMMA PlainKept ==
  ASSUME TInv, NEW ins \in Instrs,
         \/ on_unreachable(ins) \/ on_return(ins)
         \/ on_nop(ins) \/ on_call(ins) \/ on_data(ins)
  PROVE  Kept
  <1>1. /\ jt' = jt /\ jt \in Seq(Slots) /\ ctrl_stack \in Seq(Frames)
        /\ Len(jt) \in Nat /\ Len(ctrl_stack) \in Nat
    BY DEF on_unreachable, on_return, on_nop, on_call, on_data, TInv, TypeOK
  <1>2. SameSlots /\ NewWait
    BY <1>1 DEF SameSlots, NewWait
  <1>3. CASE ctrl_stack' = ctrl_stack
    BY <1>1, <1>2, <1>3 DEF Kept, Pending
  <1>4. CASE ctrl_stack' = Unreachable(ctrl_stack) /\ ctrl_stack # << >>
    <2>1. /\ SameFrames(ctrl_stack, ctrl_stack')
          /\ \A p \in 1..Len(ctrl_stack) :
               ctrl_stack'[p].pending_jt_slots = ctrl_stack[p].pending_jt_slots
      BY <1>1, <1>4, UnreachableFrames
    <2> QED BY <1>1, <1>2, <2>1 DEF Kept, SameFrames, Pending
  <1>5. \/ ctrl_stack' = ctrl_stack
        \/ ctrl_stack' = Unreachable(ctrl_stack) /\ ctrl_stack # << >>
    BY DEF on_unreachable, on_return, on_nop, on_call, on_data, Decode, TouchesFrame
  <1> QED BY <1>3, <1>4, <1>5

\* block, loop and if.
LEMMA BlockKept ==
  ASSUME TInv, NEW ins \in Instrs, on_block(ins)
  PROVE  Kept
  <1> DEFINE n == Len(ctrl_stack)
             J == Len(jt)
             fr == NewFrame(ins.op, ins.type, Len(AfterOperands(ins)),
                            IF ins.op = "loop" THEN Imm + 1 ELSE 0)
             new == IF ins.op = "if"
                      THEN [fr EXCEPT !.pending_jt_slots = {J}] ELSE fr
  <1>1. /\ ins.op \in {"block", "loop", "if"} /\ Decode(ins)
        /\ ctrl_stack' = Append(ctrl_stack, new)
        /\ jt' = IF ins.op = "if" THEN Append(jt, NewSlot(Imm, 0, 0)) ELSE jt
    BY DEF on_block
  <1>2. /\ jt \in Seq(Slots) /\ ctrl_stack \in Seq(Frames)
        /\ J \in Nat /\ n \in Nat
    BY DEF TInv, TypeOK
  <1>3. /\ new.type = ins.op
        /\ ins.op = "loop" => new.pc = Imm + 1
        /\ new.pending_jt_slots = IF ins.op = "if" THEN {J} ELSE {}
    BY DEF NewFrame
  <1>4. ins.op = "loop" => offset' = Imm + 1
    BY <1>1 DEF Decode, Size, Imm, TInv, TypeOK
  <1> HIDE DEF new
  <1>5. /\ Len(ctrl_stack') = n + 1
        /\ \A p \in 1..n : ctrl_stack'[p] = ctrl_stack[p]
        /\ ctrl_stack'[n + 1] = new
    BY <1>1, <1>2
  <1>6. SameSlots
    BY <1>1, <1>2 DEF SameSlots
  <1>7. NewWait
    <2>1. CASE ins.op = "if"
      <3>1. Len(jt') = J + 1
        BY <1>1, <1>2, <2>1
      <3>2. J \in ctrl_stack'[n + 1].pending_jt_slots /\ n + 1 \in 1..Len(ctrl_stack')
        BY <1>2, <1>3, <1>5, <2>1
      <3>3. \A s \in (J + 1)..Len(jt') : s - 1 = J
        BY <1>2, <3>1
      <3> QED BY <3>2, <3>3 DEF NewWait, Waiting
    <2>2. CASE ins.op # "if"
      BY <1>1, <1>2, <2>2 DEF NewWait
    <2> QED BY <2>1, <2>2
  <1>8. \A p \in (n + 1)..Len(ctrl_stack') :
          /\ ctrl_stack'[p].type # "func"
          /\ ctrl_stack'[p].type = "loop" =>
               ctrl_stack'[p].pc = offset' /\ Pending(p)' = {}
    <2>1. \A p \in (n + 1)..Len(ctrl_stack') : p = n + 1
      BY <1>2, <1>5
    <2> QED BY <1>1, <1>3, <1>4, <1>5, <2>1 DEF Pending
  <1>9. Len(ctrl_stack) <= Len(ctrl_stack')
    BY <1>2, <1>5
  <1> QED BY <1>5, <1>6, <1>7, <1>8, <1>9 DEF Kept, Pending

\* br and br_if.
LEMMA BrKept ==
  ASSUME TInv, NEW ins \in Instrs, on_br_or_if(ins)
  PROVE  Kept
  <1> DEFINE q == LabelAt(ins.lth)
             J == Len(jt)
             cs == [ctrl_stack EXCEPT ![q].pending_jt_slots = @ \cup {J}]
  <1>1. /\ ins.op \in {"br", "br_if"} /\ Decode(ins)
        /\ ctrl_stack' = IF ins.op = "br" THEN Unreachable(cs) ELSE cs
        /\ \E new : jt' = Append(jt, new)
    BY DEF on_br_or_if
  <1>2. /\ jt \in Seq(Slots) /\ ctrl_stack \in Seq(Frames)
        /\ J \in Nat /\ Len(ctrl_stack) \in Nat
    BY DEF TInv, TypeOK
  <1>3. q \in 1..Len(ctrl_stack)
    <2>1. ins.lth \in Nat /\ ins.lth < Len(ctrl_stack)
      BY <1>1, DecodeType, InstrsAssumption DEF IndexOk
    <2> QED BY <2>1, LabelType
  <1>4. /\ SameFrames(ctrl_stack, cs)
        /\ \A p \in 1..Len(ctrl_stack) :
             /\ cs[p].pending_jt_slots =
                  IF p = q THEN ctrl_stack[p].pending_jt_slots \cup {J}
                           ELSE ctrl_stack[p].pending_jt_slots
             /\ cs[p].unreachable = ctrl_stack[p].unreachable
    BY <1>2, <1>3, PendingFrames
  <1> HIDE DEF cs
  <1>5. cs \in Seq(Frames) /\ cs # << >> /\ Len(cs) = Len(ctrl_stack)
    BY <1>2, <1>3, <1>4 DEF SameFrames
  <1>6. /\ SameFrames(cs, ctrl_stack')
        /\ \A p \in 1..Len(ctrl_stack) :
             ctrl_stack'[p].pending_jt_slots = cs[p].pending_jt_slots
    <2>1. CASE ins.op = "br"
      BY <1>1, <1>5, <2>1, UnreachableFrames
    <2>2. CASE ins.op # "br"
      BY <1>1, <1>5, <2>2 DEF SameFrames
    <2> QED BY <2>1, <2>2
  <1>7. SameSlots /\ Len(jt') = J + 1
    BY <1>1, <1>2 DEF SameSlots
  <1>8. NewWait
    <2>1. J \in ctrl_stack'[q].pending_jt_slots /\ q \in 1..Len(ctrl_stack')
      BY <1>3, <1>4, <1>5, <1>6 DEF SameFrames
    <2> QED BY <1>2, <1>7, <2>1 DEF NewWait, Waiting
  <1>9. Len(ctrl_stack') = Len(ctrl_stack)
    BY <1>4, <1>6 DEF SameFrames
  <1>10. ASSUME NEW p \in 1..Len(ctrl_stack)
         PROVE  /\ ctrl_stack'[p].type = ctrl_stack[p].type
                /\ ctrl_stack'[p].pc = ctrl_stack[p].pc
                /\ Pending(p) \subseteq Pending(p)'
                /\ \A i \in Pending(p)' : i \in Pending(p) \/ i >= Len(jt)
    <2>1. ctrl_stack'[p].type = ctrl_stack[p].type /\ ctrl_stack'[p].pc = ctrl_stack[p].pc
      BY <1>4, <1>5, <1>6 DEF SameFrames
    <2>2. Pending(p)' = IF p = q THEN Pending(p) \cup {J} ELSE Pending(p)
      BY <1>4, <1>6 DEF Pending
    <2> QED BY <1>2, <2>1, <2>2
  <1> QED BY <1>2, <1>7, <1>8, <1>9, <1>10 DEF Kept

\* br_table.
LEMMA BrTableKept ==
  ASSUME TInv, NEW ins \in Instrs, on_br_table(ins)
  PROVE  Kept
  <1> DEFINE J == Len(jt)
             Q(p) == {J + i - 1 : i \in {n \in 1..Len(ins.ls) : LabelAt(ins.ls[n]) = p}}
  <1>1. /\ StepShape(ins) /\ ctrl_stack # << >>
        /\ Len(ctrl_stack') = Len(ctrl_stack)
        /\ \A s \in 1..J : jt'[s] = jt[s]
        /\ \A p \in 1..Len(ctrl_stack) :
             /\ ctrl_stack'[p].type = ctrl_stack[p].type
             /\ ctrl_stack'[p].pc = ctrl_stack[p].pc
             /\ ctrl_stack'[p].pending_jt_slots = ctrl_stack[p].pending_jt_slots \cup Q(p)
        /\ \A i \in 1..Len(ins.ls) : LabelAt(ins.ls[i]) \in 1..Len(ctrl_stack)
        /\ Len(ins.ls) \in Nat
    BY BrTableShape DEF SameFrames
  <1>2. J \in Nat /\ Len(ctrl_stack) \in Nat
    BY DEF TInv, TypeOK
  <1>3. Len(jt') = J + Len(ins.ls)
    <2>1. SlotCount(ins) = Len(ins.ls)
      BY DEF on_br_table, SlotCount, JumpOps
    <2> QED BY <1>1, <2>1 DEF StepShape
  <1>4. \A p \in 1..Len(ctrl_stack) : \A i \in Q(p) : i >= J
    BY <1>1, <1>2
  <1>5. ASSUME NEW s \in (J + 1)..Len(jt')
        PROVE  Waiting(s)'
    <2> DEFINE i == s - J
    <2>1. i \in 1..Len(ins.ls) /\ s - 1 = J + i - 1
      BY <1>1, <1>2, <1>3
    <2>2. s - 1 \in Q(LabelAt(ins.ls[i]))
      BY <2>1
    <2>3. LabelAt(ins.ls[i]) \in 1..Len(ctrl_stack)
      BY <1>1, <2>1
    <2> HIDE DEF Q, i
    <2> QED BY <1>1, <2>2, <2>3 DEF Waiting
  <1> HIDE DEF Q
  <1> QED BY <1>1, <1>2, <1>4, <1>5 DEF Kept, SameSlots, NewWait, Pending

\* else.
LEMMA ElseSwapped ==
  ASSUME TInv, NEW ins \in Instrs, on_else(ins)
  PROVE  Swapped
  <1> DEFINE n == Len(ctrl_stack)
             J == Len(jt)
             if_slot == Min(Top.pending_jt_slots)
             t == Resolve(jt, {if_slot}, Imm)
             ft == [params |-> Top.start_types, results |-> Top.end_types]
             fr == NewFrame("else", ft, Len(AfterPopCtrl), 0)
             S == (Top.pending_jt_slots \ {if_slot}) \cup {J}
             new == [fr EXCEPT !.pending_jt_slots = S]
  <1>1. /\ ins.op = "else" /\ Decode(ins)
        /\ \E x : jt' = Append(t, x)
        /\ ctrl_stack' = Append(PopFrame(ctrl_stack), new)
    BY DEF on_else
  <1>2. ctrl_stack # << >> /\ Top.type = "if"
    BY <1>1 DEF Decode, TouchesFrame, Valid
  <1>3. /\ jt \in Seq(Slots) /\ J \in Nat /\ n \in Nat /\ n > 0 /\ n \in 1..n
    BY <1>2 DEF TInv, TypeOK
  <1>4. Imm \in Int /\ Imm = offset'
    BY <1>1, DecodeType DEF Imm, Size
  <1>5. new.type = "else" /\ new.pending_jt_slots = S
    BY DEF NewFrame
  <1>6. /\ t \in Seq(Slots) /\ Len(t) = J
    BY <1>3, <1>4, Resolved
  <1>7. \A s \in 1..J : IF s - 1 = if_slot THEN Target(t[s]) = Imm ELSE t[s] = jt[s]
    <2> HIDE DEF if_slot
    <2> QED BY <1>3, <1>4, ResolvedTarget
  <1>8. /\ PopFrame(ctrl_stack) \in Seq(Frames) /\ Len(PopFrame(ctrl_stack)) = n - 1
        /\ \A p \in 1..(n - 1) : PopFrame(ctrl_stack)[p] = ctrl_stack[p]
    BY <1>2, PopFrameType
  <1> HIDE DEF t, new, S, if_slot
  <1>9. Len(jt') = J + 1 /\ \A s \in 1..J : jt'[s] = t[s]
    BY <1>1, <1>3, <1>6
  <1>10. /\ Len(ctrl_stack') = n /\ ctrl_stack'[n] = new
         /\ \A p \in 1..(n - 1) : ctrl_stack'[p] = ctrl_stack[p]
    BY <1>1, <1>3, <1>8
  <1>11. ctrl_stack'[n].pending_jt_slots = S /\ Pending(n) = Top.pending_jt_slots
    BY <1>5, <1>10 DEF Pending, Top
  <1>12. NewWait
    <2>1. J \in ctrl_stack'[n].pending_jt_slots
      BY <1>11 DEF S
    <2>2. \A s \in (J + 1)..Len(jt') : s - 1 = J
      BY <1>3, <1>9
    <2> QED BY <1>3, <1>10, <2>1, <2>2 DEF NewWait, Waiting
  <1>13. ASSUME NEW s \in 1..J
         PROVE  \/ jt'[s] = jt[s] /\ (s - 1 \in Pending(n) => s - 1 \in ctrl_stack'[n].pending_jt_slots)
                \/ Target(jt'[s]) = offset'
    <2>1. CASE s - 1 = if_slot
      BY <1>4, <1>7, <1>9, <2>1
    <2>2. CASE s - 1 # if_slot
      BY <1>7, <1>9, <1>11, <2>2 DEF S
    <2> QED BY <2>1, <2>2
  <1>14. ctrl_stack[n].type = "if" /\ ctrl_stack'[n].type = "else"
    BY <1>2, <1>5, <1>10 DEF Top
  <1> QED BY <1>3, <1>10, <1>12, <1>13, <1>14 DEF Swapped

\* end.
LEMMA EndPopped ==
  ASSUME TInv, NEW ins \in Instrs, on_end(ins)
  PROVE  Popped
  <1> DEFINE n == Len(ctrl_stack)
  <1>1. /\ ins.op = "end" /\ Decode(ins)
        /\ jt' = Resolve(jt, Top.pending_jt_slots, EndTarget(Top))
        /\ ctrl_stack' = PopFrame(ctrl_stack)
    BY DEF on_end
  <1>2. ctrl_stack # << >>
    BY <1>1 DEF Decode, Valid
  <1>3. /\ jt \in Seq(Slots) /\ n \in Nat /\ n > 0 /\ offset \in Nat
    BY <1>2 DEF TInv, TypeOK
  <1>4. EndTarget(Top) \in Int
    BY <1>2, TopFrame, EndTargetType
  <1>5. /\ Len(jt') = Len(jt)
        /\ \A s \in 1..Len(jt) :
             IF s - 1 \in Top.pending_jt_slots THEN Target(jt'[s]) = EndTarget(Top)
                                               ELSE jt'[s] = jt[s]
    BY <1>1, <1>3, <1>4, Resolved, ResolvedTarget
  <1>6. offset' = Imm /\ Imm - 1 = offset
    BY <1>1, <1>3 DEF Decode, Size, Imm
  <1>7. /\ EndTarget(Top) = CASE ctrl_stack[n].type = "loop" -> ctrl_stack[n].pc
                              [] ctrl_stack[n].type = "func" -> offset
                              [] OTHER -> offset'
        /\ Pending(n) = Top.pending_jt_slots
    BY <1>6 DEF EndTarget, Top, Pending
  <1>8. /\ Len(ctrl_stack') = n - 1
        /\ \A p \in 1..(n - 1) : ctrl_stack'[p] = ctrl_stack[p]
    BY <1>1, <1>2, PopFrameType
  <1> QED BY <1>3, <1>5, <1>7, <1>8 DEF Popped

\* Every callback keeps Targets.
LEMMA StepTargets ==
  ASSUME TInv, Ordered, Targets, NEW ins \in Instrs, Step(ins)
  PROVE  Targets'
  <1>1. Decode(ins) /\ StepShape(ins)
    BY StepsShape
  <1>2. /\ skipped \subseteq skipped'
        /\ ctrl_stack = << >> => "trailing" \in skipped'
    BY SkippedGrows
  <1>3. CASE on_else(ins)
    BY <1>1, <1>2, <1>3, ElseSwapped, SwappedTargets
  <1>4. CASE on_end(ins)
    BY <1>1, <1>2, <1>4, EndPopped, PoppedTargets
  <1>5. CASE ~on_else(ins) /\ ~on_end(ins)
    <2>1. Kept
      BY <1>5, PlainKept, BlockKept, BrKept, BrTableKept DEF Step
    <2> QED BY <1>1, <1>2, <2>1, KeptTargets
  <1> QED BY <1>3, <1>4, <1>5

----------------------------------------------------------------------------
(***************************************************************************)
(* on_decode_end.  In a table whose addresses do not decrease, looking     *)
(* ahead and walking back both find the first slot behind the target.      *)
(***************************************************************************)
Behind(t, a) == {s \in 1..Len(t) : t[s].pc > a}

\* In a table in code order, the search for the next slot finds the first slot
\* behind the landing place.
LEMMA NextIsFirst ==
  ASSUME NEW t \in Seq(Slots), NEW i \in 1..Len(t),
         \A r, s \in 1..Len(t) : r <= s => t[r].pc <= t[s].pc,
         t[i].target_offset = 0 => \A s \in 1..Len(t) : t[s].pc <= Target(t[i])
  PROVE  /\ NextSlots(t, i) = {} <=> Behind(t, Target(t[i])) = {}
         /\ NextSlots(t, i) # {} =>
              Min(NextSlots(t, i)) = Min(Behind(t, Target(t[i])))
  <1> DEFINE a == Target(t[i])
             N == NextSlots(t, i)
             B == Behind(t, a)
  <1>1. \A s \in 1..Len(t) : t[s].pc \in Nat /\ t[s].target_offset \in Int
    <2>1. \A s \in 1..Len(t) : t[s] \in Slots
      OBVIOUS
    <2> QED BY <2>1 DEF Slots
  <1>2. Len(t) \in Nat /\ a \in Int /\ a = t[i].pc + t[i].target_offset
    BY <1>1 DEF Target
  <1>3. N \in SUBSET Nat /\ N \subseteq 1..Len(t)
    BY NextSlotsRange
  <1>4. B \in SUBSET Nat /\ B \subseteq 1..Len(t)
    BY <1>2 DEF Behind
  <1>5. CASE t[i].target_offset > 0
    <2>1. N = {j \in (i + 1)..Len(t) : t[j].pc > a}
      BY <1>5 DEF NextSlots, SlotsAhead
    <2>2. a > t[i].pc
      BY <1>1, <1>2, <1>5
    <2>3. \A s \in B : s > i
      BY <1>1, <1>2, <2>2 DEF Behind
    <2>4. N = B
      BY <1>2, <2>1, <2>3 DEF Behind
    <2> QED BY <2>4
  <1>6. CASE ~(t[i].target_offset > 0)
    <2>1. N = {j \in 1..i : \A k \in j..i : t[k].pc > a}
      BY <1>6 DEF NextSlots, SlotsBehind
    <2>2. N \subseteq B
      <3>1. ASSUME NEW j \in N
            PROVE  j \in B
        <4>1. j \in 1..i /\ j \in j..i /\ t[j].pc > a
          BY <2>1
        <4> QED BY <1>2, <4>1 DEF Behind
      <3> QED BY <3>1
    <2>3. B # {} => i \in N /\ \A b \in B : b <= i => b \in N
      <3> SUFFICES ASSUME B # {}
                   PROVE  i \in N /\ \A b \in B : b <= i => b \in N
        OBVIOUS
      <3>1. t[i].target_offset # 0
        BY <1>1, <1>2 DEF Behind
      <3>2. a < t[i].pc
        BY <1>1, <1>2, <1>6, <3>1
      <3>3. i \in N
        <4>1. \A k \in i..i : k = i
          OBVIOUS
        <4> QED BY <2>1, <3>2, <4>1
      <3>4. ASSUME NEW b \in B, b <= i
            PROVE  b \in N
        <4>1. b \in 1..i /\ t[b].pc > a
          BY <1>4, <3>4 DEF Behind
        <4>2. ASSUME NEW k \in b..i
              PROVE  t[k].pc > a
          <5>1. k \in 1..Len(t) /\ b \in 1..Len(t) /\ b <= k
            BY <1>2, <4>1
          <5>2. t[b].pc <= t[k].pc /\ t[b].pc \in Nat /\ t[k].pc \in Nat
            BY <1>1, <5>1
          <5> QED BY <1>2, <4>1, <5>2
        <4> QED BY <2>1, <4>1, <4>2
      <3> QED BY <3>3, <3>4
    <2>4. N = {} <=> B = {}
      BY <2>2, <2>3
    <2>5. ASSUME N # {}
          PROVE  Min(N) = Min(B)
      <3>1. B # {}
        BY <2>2, <2>5
      <3>2. Min(B) \in B /\ \A y \in B : Min(B) <= y
        BY <1>4, <3>1, MinIs
      <3>3. i \in B /\ Min(B) <= i
        BY <2>2, <2>3, <3>1, <3>2
      <3>4. Min(B) \in N
        BY <2>3, <3>1, <3>2, <3>3
      <3>5. \A y \in N : Min(B) <= y
        BY <2>2, <3>2
      <3> HIDE DEF N, B
      <3> QED BY <1>3, <3>4, <3>5, MinEq
    <2> QED BY <2>4, <2>5
  <1> QED BY <1>5, <1>6

\* The end of the decoding links the table of a function that is closed.
LEMMA EndLinks ==
  ASSUME TInv, Ordered, Targets, on_decode_end
  PROVE  JumpTableLinked'
  <1> SUFFICES ASSUME Closed', Numbered', NEW s \in 1..Len(jt')
               PROVE  /\ \E k \in 1..Len(code') : code'[k].at = Target(jt'[s])
                      /\ jt'[s].next_idx = FirstSlotAfter(Target(jt[s]))'
    BY DEF JumpTableLinked
  <1>1. /\ phase = "decode" /\ jt' = Link(jt) /\ code' = code
        /\ skipped' = skipped \cup (IF ctrl_stack = << >> THEN {} ELSE {"open"})
    BY DEF on_decode_end
  <1>2. ctrl_stack = << >> /\ Untrailed
    BY <1>1 DEF Closed, Untrailed
  <1>3. Complete
    BY <1>1 DEF Targets
  <1>4. jt \in Seq(Slots)
    BY DEF TInv, TypeOK
  <1>5. /\ Len(jt') = Len(jt) /\ jt' \in Seq(Slots)
        /\ \A i \in 1..Len(jt) :
             /\ jt'[i].pc = jt[i].pc
             /\ jt'[i].target_offset = jt[i].target_offset
             /\ jt'[i].next_idx =
                  IF NextSlots(jt, i) = {}
                    THEN jt[i].next_idx ELSE U16(Min(NextSlots(jt, i)) - 1)
    BY <1>1, <1>4, Linked
  <1>6. s \in 1..Len(jt) /\ Target(jt'[s]) = Target(jt[s])
    BY <1>5 DEF Target
  <1>7. /\ \E k \in 1..Len(code) : code[k].at = Target(jt[s])
        /\ Target(jt[s]) = jt[s].pc => \A r \in 1..Len(jt) : jt[r].pc <= Target(jt[s])
    BY <1>2, <1>3, <1>6 DEF Complete
  <1> DEFINE a == Target(jt[s])
             N == NextSlots(jt, s)
             B == Behind(jt, a)
  <1>8. jt[s].target_offset = 0 => \A r \in 1..Len(jt) : jt[r].pc <= a
    <2>1. jt[s].pc \in Nat
      BY <1>6, SlotTypes
    <2>2. jt[s].target_offset = 0 => a = jt[s].pc
      BY <2>1 DEF Target
    <2> QED BY <1>7, <2>2
  <1>9. N = {} <=> B = {}
    BY <1>4, <1>6, <1>8, NextIsFirst DEF Ordered
  <1>10. N # {} => Min(N) = Min(B)
    BY <1>4, <1>6, <1>8, NextIsFirst DEF Ordered
  <1>11. FirstSlotAfter(Target(jt[s]))' =
           IF B = {} THEN JUMP_TABLE_IDX_INVALID ELSE Min(B) - 1
    <2>1. B = {r \in 1..Len(jt') : jt'[r].pc > Target(jt'[s])}
      BY <1>5, <1>6 DEF Behind
    <2> HIDE DEF B
    <2> QED BY <2>1 DEF FirstSlotAfter, JUMP_TABLE_IDX_INVALID
  <1>12. jt'[s].next_idx = IF B = {} THEN JUMP_TABLE_IDX_INVALID ELSE Min(B) - 1
    <2>1. CASE N = {}
      <3>1. jt'[s].next_idx = jt[s].next_idx
        BY <1>5, <1>6, <2>1
      <3>2. jt[s].next_idx = JUMP_TABLE_IDX_INVALID
        BY <1>1, <1>6 DEF TInv, Fresh
      <3> QED BY <1>9, <2>1, <3>1, <3>2
    <2>2. CASE N # {}
      <3>1. jt'[s].next_idx = U16(Min(N) - 1)
        BY <1>5, <1>6, <2>2
      <3>2. Min(N) \in N /\ N \subseteq 1..Len(jt)
        BY <1>4, <1>6, <2>2, NextSlotsRange, MinIs
      <3>3. Min(N) \in 1..Len(jt) /\ Len(jt) <= U16_MAX
        BY <1>5, <3>2 DEF Numbered
      <3> HIDE DEF N, B
      <3>4. Min(N) - 1 \in 0..U16_MAX
        BY <1>4, <3>3, WidthAssumption
      <3>5. U16(Min(N) - 1) = Min(N) - 1
        BY <3>4, U16Id
      <3> QED BY <1>9, <1>10, <2>2, <3>1, <3>5
    <2> QED BY <2>1, <2>2
  <1> QED BY <1>1, <1>6, <1>7, <1>11, <1>12

----------------------------------------------------------------------------
JumpTable == Targets /\ JumpTableLinked

\* validator_on_decode_begin establishes the invariant.
LEMMA InitJumpTable ==
  ASSUME Init
  PROVE  JumpTable
  <1>1. /\ phase = "decode" /\ jt = << >> /\ Len(ctrl_stack) = 1
        /\ ctrl_stack[1].type = "func"
    BY DEF Init, NewFrame
  <1>2. \A p \in 1..Len(ctrl_stack) : p = 1
    BY <1>1
  <1>3. TargetsOnBoundary
    BY <1>1, <1>2 DEF TargetsOnBoundary
  <1>4. FuncOutermost /\ LoopsBehind /\ Moving /\ Complete
    BY <1>1, <1>2 DEF FuncOutermost, LoopsBehind, Moving, Complete
  <1> QED BY <1>1, <1>3, <1>4 DEF JumpTable, Targets, JumpTableLinked

\* The invariant is inductive, relative to TInv and Ordered.
LEMMA NextJumpTable ==
  ASSUME TInv, Layout, JumpTable, [Next]_vars
  PROVE  JumpTable'
  <1>1. Ordered /\ Targets
    BY DEF Layout, JumpTable
  <1>2. CASE \E ins \in Instrs : Step(ins)
    <2>1. PICK ins \in Instrs : Step(ins)
      BY <1>2
    <2>2. phase' = "decode"
      BY <2>1, StepsShape, DecodeType
    <2> QED BY <1>1, <2>1, <2>2, StepTargets DEF JumpTable, JumpTableLinked
  <1>3. CASE on_decode_end
    <2>1. phase' = "ready"
      BY <1>3 DEF on_decode_end
    <2> QED BY <1>1, <1>3, <2>1, EndLinks DEF JumpTable, Targets, TargetsOnBoundary
  <1>4. CASE Reject \/ Truncated \/ EmptyVecAccess
    <2>1. phase' \in {"invalid", "assert"}
      BY <1>4 DEF Reject, Truncated, EmptyVecAccess, Quit
    <2> QED BY <2>1 DEF JumpTable, Targets, TargetsOnBoundary, JumpTableLinked
  <1>5. CASE UNCHANGED vars
    BY <1>5 DEF vars, JumpTable, Targets, TargetsOnBoundary, FuncOutermost,
       LoopsBehind, Moving, Complete, Waiting, Boundary, Untrailed, Pending,
       JumpTableLinked, Closed, Numbered, FirstSlotAfter
  <1> QED BY <1>2, <1>3, <1>4, <1>5 DEF Next

\* The layout and the targets together, as an invariant.
LEMMA TableInvariant == Spec => [](TInv /\ Layout /\ JumpTable)
  <1>1. Init => TInv /\ Layout /\ JumpTable
    BY InitTInv, EmptyLayout, InitJumpTable DEF Init
  <1>2. TInv /\ Layout /\ JumpTable /\ [Next]_vars => (TInv /\ Layout /\ JumpTable)'
    BY NextTInv, NextLayout, NextJumpTable
  <1> QED BY <1>1, <1>2, PTL DEF Spec

(***************************************************************************)
(* While a function is decoded, every slot of its jump table is pending on *)
(* an open block or points at an instruction or at the next one to come,   *)
(* and so does every loop: end and else never leave a slot without target. *)
(***************************************************************************)
THEOREM OnBoundary == Spec => []TargetsOnBoundary
  <1>1. JumpTable => TargetsOnBoundary
    BY DEF JumpTable, Targets
  <1> QED BY <1>1, TableInvariant, PTL

(***************************************************************************)
(* The jump table of an accepted function that ends where its own block    *)
(* ends: every jump lands on an instruction and its next_idx is the first  *)
(* slot behind the landing place, so that one linear pass of               *)
(* validator_on_decode_end is enough for the interpreter never to search.  *)
(***************************************************************************)
THEOREM TableLinked == Spec => []JumpTableLinked
  <1>1. JumpTable => JumpTableLinked
    BY DEF JumpTable
  <1> QED BY <1>1, TableInvariant, PTL
=============================================================================
