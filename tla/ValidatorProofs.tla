--------------------------- MODULE ValidatorProofs ---------------------------
(***************************************************************************)
(* Theorems about the validator, for every set of functions and            *)
(* instructions and every width of the jump table's indices.               *)
(*                                                                         *)
(* The argument: a lemma per callback shows what it does to the types, the *)
(* heights of the frames and the layout of the jump table (StepShape); the *)
(* invariants TInv and Layout follow from StepShape alone, so that a new   *)
(* callback costs one lemma.                                               *)
(***************************************************************************)
EXTENDS Validator, SequenceTheorems, WellFoundedInduction, TLAPS

----------------------------------------------------------------------------
\* The value of a u16 is in the range of a u16.
LEMMA U16Range == \A n \in Int : U16(n) \in 0..U16_MAX
  BY WidthAssumption DEF U16

\* A number that fits a u16 keeps its value.
LEMMA U16Id == \A n \in 0..U16_MAX : U16(n) = n
  BY WidthAssumption DEF U16

\* The value of a u32 is a natural number, whatever was stored in it.
LEMMA U32Range == \A n \in Int : U32(n) \in Nat
  BY WidthAssumption DEF U32

\* An instruction takes at least one byte, and owns finitely many slots.
LEMMA Sizes ==
  ASSUME NEW ins \in Instrs
  PROVE  /\ Size(ins) \in Nat /\ Size(ins) >= 1
         /\ SlotCount(ins) \in Nat
  BY InstrsAssumption DEF Size, SlotCount, JumpOps

\* A new slot is well-typed, unresolved and unlinked (on_block, on_else,
\* on_br_or_if, on_br_table).
LEMMA NewSlotType ==
  ASSUME NEW pc \in Nat, NEW so \in Int, NEW n \in Nat
  PROVE  /\ NewSlot(pc, so, n) \in Slots
         /\ NewSlot(pc, so, n).pc = pc
         /\ NewSlot(pc, so, n).target_offset = 0
         /\ NewSlot(pc, so, n).next_idx = JUMP_TABLE_IDX_INVALID
         /\ NewSlot(pc, so, n).stack_offset = U32(so)
         /\ NewSlot(pc, so, n).arity = U16(n)
  BY U16Range, U32Range, WidthAssumption DEF NewSlot, Slots, JUMP_TABLE_IDX_INVALID

\* Setting the target of a slot changes nothing else.
LEMMA SlotUpdate ==
  ASSUME NEW slot \in Slots, NEW n \in Int
  PROVE  /\ [slot EXCEPT !.target_offset = n] \in Slots
         /\ [slot EXCEPT !.target_offset = n].pc = slot.pc
         /\ [slot EXCEPT !.target_offset = n].target_offset = n
         /\ [slot EXCEPT !.target_offset = n].next_idx = slot.next_idx
         /\ [slot EXCEPT !.target_offset = n].stack_offset = slot.stack_offset
         /\ [slot EXCEPT !.target_offset = n].arity = slot.arity
  BY DEF Slots

\* Resolving slots changes the targets of those slots and nothing else
\* (on_else, on_end).
LEMMA Resolved ==
  ASSUME NEW t \in Seq(Slots), NEW slots, NEW target \in Int
  PROVE  /\ Resolve(t, slots, target) \in Seq(Slots)
         /\ Len(Resolve(t, slots, target)) = Len(t)
         /\ \A i \in 1..Len(t) :
              /\ Resolve(t, slots, target)[i].pc = t[i].pc
              /\ Resolve(t, slots, target)[i].next_idx = t[i].next_idx
              /\ Resolve(t, slots, target)[i].stack_offset = t[i].stack_offset
              /\ Resolve(t, slots, target)[i].arity = t[i].arity
              /\ Resolve(t, slots, target)[i].target_offset =
                   IF i - 1 \in slots THEN target - t[i].pc
                                      ELSE t[i].target_offset
  <1> DEFINE e(i) == IF i - 1 \in slots
                       THEN [t[i] EXCEPT !.target_offset = target - t[i].pc]
                       ELSE t[i]
  <1>1. DOMAIN t = 1..Len(t) /\ Len(t) \in Nat
    OBVIOUS
  <1>2. Resolve(t, slots, target) = [i \in 1..Len(t) |-> e(i)]
    BY <1>1, Zenon DEF Resolve
  <1>3. ASSUME NEW i \in 1..Len(t)
        PROVE  /\ e(i) \in Slots
               /\ e(i).pc = t[i].pc
               /\ e(i).next_idx = t[i].next_idx
               /\ e(i).stack_offset = t[i].stack_offset /\ e(i).arity = t[i].arity
               /\ e(i).target_offset = IF i - 1 \in slots THEN target - t[i].pc
                                                          ELSE t[i].target_offset
    <2>1. t[i] \in Slots
      OBVIOUS
    <2>2. target - t[i].pc \in Int
      BY <2>1 DEF Slots
    <2> DEFINE g == [t[i] EXCEPT !.target_offset = target - t[i].pc]
    <2>3. g \in Slots /\ g.pc = t[i].pc /\ g.next_idx = t[i].next_idx
          /\ g.target_offset = target - t[i].pc
          /\ g.stack_offset = t[i].stack_offset /\ g.arity = t[i].arity
      BY <2>1, <2>2, SlotUpdate
    <2>4. e(i) = IF i - 1 \in slots THEN g ELSE t[i]
      OBVIOUS
    <2> QED BY <2>1, <2>3, <2>4
  <1> HIDE DEF e
  <1>4. [i \in 1..Len(t) |-> e(i)] \in Seq(Slots)
    BY <1>1, <1>3
  <1> QED BY <1>1, <1>2, <1>3, <1>4

----------------------------------------------------------------------------
\* The frames of b are those of a, but for the pending slots and the flag.
SameFrames(a, b) ==
  /\ b \in Seq(Frames)
  /\ Len(b) = Len(a)
  /\ \A p \in 1..Len(a) : /\ b[p].height = a[p].height
                          /\ b[p].type = a[p].type
                          /\ b[p].pc = a[p].pc
                          /\ b[p].start_types = a[p].start_types
                          /\ b[p].end_types = a[p].end_types

\* Marking a frame unreachable, or changing what is pending on it, changes
\* nothing else.
LEMMA FrameUpdate ==
  ASSUME NEW fr \in Frames, NEW S \in SUBSET Nat
  PROVE  /\ [fr EXCEPT !.unreachable = TRUE] \in Frames
         /\ [fr EXCEPT !.unreachable = TRUE].height = fr.height
         /\ [fr EXCEPT !.unreachable = TRUE].type = fr.type
         /\ [fr EXCEPT !.unreachable = TRUE].pc = fr.pc
         /\ [fr EXCEPT !.unreachable = TRUE].pending_jt_slots = fr.pending_jt_slots
         /\ [fr EXCEPT !.unreachable = TRUE].start_types = fr.start_types
         /\ [fr EXCEPT !.unreachable = TRUE].end_types = fr.end_types
         /\ [fr EXCEPT !.unreachable = TRUE].unreachable = TRUE
         /\ [fr EXCEPT !.pending_jt_slots = S] \in Frames
         /\ [fr EXCEPT !.pending_jt_slots = S].height = fr.height
         /\ [fr EXCEPT !.pending_jt_slots = S].type = fr.type
         /\ [fr EXCEPT !.pending_jt_slots = S].pc = fr.pc
         /\ [fr EXCEPT !.pending_jt_slots = S].pending_jt_slots = S
         /\ [fr EXCEPT !.pending_jt_slots = S].start_types = fr.start_types
         /\ [fr EXCEPT !.pending_jt_slots = S].end_types = fr.end_types
         /\ [fr EXCEPT !.pending_jt_slots = S].unreachable = fr.unreachable
  BY DEF Frames

\* unreachable() changes the flag of the innermost frame and nothing else.
LEMMA UnreachableFrames ==
  ASSUME NEW cs \in Seq(Frames), cs # << >>
  PROVE  /\ SameFrames(cs, Unreachable(cs))
         /\ \A p \in 1..Len(cs) :
              /\ Unreachable(cs)[p].pending_jt_slots = cs[p].pending_jt_slots
              /\ Unreachable(cs)[p].unreachable = (p = Len(cs) \/ cs[p].unreachable)
  <1> DEFINE n == Len(cs)
             e == [cs[n] EXCEPT !.unreachable = TRUE]
  <1>1. n \in 1..Len(cs) /\ cs[n] \in Frames
    OBVIOUS
  <1>2. /\ e \in Frames /\ e.height = cs[n].height /\ e.type = cs[n].type
        /\ e.pc = cs[n].pc /\ e.pending_jt_slots = cs[n].pending_jt_slots
        /\ e.start_types = cs[n].start_types /\ e.end_types = cs[n].end_types
        /\ e.unreachable = TRUE
    BY <1>1, FrameUpdate
  <1>3. Unreachable(cs) = [cs EXCEPT ![n] = e]
    BY Zenon DEF Unreachable
  <1>4. \A p \in 1..n : cs[p].unreachable \in BOOLEAN
    <2>1. \A p \in 1..n : cs[p] \in Frames
      OBVIOUS
    <2> QED BY <2>1 DEF Frames
  <1> HIDE DEF e
  <1>5. \A p \in 1..n : Unreachable(cs)[p] = IF p = n THEN e ELSE cs[p]
    BY <1>1, <1>2, <1>3
  <1>6. \A p \in 1..n : Unreachable(cs)[p].unreachable = (p = n \/ cs[p].unreachable)
    BY <1>2, <1>4, <1>5
  <1> QED BY <1>1, <1>2, <1>3, <1>6 DEF SameFrames

\* Adding a slot to a frame's pending_jt_slots changes nothing else.
LEMMA PendingFrames ==
  ASSUME NEW cs \in Seq(Frames), NEW p \in 1..Len(cs), NEW s \in Nat
  PROVE  LET b == [cs EXCEPT ![p].pending_jt_slots = @ \cup {s}]
         IN  /\ SameFrames(cs, b)
             /\ \A q \in 1..Len(cs) :
                  /\ b[q].pending_jt_slots =
                       IF q = p THEN cs[q].pending_jt_slots \cup {s}
                                ELSE cs[q].pending_jt_slots
                  /\ b[q].unreachable = cs[q].unreachable
  <1> DEFINE S == cs[p].pending_jt_slots \cup {s}
             e == [cs[p] EXCEPT !.pending_jt_slots = S]
             b == [cs EXCEPT ![p].pending_jt_slots = @ \cup {s}]
  <1>0. cs[p] \in Frames
    OBVIOUS
  <1>1. cs[p] \in Frames /\ S \in SUBSET Nat
    <2>1. cs[p].pending_jt_slots \in SUBSET Nat
      BY <1>0 DEF Frames
    <2> QED BY <1>0, <2>1
  <1>2. /\ e \in Frames /\ e.height = cs[p].height /\ e.type = cs[p].type
        /\ e.pc = cs[p].pc /\ e.pending_jt_slots = S
        /\ e.start_types = cs[p].start_types /\ e.end_types = cs[p].end_types
        /\ e.unreachable = cs[p].unreachable
    BY <1>1, FrameUpdate
  <1>3. b = [cs EXCEPT ![p] = e]
    BY Zenon
  <1> HIDE DEF e, b
  <1>4. SameFrames(cs, b)
    BY <1>1, <1>2, <1>3 DEF SameFrames
  <1>5. ASSUME NEW q \in 1..Len(cs)
        PROVE  /\ b[q].pending_jt_slots =
                    IF q = p THEN cs[q].pending_jt_slots \cup {s}
                             ELSE cs[q].pending_jt_slots
               /\ b[q].unreachable = cs[q].unreachable
    <2>1. b[q] = IF q = p THEN e ELSE cs[q]
      BY <1>2, <1>3
    <2> QED BY <1>2, <2>1
  <1> QED BY <1>4, <1>5 DEF b

Types == StackTypes \cup {"ref"}

\* Popping values never goes below the frame.
LEMMA PopValsType ==
  ASSUME NEW vs \in Seq(StackTypes), NEW fr \in Frames, fr.height <= Len(vs),
         NEW ts \in Seq(Types)
  PROVE  /\ PopVals(vs, fr, ts) \in Seq(StackTypes)
         /\ fr.height <= Len(PopVals(vs, fr, ts))
         /\ Len(PopVals(vs, fr, ts)) <= Len(vs)
  <1> DEFINE m == Len(vs) - Taken(Len(vs) - fr.height, Len(ts))
  <1>1. m \in fr.height..Len(vs) /\ fr.height \in Nat
    BY DEF Taken, Frames
  <1>2. SubSeq(vs, 1, m) \in Seq(StackTypes) /\ Len(SubSeq(vs, 1, m)) = m
    BY <1>1, SubSeqProperties
  <1> QED BY <1>1, <1>2 DEF PopVals

\* vec_resize_val_type to the frame's height leaves exactly that many values.
LEMMA CutType ==
  ASSUME NEW vs \in Seq(StackTypes), NEW h \in 0..Len(vs)
  PROVE  SubSeq(vs, 1, h) \in Seq(StackTypes) /\ Len(SubSeq(vs, 1, h)) = h
  BY SubSeqProperties

----------------------------------------------------------------------------
(***************************************************************************)
(* The stack is never lower than the frames on the control stack say, and  *)
(* an inner frame is never lower than an outer one.                        *)
(***************************************************************************)
Heights ==
  /\ \A p \in 1..Len(ctrl_stack) : ctrl_stack[p].height <= Len(val_stack)
  /\ \A p, q \in 1..Len(ctrl_stack) :
       p <= q => ctrl_stack[p].height <= ctrl_stack[q].height

\* The slots are linked only once the whole function is decoded.
Fresh ==
  phase = "decode" =>
    \A s \in 1..Len(jt) : jt[s].next_idx = JUMP_TABLE_IDX_INVALID

TInv == TypeOK /\ Heights /\ Fresh

\* The innermost frame, and the types it holds.
LEMMA TopFrame ==
  ASSUME TInv, ctrl_stack # << >>
  PROVE  /\ Len(ctrl_stack) \in 1..Len(ctrl_stack)
         /\ Top \in Frames /\ Top.height \in 0..Len(val_stack)
         /\ Top.start_types \in Seq(ValTypes) /\ Top.end_types \in Seq(ValTypes)
         /\ Top.start_types \in Seq(StackTypes) /\ Top.end_types \in Seq(StackTypes)
         /\ Top.end_types \in Seq(Types)
  <1>1. Len(ctrl_stack) \in 1..Len(ctrl_stack) /\ Top \in Frames
    BY DEF TInv, TypeOK, Top
  <1>2. /\ Top.height \in Nat /\ Top.start_types \in Seq(ValTypes)
        /\ Top.end_types \in Seq(ValTypes)
    BY <1>1 DEF Frames
  <1>3. Top.height <= Len(val_stack)
    BY <1>1 DEF TInv, Heights, Top
  <1>4. Len(val_stack) \in Nat
    BY DEF TInv, TypeOK
  <1>5. ValTypes \subseteq StackTypes /\ ValTypes \subseteq Types
    BY DEF StackTypes, Types
  <1> QED BY <1>1, <1>2, <1>3, <1>4, <1>5, SeqMonotonic

\* The locals of a function have value types.
LEMMA LocalTypesType ==
  ASSUME TInv
  PROVE  LocalTypes \in Seq(ValTypes)
  <1>1. f.type.params \in Seq(ValTypes) /\ f.locals \in Seq(ValTypes)
    BY FunsAssumption DEF TInv, TypeOK, FuncTypes
  <1> QED BY <1>1 DEF LocalTypes

\* The types that the callbacks name are types.
LEMMA TypeNames ==
  /\ {"i32", "ref", "unknown", "funcref"} \subseteq Types
  /\ {"i32", "unknown", "funcref"} \subseteq StackTypes
  /\ ValTypes \subseteq StackTypes /\ StackTypes \subseteq Types
  BY DEF Types, StackTypes, ValTypes, NumTypes, RefTypes

Signatures == [pop : Seq(Types), push : Seq(StackTypes)]

\* What a reference or table instruction pops and pushes are types.
LEMMA RefSigType ==
  ASSUME NEW ins \in Instrs
  PROVE  RefSig(ins) \in Signatures
  <1>1. /\ ins.op = "call_indirect" => ins.type \in FuncTypes
        /\ ins.op \in TypedOps => ins.t \in ValTypes
    BY InstrsAssumption
  <1>2. ins.op = "call_indirect" =>
          /\ Append(ins.type.params, "i32") \in Seq(Types)
          /\ ins.type.results \in Seq(StackTypes)
    BY <1>1, TypeNames DEF FuncTypes
  <1>3. ins.op \in {"global_get", "global_set", "table_get", "table_set", "ref_null"} =>
          ins.t \in Types /\ ins.t \in StackTypes
    BY <1>1, TypeNames DEF TypedOps
  <1>4. CASE ins.op \in {"global_get", "global_set", "table_get", "table_set", "ref_null"}
    BY <1>3, <1>4, TypeNames DEF RefSig, Signatures
  <1>5. CASE ins.op \in {"ref_is_null", "ref_func", "bulk", "table_grow", "table_size", "table_fill"}
    BY <1>5, TypeNames DEF RefSig, Signatures
  <1>6. CASE ins.op = "call_indirect"
    BY <1>2, <1>6 DEF RefSig, Signatures
  <1>7. CASE ins.op \notin {"global_get", "global_set", "table_get", "table_set", "ref_null",
              "ref_is_null", "ref_func", "bulk", "table_grow", "table_size", "table_fill",
              "call_indirect"}
    BY <1>7 DEF RefSig, Signatures
  <1> QED BY <1>4, <1>5, <1>6, <1>7

\* What a data instruction pops and pushes are types.
LEMMA SigType ==
  ASSUME NEW ins \in Instrs
  PROVE  Sig(ins) \in Signatures
  <1> DEFINE Typed == {"select_t", "const", "unop", "binop", "testop", "relop",
                       "convertop", "load", "store"}
             Untyped == {"drop", "memory_size", "memory_grow"}
  <1>1. ins.op \in Typed => ins.t \in Types /\ ins.t \in StackTypes
    BY InstrsAssumption, TypeNames DEF TypedOps
  <1>2. ins.op = "convertop" => ins.s \in Types
    BY InstrsAssumption, TypeNames
  <1>3. CASE ins.op \in Typed
    BY <1>1, <1>2, <1>3, TypeNames DEF Sig, Signatures
  <1>4. CASE ins.op \in Untyped
    BY <1>4, TypeNames DEF Sig, Signatures
  <1>5. CASE ins.op \notin Typed \cup Untyped
    <2>1. Sig(ins) = RefSig(ins)
      BY <1>5 DEF Sig
    <2> QED BY <2>1, RefSigType
  <1> QED BY <1>3, <1>4, <1>5

\* An index that on_call accepts names a function.
LEMMA CalleeType ==
  ASSUME NEW i \in 1..Len(Callees)
  PROVE  Callees[i].type \in FuncTypes /\ Callees[i].local_count \in Nat
  <1> DEFINE Fns == [type : FuncTypes, imported : BOOLEAN, local_count : Nat]
  <1>1. Callees \in Seq(Fns)
    BY CalleesAssumption, Zenon
  <1>2. Callees[i] \in Fns
    BY <1>1, ElementOfSeq, Zenon
  <1> QED BY <1>2

\* The operands of an instruction whose index checks passed are types.
LEMMA OperandsType ==
  ASSUME TInv, NEW ins \in Instrs, IndexOk(ins)
  PROVE  Operands(ins) \in Seq(Types)
  <1>1. CASE ins.op \in {"block", "loop", "if"}
    <2>1. ins.type.params \in Seq(ValTypes)
      BY <1>1, InstrsAssumption DEF FuncTypes
    <2>2. ins.type.params \in Seq(Types) /\ Append(ins.type.params, "i32") \in Seq(Types)
      BY <2>1, TypeNames
    <2> QED BY <1>1, <2>2 DEF Operands, DataOps
  <1>2. CASE ins.op = "call"
    <2>1. ins.fn + 1 \in 1..Len(Callees)
      BY <1>2, InstrsAssumption, CalleesAssumption DEF IndexOk
    <2>2. Callees[ins.fn + 1].type \in FuncTypes
      BY <2>1, CalleeType
    <2>3. Callees[ins.fn + 1].type.params \in Seq(Types)
      BY <2>2, TypeNames DEF FuncTypes
    <2> QED BY <1>2, <2>3 DEF Operands, DataOps
  <1>3. CASE ins.op \in LocalOps
    <2>1. LocalTypes \in Seq(ValTypes)
      BY LocalTypesType
    <2>2. ins.idx + 1 \in 1..Len(LocalTypes)
      BY <1>3, <2>1, InstrsAssumption DEF IndexOk
    <2>3. <<LocalTypes[ins.idx + 1]>> \in Seq(Types)
      BY <2>1, <2>2, TypeNames
    <2> QED BY <1>3, <2>3 DEF Operands, LocalOps, DataOps
  <1>4. CASE ins.op \in DataOps
    <2>1. Sig(ins).pop \in Seq(Types)
      BY SigType DEF Signatures
    <2> QED BY <1>4, <2>1, TypeNames DEF Operands, DataOps
  <1>5. CASE ins.op \notin {"block", "loop", "if", "call"} \cup LocalOps \cup DataOps
    BY <1>5 DEF Operands, LocalOps, DataOps
  <1> QED BY <1>1, <1>2, <1>3, <1>4, <1>5

\* Popping the operands leaves the stack above every frame's height.
LEMMA AfterOperandsType ==
  ASSUME TInv, NEW ins \in Instrs, IndexOk(ins),
         Operands(ins) # << >> => ctrl_stack # << >>
  PROVE  /\ AfterOperands(ins) \in Seq(StackTypes)
         /\ \A p \in 1..Len(ctrl_stack) :
              ctrl_stack[p].height <= Len(AfterOperands(ins))
  <1>1. CASE Operands(ins) = << >>
    BY <1>1 DEF AfterOperands, TInv, TypeOK, Heights
  <1>2. CASE Operands(ins) # << >>
    <2>1. ctrl_stack # << >> /\ Operands(ins) \in Seq(Types)
      BY <1>2, OperandsType
    <2>2. /\ Top \in Frames /\ Top.height \in 0..Len(val_stack)
          /\ val_stack \in Seq(StackTypes)
          /\ Len(ctrl_stack) \in 1..Len(ctrl_stack)
      BY <2>1, TopFrame DEF TInv, TypeOK
    <2>3. /\ PopVals(val_stack, Top, Operands(ins)) \in Seq(StackTypes)
          /\ Top.height <= Len(PopVals(val_stack, Top, Operands(ins)))
      BY <2>1, <2>2, PopValsType
    <2>4. \A p \in 1..Len(ctrl_stack) : ctrl_stack[p].height <= Top.height
      BY <2>2 DEF TInv, Heights, Top
    <2>5. \A p \in 1..Len(ctrl_stack) : ctrl_stack[p].height \in Nat
      <3>1. \A p \in 1..Len(ctrl_stack) : ctrl_stack[p] \in Frames
        BY DEF TInv, TypeOK
      <3> QED BY <3>1 DEF Frames
    <2> QED BY <1>2, <2>2, <2>3, <2>4, <2>5 DEF AfterOperands
  <1> QED BY <1>1, <1>2

\* pop_ctrl leaves the stack above the popped frame's height.
LEMMA AfterPopCtrlType ==
  ASSUME TInv, ctrl_stack # << >>
  PROVE  /\ AfterPopCtrl \in Seq(StackTypes)
         /\ Top.height <= Len(AfterPopCtrl)
         /\ Leftover \subseteq SpecChecks
  <1>1. /\ AfterPopCtrl \in Seq(StackTypes)
        /\ Top.height <= Len(AfterPopCtrl)
    BY TopFrame, PopValsType DEF AfterPopCtrl, TInv, TypeOK
  <1> QED BY <1>1 DEF Leftover, SpecChecks

\* stack_size_max stays a natural number.
LEMMA RaiseType ==
  ASSUME TInv, NEW n \in Nat
  PROVE  Raise(n) \in Nat
  BY DEF TInv, TypeOK, Raise

\* What decoding an instruction does to the variables that every callback
\* shares.
LEMMA DecodeType ==
  ASSUME TInv, NEW ins \in Instrs, Decode(ins)
  PROVE  /\ code' \in Seq(Decoded)
         /\ offset' \in Nat /\ offset' = offset + Size(ins)
         /\ f' \in Funs /\ phase' = "decode" /\ f' = f
         /\ IndexOk(ins) /\ Valid(ins)
         /\ ctrl_stack = << >> => ~TouchesFrame(ins)
         /\ Operands(ins) # << >> => ctrl_stack # << >>
         /\ Imm \in Nat
  <1> DEFINE d == [at |-> offset, ins |-> ins, slot |-> Len(jt),
                   types |-> val_stack,
                   dead |-> InDeadCode]
  <1>2. InDeadCode \in BOOLEAN
    BY DEF InDeadCode
  <1>3. d \in Decoded
    BY <1>2 DEF TInv, TypeOK, Decoded
  <1>4. code' \in Seq(Decoded)
    BY <1>3 DEF Decode, TInv, TypeOK
  <1>5. offset' \in Nat /\ offset' = offset + Size(ins)
    BY Sizes DEF Decode, TInv, TypeOK
  <1>6. /\ f' \in Funs /\ phase' = "decode" /\ f' = f /\ Valid(ins)
        /\ ctrl_stack = << >> => ~TouchesFrame(ins)
    BY DEF Decode, TInv, TypeOK
  <1>7. IndexOk(ins)
    BY <1>6 DEF Valid
  <1>8. Operands(ins) # << >> => ctrl_stack # << >>
    BY <1>6, <1>7 DEF TouchesFrame
  <1>9. Imm \in Nat
    BY DEF Imm, TInv, TypeOK
  <1> QED BY <1>4, <1>5, <1>6, <1>7, <1>8, <1>9

\* Only checks of the published algorithm are recorded.
LEMMA SkipType ==
  ASSUME TInv, NEW checks \in SUBSET SpecChecks, Skip(checks)
  PROVE  skipped' \subseteq SpecChecks
  BY DEF TInv, TypeOK, Skip, SpecChecks

----------------------------------------------------------------------------
(***************************************************************************)
(* What every callback does to the types, the heights and the layout of    *)
(* the jump table.                                                         *)
(***************************************************************************)
Addr(ins) == IF ins.op = "br_table" THEN offset + Size(ins) ELSE offset + 1

StepShape(ins) ==
  /\ val_stack' \in Seq(StackTypes)
  /\ ctrl_stack' \in Seq(Frames)
  /\ jt' \in Seq(Slots)
  /\ stack_size_max' \in Nat
  /\ skipped' \subseteq SpecChecks
  /\ Heights'
  /\ Len(jt') = Len(jt) + SlotCount(ins)
  /\ \A s \in 1..Len(jt) : jt'[s].pc = jt[s].pc
  /\ \A s \in (Len(jt) + 1)..Len(jt') :
       /\ jt'[s].pc = Addr(ins) /\ jt'[s].target_offset = 0
  /\ \A s \in 1..Len(jt') : jt'[s].next_idx = JUMP_TABLE_IDX_INVALID

\* A step that keeps the frames' heights and leaves the stack above them keeps
\* Heights.
LEMMA SameHeights ==
  ASSUME TInv, SameFrames(ctrl_stack, ctrl_stack'), val_stack' \in Seq(StackTypes),
         \A p \in 1..Len(ctrl_stack) : ctrl_stack[p].height <= Len(val_stack')
  PROVE  Heights' /\ ctrl_stack' \in Seq(Frames)
  BY DEF TInv, Heights, SameFrames

\* Pushing a frame at the height of the stack keeps Heights (push_ctrl).
LEMMA PushHeights ==
  ASSUME TInv, NEW cs \in Seq(Frames), NEW fr \in Frames,
         Len(cs) <= Len(ctrl_stack),
         \A p \in 1..Len(cs) : /\ cs[p].height = ctrl_stack[p].height
                               /\ cs[p].height <= fr.height,
         ctrl_stack' = Append(cs, fr),
         val_stack' \in Seq(StackTypes), fr.height <= Len(val_stack')
  PROVE  Heights' /\ ctrl_stack' \in Seq(Frames)
  <1>1. \A p \in 1..Len(ctrl_stack) : ctrl_stack[p] \in Frames
    BY DEF TInv, TypeOK
  <1>2. /\ \A p \in 1..Len(ctrl_stack) : ctrl_stack[p].height \in Nat
        /\ fr.height \in Nat
    BY <1>1 DEF Frames
  <1>3. /\ ctrl_stack' \in Seq(Frames)
        /\ Len(ctrl_stack') = Len(cs) + 1
        /\ \A p \in 1..(Len(cs) + 1) :
             ctrl_stack'[p].height = IF p = Len(cs) + 1 THEN fr.height
                                     ELSE ctrl_stack[p].height
    OBVIOUS
  <1>4. \A p, q \in 1..Len(ctrl_stack) :
          p <= q => ctrl_stack[p].height <= ctrl_stack[q].height
    BY DEF TInv, Heights
  <1>5. Len(val_stack') \in Nat /\ Len(cs) \in Nat /\ Len(ctrl_stack) \in Nat
    BY DEF TInv, TypeOK
  <1> HIDE DEF TInv
  <1>6. ASSUME NEW p \in 1..Len(ctrl_stack')
        PROVE  ctrl_stack'[p].height <= Len(val_stack')
    <2>1. CASE p = Len(cs) + 1
      BY <2>1, <1>3
    <2>2. CASE p # Len(cs) + 1
      <3>1. p \in 1..Len(cs) /\ p \in 1..Len(ctrl_stack)
        BY <2>2, <1>3, <1>5
      <3>2. ctrl_stack'[p].height = cs[p].height /\ cs[p].height <= fr.height
        BY <2>2, <3>1, <1>3
      <3>3. cs[p].height \in Nat
        BY <3>1, <1>2
      <3> QED BY <3>2, <3>3, <1>2, <1>5
    <2> QED BY <2>1, <2>2
  <1>7. \A p, q \in 1..Len(ctrl_stack') :
          p <= q => ctrl_stack'[p].height <= ctrl_stack'[q].height
    BY <1>2, <1>3, <1>4, <1>5
  <1> QED BY <1>3, <1>6, <1>7 DEF Heights

\* A callback that leaves the jump table alone keeps its shape.
LEMMA SameTable ==
  ASSUME TInv, NEW ins, Decode(ins), jt' = jt, SlotCount(ins) = 0
  PROVE  /\ jt' \in Seq(Slots)
         /\ Len(jt') = Len(jt) + SlotCount(ins)
         /\ \A s \in 1..Len(jt) : jt'[s].pc = jt[s].pc
         /\ \A s \in (Len(jt) + 1)..Len(jt') :
              /\ jt'[s].pc = Addr(ins) /\ jt'[s].target_offset = 0
         /\ \A s \in 1..Len(jt') : jt'[s].next_idx = JUMP_TABLE_IDX_INVALID
  <1>1. phase = "decode"
    BY DEF Decode
  <1> QED BY <1>1 DEF TInv, TypeOK, Fresh

\* unreachable, br, br_table and return cut the stack to the innermost frame,
\* and so keep Heights.
LEMMA CutHeights ==
  ASSUME TInv, ctrl_stack # << >>, val_stack' = SubSeq(val_stack, 1, Top.height),
         SameFrames(ctrl_stack, ctrl_stack')
  PROVE  Heights' /\ ctrl_stack' \in Seq(Frames) /\ val_stack' \in Seq(StackTypes)
  <1>1. /\ Top.height \in 0..Len(val_stack)
        /\ Len(ctrl_stack) \in 1..Len(ctrl_stack)
    BY TopFrame
  <1>2. val_stack' \in Seq(StackTypes) /\ Len(val_stack') = Top.height
    BY <1>1, CutType DEF TInv, TypeOK
  <1>3. \A p \in 1..Len(ctrl_stack) : ctrl_stack[p].height <= Len(val_stack')
    BY <1>1, <1>2 DEF TInv, Heights, Top
  <1> QED BY <1>2, <1>3, SameHeights

\* on_unreachable and on_return.
LEMMA UnreachableShape ==
  ASSUME TInv, NEW ins \in Instrs, on_unreachable(ins) \/ on_return(ins)
  PROVE  StepShape(ins)
  <1>1. Decode(ins) /\ ins.op \in {"unreachable", "return"}
    BY DEF on_unreachable, on_return
  <1>2. ctrl_stack # << >>
    BY <1>1 DEF Decode, TouchesFrame
  <1>3. /\ val_stack' = SubSeq(val_stack, 1, Top.height)
        /\ ctrl_stack' = Unreachable(ctrl_stack)
        /\ Skip({}) /\ jt' = jt /\ stack_size_max' = stack_size_max
    BY DEF on_unreachable, on_return
  <1>4. SameFrames(ctrl_stack, ctrl_stack')
    BY <1>2, <1>3, UnreachableFrames DEF TInv, TypeOK
  <1>5. Heights' /\ ctrl_stack' \in Seq(Frames) /\ val_stack' \in Seq(StackTypes)
    BY <1>2, <1>3, <1>4, CutHeights
  <1>6. skipped' \subseteq SpecChecks /\ stack_size_max' \in Nat
    BY <1>3, SkipType DEF TInv, TypeOK
  <1>7. SlotCount(ins) = 0
    BY <1>1 DEF SlotCount, JumpOps
  <1> QED BY <1>1, <1>3, <1>5, <1>6, <1>7, SameTable DEF StepShape

\* nop, which has no callback.
LEMMA NopShape ==
  ASSUME TInv, NEW ins \in Instrs, on_nop(ins)
  PROVE  StepShape(ins)
  <1>1. SlotCount(ins) = 0
    BY DEF on_nop, SlotCount, JumpOps
  <1>2. /\ val_stack' = val_stack /\ ctrl_stack' = ctrl_stack /\ jt' = jt
        /\ stack_size_max' = stack_size_max /\ Skip({}) /\ Decode(ins)
    BY DEF on_nop
  <1>3. Heights'
    BY <1>2 DEF TInv, Heights
  <1> QED BY <1>1, <1>2, <1>3, SkipType, SameTable DEF StepShape, TInv, TypeOK

\* What a data instruction pushes are types.
LEMMA PushesType ==
  ASSUME TInv, NEW ins \in Instrs, IndexOk(ins), ins.op \in LocalOps \cup DataOps,
         ins.op = "select" => ctrl_stack # << >>
  PROVE  Pushes(ins) \in Seq(StackTypes)
  <1>1. CASE ins.op \in LocalOps
    <2>1. LocalTypes \in Seq(ValTypes)
      BY LocalTypesType
    <2>2. ins.idx + 1 \in 1..Len(LocalTypes)
      BY <1>1, <2>1, InstrsAssumption DEF IndexOk
    <2>3. LocalTypes[ins.idx + 1] \in StackTypes
      BY <2>1, <2>2, TypeNames
    <2> QED BY <1>1, <2>3 DEF Pushes, LocalOps
  <1>2. CASE ins.op = "select"
    <2>1. Top.height \in 0..Len(val_stack) /\ val_stack \in Seq(StackTypes)
      BY <1>2, TopFrame DEF TInv, TypeOK
    <2>2. Peek(1) \in StackTypes /\ Peek(2) \in StackTypes
      BY <2>1, TypeNames DEF Peek
    <2> QED BY <1>2, <2>2 DEF Pushes
  <1>3. CASE ins.op \in DataOps \ {"select"}
    <2>1. Pushes(ins) = Sig(ins).push
      BY <1>3 DEF Pushes, DataOps
    <2> QED BY <2>1, SigType DEF Signatures
  <1> QED BY <1>1, <1>2, <1>3

\* Pushing a sequence of types.
LEMMA ConcatType ==
  ASSUME NEW a \in Seq(StackTypes), NEW b \in Seq(StackTypes)
  PROVE  a \o b \in Seq(StackTypes) /\ Len(a \o b) = Len(a) + Len(b)
         /\ Len(a) \in Nat /\ Len(b) \in Nat
  OBVIOUS

\* Replacing the operands by other values keeps Heights.
LEMMA ReplaceShape ==
  ASSUME TInv, NEW vs \in Seq(StackTypes), NEW ws \in Seq(StackTypes),
         \A p \in 1..Len(ctrl_stack) : ctrl_stack[p].height <= Len(vs),
         val_stack' = vs \o ws, ctrl_stack' = ctrl_stack
  PROVE  /\ val_stack' \in Seq(StackTypes) /\ ctrl_stack' \in Seq(Frames)
         /\ Heights' /\ Len(val_stack') \in Nat
  <1>1. val_stack' \in Seq(StackTypes) /\ Len(val_stack') = Len(vs) + Len(ws)
        /\ Len(vs) \in Nat /\ Len(ws) \in Nat
    BY ConcatType
  <1>2. \A p \in 1..Len(ctrl_stack) : ctrl_stack[p] \in Frames
    BY DEF TInv, TypeOK
  <1>3. \A p \in 1..Len(ctrl_stack) : ctrl_stack[p].height <= Len(val_stack')
    BY <1>1, <1>2 DEF Frames
  <1>4. SameFrames(ctrl_stack, ctrl_stack')
    BY DEF SameFrames, TInv, TypeOK
  <1> QED BY <1>1, <1>3, <1>4, SameHeights

\* The callbacks of the locals' and the data instructions.
LEMMA DataShape ==
  ASSUME TInv, NEW ins \in Instrs, on_data(ins)
  PROVE  StepShape(ins)
  <1>1. /\ ins.op \in LocalOps \cup DataOps /\ Decode(ins)
        /\ val_stack' = AfterOperands(ins) \o Pushes(ins)
        /\ stack_size_max' = Raise(Len(val_stack'))
        /\ ctrl_stack' = ctrl_stack /\ jt' = jt
        /\ Skip(IF ins.op \in EntityOps /\ ~ins.there THEN {"no_memory"} ELSE {})
    BY DEF on_data
  <1>2. IndexOk(ins) /\ (Operands(ins) # << >> => ctrl_stack # << >>)
    BY <1>1, DecodeType
  <1>3. ins.op = "select" => ctrl_stack # << >>
    BY <1>2 DEF Operands, DataOps
  <1>4. /\ AfterOperands(ins) \in Seq(StackTypes) /\ Pushes(ins) \in Seq(StackTypes)
        /\ \A p \in 1..Len(ctrl_stack) : ctrl_stack[p].height <= Len(AfterOperands(ins))
    BY <1>1, <1>2, <1>3, AfterOperandsType, PushesType
  <1>5. /\ val_stack' \in Seq(StackTypes) /\ ctrl_stack' \in Seq(Frames)
        /\ Heights' /\ Len(val_stack') \in Nat
    BY <1>1, <1>4, ReplaceShape
  <1>6. SlotCount(ins) = 0
    BY <1>1 DEF SlotCount, JumpOps, LocalOps, DataOps
  <1>7. skipped' \subseteq SpecChecks
    BY <1>1, SkipType DEF SpecChecks
  <1> QED BY <1>1, <1>5, <1>6, <1>7, RaiseType, SameTable DEF StepShape

\* on_call.
LEMMA CallShape ==
  ASSUME TInv, NEW ins \in Instrs, on_call(ins)
  PROVE  StepShape(ins)
  <1> DEFINE fn == Callees[ins.fn + 1]
             vs == AfterOperands(ins)
             required == Len(vs) + DeclaredLocals(fn)
             pushed   == Len(vs) + Len(fn.type.results)
  <1>1. /\ ins.op = "call" /\ Decode(ins)
        /\ val_stack' = vs \o fn.type.results
        /\ stack_size_max' = Raise(IF required > pushed THEN required ELSE pushed)
        /\ ctrl_stack' = ctrl_stack /\ jt' = jt
        /\ Skip({})
    BY DEF on_call
  <1>2. IndexOk(ins) /\ (Operands(ins) # << >> => ctrl_stack # << >>)
    BY <1>1, DecodeType
  <1>3. ins.fn + 1 \in 1..Len(Callees)
    <2>1. ins.fn < Len(Callees)
      BY <1>1, <1>2 DEF IndexOk
    <2>2. ins.fn \in Nat
      BY <1>1, InstrsAssumption
    <2>3. Len(Callees) \in Nat
      BY CalleesAssumption
    <2> QED BY <2>1, <2>2, <2>3
  <1>4. fn.type \in FuncTypes /\ fn.local_count \in Nat
    BY <1>3, CalleeType
  <1>5. fn.type.results \in Seq(StackTypes)
    BY <1>4, TypeNames DEF FuncTypes
  <1>6. /\ vs \in Seq(StackTypes)
        /\ \A p \in 1..Len(ctrl_stack) : ctrl_stack[p].height <= Len(vs)
    BY <1>2, AfterOperandsType
  <1> HIDE DEF vs
  <1>7. /\ val_stack' \in Seq(StackTypes) /\ ctrl_stack' \in Seq(Frames)
        /\ Heights' /\ Len(val_stack') \in Nat
    BY <1>1, <1>5, <1>6, ReplaceShape
  <1>8. SlotCount(ins) = 0
    BY <1>1 DEF SlotCount, JumpOps
  <1>9. (IF required > pushed THEN required ELSE pushed) \in Nat
    <2>1. Len(vs) \in Nat /\ Len(fn.type.results) \in Nat
      BY <1>5, <1>6
    <2>2. DeclaredLocals(fn) \in Nat
      BY <1>4, Zenon DEF DeclaredLocals
    <2>3. required \in Nat /\ pushed \in Nat
      BY <2>1, <2>2
    <2> HIDE DEF required, pushed
    <2> QED BY <2>3
  <1>10. stack_size_max' \in Nat
    BY <1>1, <1>9, RaiseType
  <1> QED BY <1>1, <1>7, <1>8, <1>10, SkipType, SameTable DEF StepShape

\* Appending a slot to the jump table, some of whose targets were set before.
LEMMA AppendSlot ==
  ASSUME TInv, NEW ins \in Instrs, Decode(ins),
         NEW t \in Seq(Slots), Len(t) = Len(jt),
         \A s \in 1..Len(jt) : t[s].pc = jt[s].pc /\ t[s].next_idx = jt[s].next_idx,
         NEW so \in Int, NEW n \in Nat,
         jt' = Append(t, NewSlot(Imm, so, n)), SlotCount(ins) = 1,
         ins.op # "br_table"
  PROVE  /\ jt' \in Seq(Slots)
         /\ Len(jt') = Len(jt) + SlotCount(ins)
         /\ \A s \in 1..Len(jt) : jt'[s] = t[s] /\ jt'[s].pc = jt[s].pc
         /\ \A s \in (Len(jt) + 1)..Len(jt') :
              /\ jt'[s].pc = Addr(ins) /\ jt'[s].target_offset = 0
         /\ \A s \in 1..Len(jt') : jt'[s].next_idx = JUMP_TABLE_IDX_INVALID
  <1> DEFINE new == NewSlot(Imm, so, n)
  <1>1. /\ new \in Slots /\ new.pc = Imm /\ new.next_idx = JUMP_TABLE_IDX_INVALID
        /\ new.target_offset = 0
    BY DecodeType, NewSlotType, ZenonT(60)
  <1>2. Addr(ins) = Imm
    BY DEF Addr, Imm
  <1>3. \A s \in 1..Len(jt) : jt[s].next_idx = JUMP_TABLE_IDX_INVALID
    BY DEF TInv, Fresh, Decode
  <1>4. Len(jt) \in Nat
    BY DEF TInv, TypeOK
  <1> HIDE DEF new
  <1>5. jt' = Append(t, new)
    BY DEF new
  <1> QED BY <1>1, <1>2, <1>3, <1>4, <1>5

\* on_block, for block, loop and if.
LEMMA BlockShape ==
  ASSUME TInv, NEW ins \in Instrs, on_block(ins)
  PROVE  StepShape(ins)
  <1> DEFINE vs == AfterOperands(ins)
             fr == NewFrame(ins.op, ins.type, Len(vs),
                            IF ins.op = "loop" THEN Imm + 1 ELSE 0)
             new == IF ins.op = "if"
                      THEN [fr EXCEPT !.pending_jt_slots = {Len(jt)}] ELSE fr
  <1>1. /\ ins.op \in {"block", "loop", "if"} /\ Decode(ins)
        /\ val_stack' = vs \o ins.type.params
        /\ stack_size_max' = Raise(Len(val_stack')) /\ Skip({})
        /\ ctrl_stack' = Append(ctrl_stack, new)
        /\ jt' = IF ins.op = "if" THEN Append(jt, NewSlot(Imm, 0, 0)) ELSE jt
    BY DEF on_block
  <1>2. /\ IndexOk(ins) /\ (Operands(ins) # << >> => ctrl_stack # << >>)
        /\ Imm \in Nat
    BY <1>1, DecodeType
  <1>3. ins.type.params \in Seq(ValTypes) /\ ins.type.results \in Seq(ValTypes)
    BY <1>1, InstrsAssumption DEF FuncTypes
  <1>4. ins.type.params \in Seq(StackTypes)
    BY <1>3, TypeNames
  <1>5. /\ vs \in Seq(StackTypes)
        /\ \A p \in 1..Len(ctrl_stack) : ctrl_stack[p].height <= Len(vs)
    BY <1>2, AfterOperandsType
  <1> HIDE DEF vs
  <1>6. fr \in Frames /\ fr.height = Len(vs)
    BY <1>1, <1>2, <1>3, <1>5 DEF NewFrame, Frames
  <1>7. new \in Frames /\ new.height = Len(vs)
    <2>1. {Len(jt)} \in SUBSET Nat
      BY DEF TInv, TypeOK
    <2> HIDE DEF fr
    <2> QED BY <1>6, <2>1, FrameUpdate
  <1>8. /\ val_stack' \in Seq(StackTypes)
        /\ Len(val_stack') = Len(vs) + Len(ins.type.params)
        /\ Len(vs) \in Nat /\ Len(ins.type.params) \in Nat
    BY <1>1, <1>4, <1>5, ConcatType
  <1> HIDE DEF new
  <1>9. Heights' /\ ctrl_stack' \in Seq(Frames)
    <2>1. ctrl_stack \in Seq(Frames) /\ Len(ctrl_stack) <= Len(ctrl_stack)
      BY DEF TInv, TypeOK
    <2>2. new.height <= Len(val_stack')
      BY <1>7, <1>8
    <2>3. \A p \in 1..Len(ctrl_stack) : ctrl_stack[p].height <= new.height
      BY <1>5, <1>7
    <2> QED BY <1>1, <1>7, <1>8, <2>1, <2>2, <2>3, PushHeights
  <1>10. stack_size_max' \in Nat /\ skipped' \subseteq SpecChecks
    <2>1. Len(val_stack') \in Nat
      BY <1>8
    <2>2. stack_size_max' \in Nat
      BY <1>1, <2>1, RaiseType
    <2> QED BY <1>1, <2>2, SkipType
  <1>11. /\ jt' \in Seq(Slots)
         /\ Len(jt') = Len(jt) + SlotCount(ins)
         /\ \A s \in 1..Len(jt) : jt'[s].pc = jt[s].pc
         /\ \A s \in (Len(jt) + 1)..Len(jt') :
              /\ jt'[s].pc = Addr(ins) /\ jt'[s].target_offset = 0
         /\ \A s \in 1..Len(jt') : jt'[s].next_idx = JUMP_TABLE_IDX_INVALID
    <2>1. CASE ins.op = "if"
      <3>1. SlotCount(ins) = 1 /\ ins.op # "br_table"
        BY <2>1 DEF SlotCount, JumpOps
      <3>2. jt \in Seq(Slots)
        BY DEF TInv, TypeOK
      <3>3. PICK so \in Int, n \in Nat : jt' = Append(jt, NewSlot(Imm, so, n))
        BY <1>1, <2>1
      <3> QED BY <1>1, <3>1, <3>2, <3>3, AppendSlot
    <2>2. CASE ins.op # "if"
      <3>1. SlotCount(ins) = 0
        BY <1>1, <2>2 DEF SlotCount, JumpOps
      <3>2. jt' = jt /\ Decode(ins)
        BY <1>1, <2>2
      <3> QED BY <3>1, <3>2, SameTable
    <2> QED BY <2>1, <2>2
  <1> QED BY <1>8, <1>9, <1>10, <1>11 DEF StepShape

\* vec_pop of the innermost frame.
LEMMA PopFrameType ==
  ASSUME TInv, ctrl_stack # << >>
  PROVE  /\ PopFrame(ctrl_stack) \in Seq(Frames)
         /\ Len(PopFrame(ctrl_stack)) = Len(ctrl_stack) - 1
         /\ \A p \in 1..(Len(ctrl_stack) - 1) : PopFrame(ctrl_stack)[p] = ctrl_stack[p]
         /\ \A p \in 1..Len(ctrl_stack) :
              /\ ctrl_stack[p] \in Frames
              /\ ctrl_stack[p].height \in Nat
              /\ ctrl_stack[p].height <= Top.height
  <1>1. ctrl_stack \in Seq(Frames) /\ Len(ctrl_stack) \in 1..Len(ctrl_stack)
    BY TopFrame DEF TInv, TypeOK
  <1>2. \A p \in 1..Len(ctrl_stack) : ctrl_stack[p] \in Frames
    BY <1>1
  <1>3. \A p \in 1..Len(ctrl_stack) : ctrl_stack[p].height \in Nat
    BY <1>2 DEF Frames
  <1>4. \A p \in 1..Len(ctrl_stack) : ctrl_stack[p].height <= Top.height
    BY <1>1 DEF TInv, Heights, Top
  <1>5. /\ PopFrame(ctrl_stack) \in Seq(Frames)
        /\ Len(PopFrame(ctrl_stack)) = Len(ctrl_stack) - 1
        /\ \A p \in 1..(Len(ctrl_stack) - 1) : PopFrame(ctrl_stack)[p] = ctrl_stack[p]
    <2> DEFINE m == Len(ctrl_stack) - 1
    <2>1. m \in Nat /\ m <= Len(ctrl_stack)
      BY <1>1
    <2>2. \A i \in 1..m : ctrl_stack[i] \in Frames
      BY <1>1, <1>2, <2>1
    <2> HIDE DEF m
    <2>3. /\ SubSeq(ctrl_stack, 1, m) \in Seq(Frames)
          /\ Len(SubSeq(ctrl_stack, 1, m)) = m
          /\ \A i \in 1..m : SubSeq(ctrl_stack, 1, m)[i] = ctrl_stack[i]
      BY <1>1, <2>1, <2>2, SubSeqProperties
    <2> QED BY <2>3 DEF PopFrame, m
  <1> QED BY <1>2, <1>3, <1>4, <1>5

\* on_else.
LEMMA ElseShape ==
  ASSUME TInv, NEW ins \in Instrs, on_else(ins)
  PROVE  StepShape(ins)
  <1> DEFINE ft == [params |-> Top.start_types, results |-> Top.end_types]
             fr == NewFrame("else", ft, Len(AfterPopCtrl), 0)
             if_slot == Min(Top.pending_jt_slots)
             t == Resolve(jt, {if_slot}, Imm)
             S == (Top.pending_jt_slots \ {if_slot}) \cup {Len(jt)}
             new == [fr EXCEPT !.pending_jt_slots = S]
             so == Len(Top.start_types) - Len(Top.end_types)
  <1>1. /\ ins.op = "else" /\ Decode(ins)
        /\ val_stack' = AfterPopCtrl \o Top.start_types
        /\ jt' = Append(t, NewSlot(Imm, so, Len(Top.end_types)))
        /\ ctrl_stack' = Append(PopFrame(ctrl_stack), new)
        /\ stack_size_max' = Raise(Len(val_stack'))
        /\ Skip(Leftover)
    BY DEF on_else
  <1>2. ctrl_stack # << >>
    BY <1>1 DEF Decode, TouchesFrame
  <1>3. Imm \in Nat
    BY <1>1, DecodeType
  <1>4. /\ Top \in Frames /\ Top.start_types \in Seq(ValTypes)
        /\ Top.end_types \in Seq(ValTypes) /\ Top.start_types \in Seq(StackTypes)
        /\ Top.height \in Nat
    BY <1>2, TopFrame
  <1>5. /\ AfterPopCtrl \in Seq(StackTypes) /\ Top.height <= Len(AfterPopCtrl)
        /\ Leftover \subseteq SpecChecks
    BY <1>2, AfterPopCtrlType
  <1>6. fr \in Frames /\ fr.height = Len(AfterPopCtrl)
    BY <1>4, <1>5 DEF NewFrame, Frames
  <1>7. S \in SUBSET Nat
    <2>1. Top.pending_jt_slots \in SUBSET Nat
      BY <1>4 DEF Frames
    <2>2. Len(jt) \in Nat
      BY DEF TInv, TypeOK
    <2> HIDE DEF if_slot
    <2> QED BY <2>1, <2>2
  <1>8. new \in Frames /\ new.height = Len(AfterPopCtrl)
    <2> HIDE DEF fr, S
    <2> QED BY <1>6, <1>7, FrameUpdate
  <1>9. /\ val_stack' \in Seq(StackTypes)
        /\ Len(val_stack') = Len(AfterPopCtrl) + Len(Top.start_types)
        /\ Len(AfterPopCtrl) \in Nat /\ Len(Top.start_types) \in Nat
    BY <1>1, <1>4, <1>5, ConcatType
  <1>10. stack_size_max' \in Nat /\ skipped' \subseteq SpecChecks
    <2>1. Len(val_stack') \in Nat
      BY <1>9
    <2>2. stack_size_max' \in Nat
      BY <1>1, <2>1, RaiseType
    <2> QED BY <1>1, <1>5, <2>2, SkipType
  <1> HIDE DEF new
  <1>11. Heights' /\ ctrl_stack' \in Seq(Frames)
    <2> DEFINE cs == PopFrame(ctrl_stack)
    <2>1. /\ cs \in Seq(Frames) /\ Len(cs) = Len(ctrl_stack) - 1
          /\ \A p \in 1..(Len(ctrl_stack) - 1) : cs[p] = ctrl_stack[p]
          /\ \A p \in 1..Len(ctrl_stack) : /\ ctrl_stack[p].height \in Nat
                                           /\ ctrl_stack[p].height <= Top.height
      BY <1>2, PopFrameType
    <2>2. Len(ctrl_stack) \in Nat
      BY DEF TInv, TypeOK
    <2> HIDE DEF cs
    <2>3. /\ Len(cs) <= Len(ctrl_stack)
          /\ \A p \in 1..Len(cs) : /\ cs[p].height = ctrl_stack[p].height
                                   /\ cs[p].height <= new.height
      <3>1. Top.height <= new.height /\ Top.height \in Nat /\ new.height \in Nat
        BY <1>4, <1>5, <1>8, <1>9
      <3>2. \A p \in 1..Len(cs) : p \in 1..Len(ctrl_stack) /\ cs[p] = ctrl_stack[p]
        BY <2>1, <2>2
      <3>3. Len(cs) <= Len(ctrl_stack)
        BY <2>1, <2>2
      <3>4. \A p \in 1..Len(ctrl_stack) : /\ ctrl_stack[p].height \in Nat
                                          /\ ctrl_stack[p].height <= Top.height
        BY <2>1
      <3>5. \A p \in 1..Len(ctrl_stack) : ctrl_stack[p].height <= new.height
        BY <3>1, <3>4
      <3> QED BY <3>2, <3>3, <3>5
    <2>4. ctrl_stack' = Append(cs, new)
      BY <1>1 DEF cs
    <2>5. new.height <= Len(val_stack')
      BY <1>8, <1>9
    <2> QED BY <1>8, <1>9, <2>1, <2>3, <2>4, <2>5, PushHeights
  <1>12. /\ t \in Seq(Slots) /\ Len(t) = Len(jt)
         /\ \A s \in 1..Len(jt) : t[s].pc = jt[s].pc /\ t[s].next_idx = jt[s].next_idx
    <2>1. jt \in Seq(Slots) /\ Imm \in Int
      BY <1>3 DEF TInv, TypeOK
    <2> QED BY <2>1, Resolved
  <1>13. SlotCount(ins) = 1 /\ ins.op # "br_table"
    BY <1>1 DEF SlotCount, JumpOps
  <1>14. so \in Int /\ Len(Top.end_types) \in Nat
    BY <1>4
  <1> HIDE DEF t, so
  <1> QED BY <1>1, <1>9, <1>10, <1>11, <1>12, <1>13, <1>14, AppendSlot DEF StepShape

\* The address that the branches to a frame jump to is an address.
LEMMA EndTargetType ==
  ASSUME TInv, NEW cf \in Frames
  PROVE  EndTarget(cf) \in Nat
  BY DEF EndTarget, TInv, TypeOK, Frames, Imm

\* on_end.
LEMMA EndShape ==
  ASSUME TInv, NEW ins \in Instrs, on_end(ins)
  PROVE  StepShape(ins)
  <1> DEFINE checks == Leftover \cup
                 IF Top.type = "if" /\ Top.start_types # Top.end_types
                   THEN {"no_else"} ELSE {}
  <1>1. /\ ins.op = "end" /\ Decode(ins)
        /\ jt' = Resolve(jt, Top.pending_jt_slots, EndTarget(Top))
        /\ val_stack' = AfterPopCtrl \o Top.end_types
        /\ ctrl_stack' = PopFrame(ctrl_stack)
        /\ stack_size_max' = Raise(Len(val_stack'))
        /\ Skip(checks)
    BY DEF on_end
  <1>2. ctrl_stack # << >>
    BY <1>1 DEF Decode, Valid
  <1>3. Top \in Frames /\ Top.end_types \in Seq(StackTypes) /\ Top.height \in Nat
    BY <1>2, TopFrame
  <1>4. /\ AfterPopCtrl \in Seq(StackTypes) /\ Top.height <= Len(AfterPopCtrl)
        /\ Leftover \subseteq SpecChecks
    BY <1>2, AfterPopCtrlType
  <1>5. checks \in SUBSET SpecChecks
    BY <1>4 DEF SpecChecks
  <1>6. /\ val_stack' \in Seq(StackTypes)
        /\ Len(val_stack') = Len(AfterPopCtrl) + Len(Top.end_types)
        /\ Len(AfterPopCtrl) \in Nat /\ Len(Top.end_types) \in Nat
    BY <1>1, <1>3, <1>4, ConcatType
  <1>7. stack_size_max' \in Nat /\ skipped' \subseteq SpecChecks
    <2> HIDE DEF checks
    <2>1. Len(val_stack') \in Nat
      BY <1>6
    <2>2. stack_size_max' \in Nat
      BY <1>1, <2>1, RaiseType
    <2> QED BY <1>1, <1>5, <2>2, SkipType
  <1>8. Heights' /\ ctrl_stack' \in Seq(Frames)
    <2>1. /\ ctrl_stack' \in Seq(Frames) /\ Len(ctrl_stack') = Len(ctrl_stack) - 1
          /\ \A p \in 1..(Len(ctrl_stack) - 1) : ctrl_stack'[p] = ctrl_stack[p]
          /\ \A p \in 1..Len(ctrl_stack) : /\ ctrl_stack[p].height \in Nat
                                           /\ ctrl_stack[p].height <= Top.height
      BY <1>1, <1>2, PopFrameType
    <2>2. Len(ctrl_stack) \in Nat
      BY DEF TInv, TypeOK
    <2>3. \A p, q \in 1..Len(ctrl_stack) :
            p <= q => ctrl_stack[p].height <= ctrl_stack[q].height
      BY DEF TInv, Heights
    <2>4. \A p \in 1..Len(ctrl_stack') : ctrl_stack'[p].height <= Len(val_stack')
      <3>1. \A p \in 1..Len(ctrl_stack') : /\ p \in 1..Len(ctrl_stack)
                                           /\ ctrl_stack'[p] = ctrl_stack[p]
        BY <2>1, <2>2
      <3>2. Top.height <= Len(val_stack') /\ Top.height \in Nat /\ Len(val_stack') \in Nat
        BY <1>3, <1>4, <1>6
      <3> QED BY <2>1, <3>1, <3>2
    <2>5. \A p, q \in 1..Len(ctrl_stack') :
            p <= q => ctrl_stack'[p].height <= ctrl_stack'[q].height
      <3> TAKE p, q \in 1..Len(ctrl_stack')
      <3>1. p \in 1..(Len(ctrl_stack) - 1) /\ q \in 1..(Len(ctrl_stack) - 1)
        BY <2>1
      <3>2. p \in 1..Len(ctrl_stack) /\ q \in 1..Len(ctrl_stack)
        BY <2>2, <3>1
      <3> QED BY <2>1, <2>3, <3>1, <3>2
    <2> QED BY <2>1, <2>4, <2>5 DEF Heights
  <1>9. /\ jt' \in Seq(Slots) /\ Len(jt') = Len(jt)
        /\ \A s \in 1..Len(jt) : jt'[s].pc = jt[s].pc /\ jt'[s].next_idx = jt[s].next_idx
    <2>1. jt \in Seq(Slots) /\ EndTarget(Top) \in Int
      BY <1>3, EndTargetType DEF TInv, TypeOK
    <2> QED BY <1>1, <2>1, Resolved
  <1>10. SlotCount(ins) = 0
    BY <1>1 DEF SlotCount, JumpOps
  <1>11. /\ \A s \in 1..Len(jt) : jt[s].next_idx = JUMP_TABLE_IDX_INVALID
         /\ Len(jt) \in Nat
    BY <1>1 DEF TInv, Fresh, TypeOK, Decode
  <1>12. /\ Len(jt') = Len(jt) + SlotCount(ins)
         /\ \A s \in (Len(jt) + 1)..Len(jt') :
              /\ jt'[s].pc = Addr(ins) /\ jt'[s].target_offset = 0
    BY <1>9, <1>10, <1>11
  <1>13. \A s \in 1..Len(jt') : jt'[s].next_idx = JUMP_TABLE_IDX_INVALID
    BY <1>9, <1>11
  <1> QED BY <1>6, <1>7, <1>8, <1>9, <1>12, <1>13 DEF StepShape

\* The frame that a label names.
LEMMA LabelType ==
  ASSUME TInv, NEW l \in Nat, l < Len(ctrl_stack)
  PROVE  /\ LabelAt(l) \in 1..Len(ctrl_stack)
         /\ LabelFrame(l) \in Frames /\ LabelFrame(l).height \in Nat
         /\ label_types(LabelFrame(l)) \in Seq(StackTypes)
         /\ label_types(LabelFrame(l)) \in Seq(Types)
  <1>1. ctrl_stack \in Seq(Frames)
    BY DEF TInv, TypeOK
  <1>2. LabelAt(l) \in 1..Len(ctrl_stack)
    BY <1>1 DEF LabelAt
  <1>3. LabelFrame(l) \in Frames
    BY <1>1, <1>2 DEF LabelFrame
  <1>4. LabelFrame(l).height \in Nat /\ label_types(LabelFrame(l)) \in Seq(ValTypes)
    BY <1>3 DEF Frames, label_types
  <1> QED BY <1>2, <1>3, <1>4, TypeNames, SeqMonotonic

\* Popping with the innermost frame as the bound.
LEMMA PopTop ==
  ASSUME TInv, ctrl_stack # << >>, NEW vs \in Seq(StackTypes),
         Top.height <= Len(vs), NEW ts \in Seq(Types)
  PROVE  /\ PopVals(vs, Top, ts) \in Seq(StackTypes)
         /\ Top.height <= Len(PopVals(vs, Top, ts))
         /\ Len(PopVals(vs, Top, ts)) \in Nat
  BY TopFrame, PopValsType

\* on_br_or_if.
LEMMA BrShape ==
  ASSUME TInv, NEW ins \in Instrs, on_br_or_if(ins)
  PROVE  StepShape(ins)
  <1> DEFINE target == LabelFrame(ins.lth)
             ts == label_types(target)
             vs == IF ins.op = "br_if"
                     THEN PopVals(val_stack, Top, <<"i32">>) ELSE val_stack
             cs == [ctrl_stack EXCEPT
                      ![LabelAt(ins.lth)].pending_jt_slots = @ \cup {Len(jt)}]
             so == Len(vs) - Len(ts) - target.height
  <1>1. /\ ins.op \in {"br", "br_if"} /\ Decode(ins)
        /\ jt' = Append(jt, NewSlot(Imm, so, Len(ts)))
        /\ ins.op = "br" => /\ val_stack' = SubSeq(val_stack, 1, Top.height)
                            /\ ctrl_stack' = Unreachable(cs)
        /\ ins.op = "br_if" => /\ val_stack' = PopVals(vs, Top, ts) \o ts
                               /\ ctrl_stack' = cs
        /\ stack_size_max' = Raise(Len(val_stack'))
        /\ Skip({})
    BY DEF on_br_or_if
  <1>2. IndexOk(ins)
    BY <1>1, DecodeType
  <1>3. ins.lth \in Nat /\ ins.lth < Len(ctrl_stack)
    BY <1>1, <1>2, InstrsAssumption DEF IndexOk
  <1>4. /\ ctrl_stack \in Seq(Frames) /\ val_stack \in Seq(StackTypes)
        /\ jt \in Seq(Slots) /\ Len(jt) \in Nat /\ Len(ctrl_stack) \in Nat
    BY DEF TInv, TypeOK
  <1>5. ctrl_stack # << >>
    BY <1>3, <1>4
  <1>6. /\ LabelAt(ins.lth) \in 1..Len(ctrl_stack)
        /\ target.height \in Nat /\ ts \in Seq(StackTypes) /\ ts \in Seq(Types)
    BY <1>3, LabelType
  <1>7. SameFrames(ctrl_stack, cs)
    BY <1>4, <1>6, PendingFrames
  <1>8. Top.height \in 0..Len(val_stack)
    BY <1>5, TopFrame
  <1>9. vs \in Seq(StackTypes) /\ Top.height <= Len(vs)
    <2>1. <<"i32">> \in Seq(Types)
      BY TypeNames
    <2>2. Top.height <= Len(val_stack)
      BY <1>4, <1>8
    <2> QED BY <1>4, <1>5, <2>1, <2>2, PopTop
  <1>10. so \in Int /\ Len(ts) \in Nat
    <2> DEFINE h == target.height
    <2>1. Len(ts) \in Nat /\ Len(vs) \in Nat /\ h \in Nat
      <3> HIDE DEF vs, ts
      <3> QED BY <1>6, <1>9
    <2>2. so = Len(vs) - Len(ts) - h
      OBVIOUS
    <2> HIDE DEF vs, ts, h, so
    <2> QED BY <2>1, <2>2
  <1>11. Heights' /\ ctrl_stack' \in Seq(Frames) /\ val_stack' \in Seq(StackTypes)
    <2> HIDE DEF cs, vs, ts
    <2>1. CASE ins.op = "br"
      <3>1. cs \in Seq(Frames) /\ cs # << >>
        BY <1>4, <1>5, <1>7 DEF SameFrames
      <3>2. SameFrames(cs, Unreachable(cs))
        BY <3>1, UnreachableFrames
      <3>3. SameFrames(ctrl_stack, ctrl_stack')
        BY <1>1, <1>7, <2>1, <3>2 DEF SameFrames
      <3> QED BY <1>1, <1>5, <2>1, <3>3, CutHeights
    <2>2. CASE ins.op = "br_if"
      <3> DEFINE ws == PopVals(vs, Top, ts)
      <3>1. ws \in Seq(StackTypes) /\ Top.height <= Len(ws)
        BY <1>5, <1>6, <1>9, PopTop
      <3> HIDE DEF ws
      <3>2. val_stack' = ws \o ts
        BY <1>1, <2>2 DEF ws
      <3>3. val_stack' \in Seq(StackTypes) /\ Len(val_stack') = Len(ws) + Len(ts)
            /\ Len(ws) \in Nat /\ Len(ts) \in Nat
        BY <1>6, <3>1, <3>2, ConcatType
      <3>4. \A p \in 1..Len(ctrl_stack) : ctrl_stack[p].height <= Len(val_stack')
        BY <1>5, <1>8, <3>1, <3>3, PopFrameType
      <3>5. SameFrames(ctrl_stack, ctrl_stack')
        BY <1>1, <1>7, <2>2
      <3> QED BY <3>3, <3>4, <3>5, SameHeights
    <2> QED BY <1>1, <2>1, <2>2
  <1>12. stack_size_max' \in Nat /\ skipped' \subseteq SpecChecks
    <2>1. Len(val_stack') \in Nat
      BY <1>11
    <2>2. stack_size_max' \in Nat
      BY <1>1, <2>1, RaiseType
    <2> QED BY <1>1, <2>2, SkipType
  <1>13. SlotCount(ins) = 1 /\ ins.op # "br_table"
    BY <1>1 DEF SlotCount, JumpOps
  <1> HIDE DEF so, ts
  <1> QED BY <1>1, <1>4, <1>10, <1>11, <1>12, <1>13, AppendSlot DEF StepShape

\* Appending slots to the jump table.
LEMMA TableConcat ==
  ASSUME NEW t \in Seq(Slots), NEW ts \in Seq(Slots)
  PROVE  /\ t \o ts \in Seq(Slots) /\ Len(t \o ts) = Len(t) + Len(ts)
         /\ \A s \in 1..Len(t) : (t \o ts)[s] = t[s]
         /\ \A s \in (Len(t) + 1)..(Len(t) + Len(ts)) :
              s - Len(t) \in 1..Len(ts) /\ (t \o ts)[s] = ts[s - Len(t)]
  OBVIOUS

\* The stack offset of the slot of label i.
BrTableOffset(ins, i) ==
  LET vs    == PopVals(val_stack, Top, <<"i32">>)
      arity == Len(label_types(LabelFrame(ins.ls[1])))
      full  == IF Len(vs) < Top.height + arity THEN Top.height + arity ELSE Len(vs)
  IN  (IF i = 1 THEN Len(vs) ELSE full) - arity - LabelFrame(ins.ls[i]).height

\* on_br_table; every frame gets the slots of the labels that name it.
LEMMA BrTableShape ==
  ASSUME TInv, NEW ins \in Instrs, on_br_table(ins)
  PROVE  /\ StepShape(ins)
         /\ ctrl_stack # << >>
         /\ SameFrames(ctrl_stack, ctrl_stack')
         /\ \A s \in 1..Len(jt) : jt'[s] = jt[s]
         /\ \A s \in (Len(jt) + 1)..Len(jt') :
              /\ s - Len(jt) \in 1..Len(ins.ls)
              /\ jt'[s].stack_offset = U32(BrTableOffset(ins, s - Len(jt)))
              /\ jt'[s].arity = U16(Len(label_types(LabelFrame(ins.ls[1]))))
         /\ \A p \in 1..Len(ctrl_stack) :
              /\ ctrl_stack'[p].unreachable =
                   (p = Len(ctrl_stack) \/ ctrl_stack[p].unreachable)
              /\ ctrl_stack'[p].pending_jt_slots =
                   ctrl_stack[p].pending_jt_slots \cup
                     {Len(jt) + i - 1 : i \in
                        {n \in 1..Len(ins.ls) : LabelAt(ins.ls[n]) = p}}
         /\ \A i \in 1..Len(ins.ls) : LabelAt(ins.ls[i]) \in 1..Len(ctrl_stack)
         /\ Len(ins.ls) \in Nat
  <1> DEFINE vs    == PopVals(val_stack, Top, <<"i32">>)
             arity == Len(label_types(LabelFrame(ins.ls[1])))
             full  == IF Len(vs) < Top.height + arity
                        THEN Top.height + arity ELSE Len(vs)
             height(i) == LabelFrame(ins.ls[i]).height
             new(i) == NewSlot(offset + Size(ins),
                         (IF i = 1 THEN Len(vs) ELSE full) - arity - height(i),
                         arity)
             added == [i \in 1..Len(ins.ls) |-> new(i)]
             S(p) == ctrl_stack[p].pending_jt_slots \cup
                       {Len(jt) + i - 1 : i \in
                          {n \in 1..Len(ins.ls) : LabelAt(ins.ls[n]) = p}}
             e(p) == [ctrl_stack[p] EXCEPT !.pending_jt_slots = S(p)]
             cs == [p \in 1..Len(ctrl_stack) |-> e(p)]
             cs0 == [p \in 1..Len(ctrl_stack) |->
                      [ctrl_stack[p] EXCEPT !.pending_jt_slots = @ \cup
                        {Len(jt) + i - 1 : i \in
                          {n \in 1..Len(ins.ls) : LabelAt(ins.ls[n]) = p}}]]
  <1>0. ctrl_stack' = Unreachable(cs0)
    BY DEF on_br_table
  <1>19. cs0 = cs
    BY Zenon
  <1> HIDE DEF e, S, cs0, cs
  <1>1. /\ ins.op = "br_table" /\ Decode(ins)
        /\ jt' = jt \o added
        /\ stack_size_max' = Raise(full)
        /\ val_stack' = SubSeq(val_stack, 1, Top.height)
        /\ Skip({})
    BY DEF on_br_table
  <1>2. /\ IndexOk(ins) /\ offset' = offset + Size(ins) /\ offset' \in Nat
    BY <1>1, DecodeType
  <1>3. ctrl_stack # << >>
    BY <1>1 DEF Decode, TouchesFrame
  <1>4. /\ ctrl_stack \in Seq(Frames) /\ val_stack \in Seq(StackTypes)
        /\ jt \in Seq(Slots) /\ Len(jt) \in Nat /\ Len(ctrl_stack) \in Nat
    BY DEF TInv, TypeOK
  <1>5. ins.ls \in Seq(Nat) /\ Len(ins.ls) \in Nat /\ 1 \in 1..Len(ins.ls)
    BY <1>1, InstrsAssumption
  <1>6. \A i \in 1..Len(ins.ls) : ins.ls[i] \in Nat /\ ins.ls[i] < Len(ctrl_stack)
    <2>1. \A i \in DOMAIN ins.ls : ins.ls[i] < Len(ctrl_stack)
      BY <1>1, <1>2 DEF IndexOk
    <2> QED BY <1>5, <2>1
  <1>7. \A i \in 1..Len(ins.ls) :
          /\ LabelAt(ins.ls[i]) \in 1..Len(ctrl_stack)
          /\ height(i) \in Nat
          /\ label_types(LabelFrame(ins.ls[i])) \in Seq(StackTypes)
    BY <1>6, LabelType
  <1>8. arity \in Nat
    BY <1>5, <1>7
  <1>9. Top.height \in 0..Len(val_stack)
    BY <1>3, TopFrame
  <1>10. Len(vs) \in Nat
    <2>1. <<"i32">> \in Seq(Types)
      BY TypeNames
    <2>2. Top.height <= Len(val_stack)
      BY <1>4, <1>9
    <2> QED BY <1>3, <1>4, <2>1, <2>2, PopTop
  <1> HIDE DEF vs, arity
  <1>11. full \in Nat
    BY <1>8, <1>9, <1>10
  <1> HIDE DEF full
  <1>13. /\ added \in Seq(Slots) /\ Len(added) = Len(ins.ls)
         /\ \A i \in 1..Len(ins.ls) :
              /\ added[i].pc = offset + Size(ins)
              /\ added[i].target_offset = 0
              /\ added[i].next_idx = JUMP_TABLE_IDX_INVALID
              /\ added[i].stack_offset = U32(BrTableOffset(ins, i))
              /\ added[i].arity = U16(arity)
    <2> DEFINE n == Len(ins.ls)
               a == offset + Size(ins)
               h(i) == (IF i = 1 THEN Len(vs) ELSE full) - arity - height(i)
    <2>1. n \in Nat /\ a \in Nat
      BY <1>2, <1>5
    <2>2. \A i \in 1..n : height(i) \in Nat
      BY <1>7
    <2>3. added = [i \in 1..n |-> NewSlot(a, h(i), arity)]
      BY Zenon
    <2>8. \A i \in 1..n : BrTableOffset(ins, i) = h(i)
      BY Zenon DEF BrTableOffset, vs, full, arity
    <2> HIDE DEF height, n, a
    <2>4. \A i \in 1..n : h(i) \in Int
      BY <1>8, <1>10, <1>11, <2>2
    <2> HIDE DEF h, added, new
    <2>5. DOMAIN added = 1..n /\ \A i \in 1..n : added[i] = NewSlot(a, h(i), arity)
      BY <2>3, Zenon
    <2>6. ASSUME NEW i \in 1..n
          PROVE  /\ added[i] \in Slots /\ added[i].pc = a
                 /\ added[i].target_offset = 0
                 /\ added[i].next_idx = JUMP_TABLE_IDX_INVALID
                 /\ added[i].stack_offset = U32(h(i))
                 /\ added[i].arity = U16(arity)
      <3>1. added[i] = NewSlot(a, h(i), arity) /\ h(i) \in Int
        BY <2>4, <2>5, Zenon
      <3>2. PICK m \in Nat, x \in Int, k \in Nat : m = a /\ x = h(i) /\ k = arity
        BY <1>8, <2>1, <3>1, Zenon
      <3>3. /\ NewSlot(m, x, k) \in Slots /\ NewSlot(m, x, k).pc = m
            /\ NewSlot(m, x, k).target_offset = 0
            /\ NewSlot(m, x, k).next_idx = JUMP_TABLE_IDX_INVALID
            /\ NewSlot(m, x, k).stack_offset = U32(x)
            /\ NewSlot(m, x, k).arity = U16(k)
        BY NewSlotType, ZenonT(60)
      <3> QED BY <3>1, <3>2, <3>3, Zenon
    <2>7. added \in Seq(Slots) /\ Len(added) = n
      <3>1. added = [i \in 1..n |-> added[i]]
        BY <2>3, <2>5
      <3>2. added \in [1..n -> Slots]
        BY <2>6, <3>1
      <3> QED BY <2>1, <3>2
    <2> QED BY <2>6, <2>7, <2>8 DEF a, n
  <1> HIDE DEF added, height
  <1>14. /\ jt' \in Seq(Slots) /\ Len(jt') = Len(jt) + Len(ins.ls)
         /\ \A s \in 1..Len(jt) : jt'[s] = jt[s]
         /\ \A s \in (Len(jt) + 1)..Len(jt') :
              /\ s - Len(jt) \in 1..Len(ins.ls)
              /\ jt'[s] = added[s - Len(jt)]
    <2>1. jt' = jt \o added
      BY <1>1
    <2>2. /\ jt' \in Seq(Slots) /\ Len(jt') = Len(jt) + Len(added)
          /\ \A s \in 1..Len(jt) : jt'[s] = jt[s]
          /\ \A s \in (Len(jt) + 1)..(Len(jt) + Len(added)) :
               s - Len(jt) \in 1..Len(added) /\ jt'[s] = added[s - Len(jt)]
      BY <1>4, <1>13, <2>1, TableConcat, Zenon
    <2> QED BY <1>13, <2>2, Zenon
  <1>15. SlotCount(ins) = Len(ins.ls) /\ Addr(ins) = offset + Size(ins)
    <2>1. SlotCount(ins) = Len(ins.ls)
      BY <1>1 DEF SlotCount, JumpOps
    <2>2. Addr(ins) = offset + Size(ins)
      BY <1>1, Zenon DEF Addr
    <2> QED BY <2>1, <2>2
  <1>16. \A s \in 1..Len(jt) : jt[s].next_idx = JUMP_TABLE_IDX_INVALID
    BY <1>1 DEF TInv, Fresh, Decode
  <1>17. /\ \A s \in (Len(jt) + 1)..Len(jt') :
              /\ jt'[s].pc = Addr(ins) /\ jt'[s].target_offset = 0
         /\ \A s \in 1..Len(jt') : jt'[s].next_idx = JUMP_TABLE_IDX_INVALID
    <2>1. \A s \in (Len(jt) + 1)..Len(jt') :
            /\ jt'[s].pc = Addr(ins) /\ jt'[s].target_offset = 0
            /\ jt'[s].next_idx = JUMP_TABLE_IDX_INVALID
      BY <1>13, <1>14, <1>15
    <2>2. \A s \in 1..Len(jt) : jt'[s].next_idx = JUMP_TABLE_IDX_INVALID
      BY <1>14, <1>16
    <2>3. \A s \in 1..Len(jt') : s \in 1..Len(jt) \/ s \in (Len(jt) + 1)..Len(jt')
      BY <1>4, <1>5, <1>14
    <2> QED BY <2>1, <2>2, <2>3
  <1>18. ASSUME NEW p \in 1..Len(ctrl_stack)
         PROVE  /\ e(p) \in Frames /\ e(p).height = ctrl_stack[p].height
                /\ e(p).type = ctrl_stack[p].type /\ e(p).pc = ctrl_stack[p].pc
                /\ e(p).start_types = ctrl_stack[p].start_types
                /\ e(p).end_types = ctrl_stack[p].end_types
                /\ e(p).unreachable = ctrl_stack[p].unreachable
                /\ e(p).pending_jt_slots = S(p)
    <2>1. ctrl_stack[p] \in Frames
      BY <1>4
    <2>2. ctrl_stack[p].pending_jt_slots \in SUBSET Nat
      BY <2>1 DEF Frames
    <2>3. S(p) \in SUBSET Nat
      BY <1>4, <1>5, <2>2 DEF S
    <2> QED BY <2>1, <2>3, FrameUpdate DEF e
  <1>20. /\ cs \in Seq(Frames) /\ Len(cs) = Len(ctrl_stack)
         /\ \A p \in 1..Len(ctrl_stack) : cs[p] = e(p)
    BY <1>4, <1>18 DEF cs
  <1>21. SameFrames(ctrl_stack, cs) /\ cs # << >>
    BY <1>3, <1>4, <1>18, <1>20 DEF SameFrames
  <1>22. /\ SameFrames(cs, ctrl_stack')
         /\ \A p \in 1..Len(ctrl_stack) :
              /\ ctrl_stack'[p].pending_jt_slots = cs[p].pending_jt_slots
              /\ ctrl_stack'[p].unreachable = (p = Len(ctrl_stack) \/ cs[p].unreachable)
    BY <1>0, <1>19, <1>20, <1>21, UnreachableFrames
  <1>23. SameFrames(ctrl_stack, ctrl_stack')
    BY <1>21, <1>22 DEF SameFrames
  <1>24. Heights' /\ ctrl_stack' \in Seq(Frames) /\ val_stack' \in Seq(StackTypes)
    BY <1>1, <1>3, <1>23, CutHeights
  <1>25. stack_size_max' \in Nat /\ skipped' \subseteq SpecChecks
    <2>1. stack_size_max' \in Nat
      BY <1>1, <1>11, RaiseType
    <2> QED BY <1>1, <2>1, SkipType
  <1>26. StepShape(ins)
    BY <1>14, <1>15, <1>17, <1>24, <1>25 DEF StepShape
  <1>27. \A p \in 1..Len(ctrl_stack) :
           /\ ctrl_stack'[p].pending_jt_slots = S(p)
           /\ ctrl_stack'[p].unreachable =
                (p = Len(ctrl_stack) \/ ctrl_stack[p].unreachable)
    BY <1>18, <1>20, <1>22
  <1>28. \A s \in (Len(jt) + 1)..Len(jt') :
           /\ s - Len(jt) \in 1..Len(ins.ls)
           /\ jt'[s].stack_offset = U32(BrTableOffset(ins, s - Len(jt)))
           /\ jt'[s].arity = U16(arity)
    BY <1>13, <1>14
  <1> QED BY <1>3, <1>5, <1>7, <1>14, <1>23, <1>26, <1>27, <1>28 DEF S, arity

----------------------------------------------------------------------------
\* A nonempty set of natural numbers has a least element.
LEMMA HasMin ==
  ASSUME NEW S \in SUBSET Nat, S # {}
  PROVE  \E x \in S : \A y \in S : x <= y
  <1> DEFINE R == OpToRel(<, Nat)
  <1>1. IsWellFoundedOn(R, Nat)
    BY NatLessThanWellFounded
  <1>2. PICK x \in S : \A y \in S : ~(<<y, x>> \in R)
    <2> HIDE DEF R
    <2> QED BY <1>1, WFMin
  <1>3. \A y \in S : ~(y < x)
    BY <1>2 DEF OpToRel
  <1>4. x \in Nat /\ S \subseteq Nat
    OBVIOUS
  <1> HIDE DEF R
  <1>5. \A y \in S : x <= y
    BY <1>3, <1>4
  <1> QED BY <1>5

\* Min is that element.
LEMMA MinIs ==
  ASSUME NEW S \in SUBSET Nat, S # {}
  PROVE  Min(S) \in S /\ \A y \in S : Min(S) <= y
  BY HasMin DEF Min

\* And it is the only one.
LEMMA MinEq ==
  ASSUME NEW S \in SUBSET Nat, NEW x \in S, \A y \in S : x <= y
  PROVE  Min(S) = x
  <1>1. Min(S) \in S /\ \A y \in S : Min(S) <= y
    BY MinIs
  <1>2. Min(S) \in Nat /\ x \in Nat
    BY <1>1
  <1> QED BY <1>1, <1>2

\* The slots that Link considers are slots of the table.
LEMMA NextSlotsRange ==
  ASSUME NEW t \in Seq(Slots), NEW i \in 1..Len(t)
  PROVE  NextSlots(t, i) \subseteq 1..Len(t) /\ NextSlots(t, i) \in SUBSET Nat
  <1>1. Len(t) \in Nat
    OBVIOUS
  <1>2. SlotsAhead(t, i) \subseteq 1..Len(t) /\ SlotsBehind(t, i) \subseteq 1..Len(t)
    BY <1>1 DEF SlotsAhead, SlotsBehind
  <1> QED BY <1>1, <1>2 DEF NextSlots

\* Setting the next_idx of a slot changes nothing else.
LEMMA LinkUpdate ==
  ASSUME NEW slot \in Slots, NEW n \in 0..U16_MAX
  PROVE  /\ [slot EXCEPT !.next_idx = n] \in Slots
         /\ [slot EXCEPT !.next_idx = n].pc = slot.pc
         /\ [slot EXCEPT !.next_idx = n].target_offset = slot.target_offset
         /\ [slot EXCEPT !.next_idx = n].next_idx = n
         /\ [slot EXCEPT !.next_idx = n].stack_offset = slot.stack_offset
         /\ [slot EXCEPT !.next_idx = n].arity = slot.arity
  BY DEF Slots

\* Linking the jump table changes next_idx and nothing else (on_decode_end).
LEMMA Linked ==
  ASSUME NEW t \in Seq(Slots)
  PROVE  /\ Link(t) \in Seq(Slots)
         /\ Len(Link(t)) = Len(t)
         /\ \A i \in 1..Len(t) :
              /\ Link(t)[i].pc = t[i].pc
              /\ Link(t)[i].target_offset = t[i].target_offset
              /\ Link(t)[i].stack_offset = t[i].stack_offset
              /\ Link(t)[i].arity = t[i].arity
              /\ Link(t)[i].next_idx =
                   IF NextSlots(t, i) = {}
                     THEN t[i].next_idx ELSE U16(Min(NextSlots(t, i)) - 1)
  <1> DEFINE u(i) == U16(Min(NextSlots(t, i)) - 1)
             e(i) == IF NextSlots(t, i) = {}
                       THEN t[i] ELSE [t[i] EXCEPT !.next_idx = u(i)]
  <1>1. DOMAIN t = 1..Len(t) /\ Len(t) \in Nat
    OBVIOUS
  <1>2. Link(t) = [i \in 1..Len(t) |-> e(i)]
    BY <1>1, Zenon DEF Link
  <1>3. ASSUME NEW i \in 1..Len(t)
        PROVE  /\ e(i) \in Slots
               /\ e(i).pc = t[i].pc
               /\ e(i).target_offset = t[i].target_offset
               /\ e(i).stack_offset = t[i].stack_offset /\ e(i).arity = t[i].arity
               /\ e(i).next_idx = IF NextSlots(t, i) = {}
                                    THEN t[i].next_idx ELSE u(i)
    <2>1. t[i] \in Slots
      OBVIOUS
    <2>2. CASE NextSlots(t, i) = {}
      BY <2>1, <2>2
    <2>3. CASE NextSlots(t, i) # {}
      <3>1. Min(NextSlots(t, i)) \in Nat
        BY <2>3, NextSlotsRange, MinIs
      <3>2. Min(NextSlots(t, i)) - 1 \in Int
        BY <3>1
      <3>3. u(i) \in 0..U16_MAX
        BY <3>2, U16Range
      <3> DEFINE g == [t[i] EXCEPT !.next_idx = u(i)]
      <3> HIDE DEF u
      <3>4. /\ g \in Slots /\ g.pc = t[i].pc /\ g.next_idx = u(i)
            /\ g.target_offset = t[i].target_offset
            /\ g.stack_offset = t[i].stack_offset /\ g.arity = t[i].arity
        BY <2>1, <3>3, LinkUpdate
      <3>5. e(i) = g
        BY <2>3
      <3> QED BY <2>3, <3>4, <3>5
    <2> QED BY <2>2, <2>3
  <1> HIDE DEF e, u
  <1>4. [i \in 1..Len(t) |-> e(i)] \in Seq(Slots)
    BY <1>1, <1>3
  <1>5. \A i \in 1..Len(t) :
          /\ Link(t)[i].pc = t[i].pc
          /\ Link(t)[i].target_offset = t[i].target_offset
          /\ Link(t)[i].stack_offset = t[i].stack_offset
          /\ Link(t)[i].arity = t[i].arity
          /\ Link(t)[i].next_idx =
               IF NextSlots(t, i) = {} THEN t[i].next_idx ELSE u(i)
    BY <1>2, <1>3
  <1> QED BY <1>1, <1>2, <1>4, <1>5 DEF u

\* Every callback keeps the types, the heights and the layout.
LEMMA StepsShape ==
  ASSUME TInv, NEW ins \in Instrs, Step(ins)
  PROVE  Decode(ins) /\ StepShape(ins)
  <1>1. Decode(ins)
    BY DEF Step, on_unreachable, on_nop, on_block, on_else, on_end,
           on_br_or_if, on_br_table, on_return, on_call, on_data
  <1>2. StepShape(ins)
    BY UnreachableShape, NopShape, BlockShape, ElseShape, EndShape, BrShape,
       BrTableShape, CallShape, DataShape DEF Step
  <1> QED BY <1>1, <1>2

\* A validation that fails keeps TInv.
LEMMA QuitTInv ==
  ASSUME TInv, NEW how \in {"invalid", "assert"}, Quit(how)
  PROVE  TInv'
  BY DEF Quit, TInv, TypeOK, Heights, Fresh, SpecChecks

\* validator_on_decode_end keeps TInv.
LEMMA EndTInv ==
  ASSUME TInv, on_decode_end
  PROVE  TInv'
  <1>1. /\ phase' = "ready" /\ jt' = Link(jt) /\ ctrl_stack' = << >>
        /\ val_stack' = << >> /\ f' = f /\ code' = code /\ offset' = offset
        /\ stack_size_max' = stack_size_max
        /\ skipped' = skipped \cup (IF ctrl_stack = << >> THEN {} ELSE {"open"})
    BY DEF on_decode_end
  <1>2. jt' \in Seq(Slots)
    BY <1>1, Linked DEF TInv, TypeOK
  <1> QED BY <1>1, <1>2 DEF TInv, TypeOK, Heights, Fresh, SpecChecks

\* A decoded instruction keeps TInv.
LEMMA StepTInv ==
  ASSUME TInv, NEW ins \in Instrs, Step(ins)
  PROVE  TInv'
  <1>1. Decode(ins) /\ StepShape(ins)
    BY StepsShape
  <1>2. code' \in Seq(Decoded) /\ offset' \in Nat /\ f' \in Funs /\ phase' = "decode"
    BY <1>1, DecodeType
  <1> QED BY <1>1, <1>2 DEF StepShape, TInv, TypeOK, Fresh

\* validator_on_decode_begin establishes TInv.
LEMMA InitTInv ==
  ASSUME Init
  PROVE  TInv
  <1> DEFINE fr == NewFrame("func", f.type, 0, 0)
  <1>1. f.type.params \in Seq(ValTypes) /\ f.type.results \in Seq(ValTypes)
    BY FunsAssumption DEF Init, FuncTypes
  <1>2. fr \in Frames /\ fr.height = 0
    BY <1>1 DEF NewFrame, Frames
  <1>3. ctrl_stack = <<fr>>
    BY DEF Init
  <1> HIDE DEF fr
  <1>4. ctrl_stack \in Seq(Frames) /\ Len(ctrl_stack) = 1 /\ ctrl_stack[1].height = 0
    BY <1>2, <1>3
  <1>5. Heights
    BY <1>4 DEF Init, Heights
  <1>6. TypeOK
    BY <1>1, <1>4 DEF Init, TypeOK
  <1> QED BY <1>5, <1>6 DEF TInv, Init, Fresh

\* TInv is inductive.
LEMMA NextTInv ==
  ASSUME TInv, [Next]_vars
  PROVE  TInv'
  <1>1. CASE \E ins \in Instrs : Step(ins)
    BY <1>1, StepTInv
  <1>2. CASE on_decode_end
    BY <1>2, EndTInv
  <1>3. CASE Reject \/ Truncated \/ EmptyVecAccess
    BY <1>3, QuitTInv DEF Reject, Truncated, EmptyVecAccess
  <1>4. CASE UNCHANGED vars
    BY <1>4 DEF vars, TInv, TypeOK, Heights, Fresh
  <1> QED BY <1>1, <1>2, <1>3, <1>4 DEF Next

(***************************************************************************)
(* The strengthened type invariant holds throughout a validation: besides  *)
(* the types, the value stack is never below a frame's height (pop_val's   *)
(* underflow check is enough) and no slot is linked before the end.        *)
(***************************************************************************)
THEOREM TypesInvariant == Spec => []TInv
  <1>1. Init => TInv
    BY InitTInv
  <1>2. TInv /\ [Next]_vars => TInv'
    BY NextTInv
  <1> QED BY <1>1, <1>2, PTL DEF Spec

(***************************************************************************)
(* Type correctness, for every function, set of instructions and width:    *)
(* the validator's context and the jump table it builds always have the    *)
(* types that validator.h and module.h declare.                            *)
(***************************************************************************)
THEOREM Typed == Spec => []TypeOK
  <1>1. TInv => TypeOK
    BY DEF TInv
  <1> QED BY <1>1, TypesInvariant, PTL

----------------------------------------------------------------------------
(***************************************************************************)
(* Instructions and slots lie in the same order: the slots that come       *)
(* before an instruction are those whose address is not behind it.         *)
(***************************************************************************)
Ordered ==
  /\ \A k \in 1..Len(code) : NextAt(k) <= offset /\ EndSlot(k) <= Len(jt)
  /\ \A s \in 1..Len(jt) : jt[s].pc <= offset
  /\ \A r, s \in 1..Len(jt) : r <= s => jt[r].pc <= jt[s].pc
  /\ \A k \in 1..Len(code), s \in 1..Len(jt) :
       s <= code[k].slot <=> jt[s].pc <= code[k].at

Layout == SlotLayout /\ Ordered

\* The types of a decoded instruction's record.
LEMMA CodeTypes ==
  ASSUME TInv, NEW k \in 1..Len(code)
  PROVE  /\ code[k].at \in Nat /\ code[k].slot \in Nat /\ code[k].ins \in Instrs
         /\ NextAt(k) \in Nat /\ code[k].at < NextAt(k)
         /\ EndSlot(k) \in Nat /\ code[k].slot <= EndSlot(k)
  <1>1. code[k] \in Decoded
    BY DEF TInv, TypeOK
  <1>2. code[k].at \in Nat /\ code[k].slot \in Nat /\ code[k].ins \in Instrs
    BY <1>1 DEF Decoded
  <1>3. /\ Size(code[k].ins) \in Nat /\ Size(code[k].ins) >= 1
        /\ SlotCount(code[k].ins) \in Nat
    BY <1>2, Sizes
  <1> QED BY <1>2, <1>3 DEF NextAt, EndSlot

\* The types of a slot.
LEMMA SlotTypes ==
  ASSUME TInv, NEW s \in 1..Len(jt)
  PROVE  jt[s] \in Slots /\ jt[s].pc \in Nat /\ jt[s].target_offset \in Int
  <1>1. jt[s] \in Slots
    BY DEF TInv, TypeOK
  <1> QED BY <1>1 DEF Slots

\* The address that an instruction's slots carry lies within or right behind
\* it.
LEMMA AddrBounds ==
  ASSUME TInv, NEW ins \in Instrs
  PROVE  /\ Addr(ins) \in Nat /\ offset < Addr(ins) /\ Addr(ins) <= offset + Size(ins)
         /\ offset \in Nat /\ offset + Size(ins) \in Nat
  <1>1. Size(ins) \in Nat /\ Size(ins) >= 1 /\ offset \in Nat
    BY Sizes DEF TInv, TypeOK
  <1> QED BY <1>1 DEF Addr

\* Decoding appends one instruction to the code.
LEMMA Grown ==
  ASSUME TInv, NEW ins \in Instrs, Decode(ins)
  PROVE  /\ Len(code') = Len(code) + 1 /\ Len(code) \in Nat
         /\ \A k \in 1..Len(code) : code'[k] = code[k]
         /\ code'[Len(code) + 1].at = offset
         /\ code'[Len(code) + 1].slot = Len(jt)
         /\ code'[Len(code) + 1].ins = ins
  <1> DEFINE d == [at |-> offset, ins |-> ins, slot |-> Len(jt),
                   types |-> val_stack,
                   dead |-> InDeadCode]
  <1>1. code' = Append(code, d)
    BY DEF Decode
  <1>2. code \in Seq(Decoded)
    BY DEF TInv, TypeOK
  <1>3. d.at = offset /\ d.slot = Len(jt) /\ d.ins = ins
    OBVIOUS
  <1> HIDE DEF d
  <1> QED BY <1>1, <1>2, <1>3

\* A callback keeps Ordered: its slots are last, and lie behind every older
\* instruction.
LEMMA StepOrdered ==
  ASSUME TInv, Ordered, NEW ins \in Instrs, Decode(ins), StepShape(ins)
  PROVE  Ordered'
  <1> DEFINE n == Len(code)
             J == Len(jt)
             C == SlotCount(ins)
  <1>1. /\ Len(code') = n + 1 /\ n \in Nat
        /\ \A k \in 1..n : code'[k] = code[k]
        /\ code'[n + 1].at = offset
        /\ code'[n + 1].slot = J
        /\ code'[n + 1].ins = ins
    BY Grown
  <1>2. /\ Len(jt') = J + C
        /\ \A s \in 1..J : jt'[s].pc = jt[s].pc
        /\ \A s \in (J + 1)..Len(jt') : jt'[s].pc = Addr(ins)
    BY DEF StepShape
  <1>3. J \in Nat /\ C \in Nat
    BY Sizes DEF TInv, TypeOK
  <1>4. /\ Addr(ins) \in Nat /\ offset < Addr(ins) /\ Addr(ins) <= offset'
        /\ offset \in Nat /\ offset' \in Nat /\ offset' = offset + Size(ins)
    BY AddrBounds DEF Decode
  <1>5. \A s \in 1..J : jt[s].pc \in Nat /\ jt[s].pc <= offset
    BY SlotTypes DEF Ordered
  <1>6. \A k \in 1..n : /\ code[k].at \in Nat /\ code[k].at < offset
                        /\ code[k].slot \in Nat /\ code[k].slot <= J
                        /\ NextAt(k) <= offset /\ NextAt(k) \in Nat
                        /\ EndSlot(k) <= J /\ EndSlot(k) \in Nat
    BY <1>3, <1>4, CodeTypes DEF Ordered
  <1>7. \A r, s \in 1..J : r <= s => jt[r].pc <= jt[s].pc
    BY DEF Ordered
  <1>8. \A k \in 1..n, s \in 1..J : s <= code[k].slot <=> jt[s].pc <= code[k].at
    BY DEF Ordered
  <1> HIDE DEF n, J, C
  <1>9. ASSUME NEW k \in 1..Len(code')
        PROVE  NextAt(k)' <= offset' /\ EndSlot(k)' <= Len(jt')
    <2>1. CASE k = n + 1
      <3>1. NextAt(k)' = offset + Size(ins) /\ EndSlot(k)' = J + C
        BY <1>1, <2>1 DEF NextAt, EndSlot, C
      <3> QED BY <1>2, <1>3, <1>4, <3>1
    <2>2. CASE k \in 1..n
      <3>1. NextAt(k)' = NextAt(k) /\ EndSlot(k)' = EndSlot(k)
        BY <1>1, <2>2 DEF NextAt, EndSlot
      <3> QED BY <1>2, <1>3, <1>4, <1>6, <2>2, <3>1
    <2> QED BY <1>1, <2>1, <2>2
  <1>10. \A s \in 1..Len(jt') : jt'[s].pc <= offset'
    BY <1>2, <1>3, <1>4, <1>5
  <1>11. \A r, s \in 1..Len(jt') : r <= s => jt'[r].pc <= jt'[s].pc
    BY <1>2, <1>3, <1>4, <1>5, <1>7
  <1>12. ASSUME NEW k \in 1..Len(code'), NEW s \in 1..Len(jt')
         PROVE  s <= code'[k].slot <=> jt'[s].pc <= code'[k].at
    <2>1. CASE k = n + 1
      BY <1>1, <1>2, <1>3, <1>4, <1>5, <2>1
    <2>2. CASE k \in 1..n
      <3>1. code'[k] = code[k] /\ code[k].at < offset /\ code[k].slot <= J
            /\ code[k].at \in Nat /\ code[k].slot \in Nat
        BY <1>1, <1>6, <2>2
      <3>2. CASE s \in 1..J
        BY <1>2, <1>8, <2>2, <3>1, <3>2
      <3>3. CASE s \in (J + 1)..Len(jt')
        <4>1. jt'[s].pc = Addr(ins) /\ s > J
          BY <1>2, <1>3, <3>3
        <4>2. ~(s <= code[k].slot)
          BY <1>3, <3>1, <4>1
        <4>3. ~(jt'[s].pc <= code[k].at)
          BY <1>4, <3>1, <4>1
        <4> QED BY <3>1, <4>2, <4>3
      <3> QED BY <1>2, <1>3, <3>2, <3>3
    <2> QED BY <1>1, <2>1, <2>2
  <1> QED BY <1>9, <1>10, <1>11, <1>12 DEF Ordered

\* A callback keeps SlotLayout.
LEMMA StepLayout ==
  ASSUME TInv, Layout, NEW ins \in Instrs, Decode(ins), StepShape(ins)
  PROVE  SlotLayout'
  <1> DEFINE n == Len(code)
             J == Len(jt)
             C == SlotCount(ins)
  <1>1. /\ Len(code') = n + 1 /\ n \in Nat
        /\ \A k \in 1..n : code'[k] = code[k]
        /\ code'[n + 1].at = offset
        /\ code'[n + 1].slot = J
        /\ code'[n + 1].ins = ins
    BY Grown
  <1>2. /\ Len(jt') = J + C
        /\ \A s \in 1..J : jt'[s].pc = jt[s].pc
        /\ \A s \in (J + 1)..Len(jt') : jt'[s].pc = Addr(ins)
        /\ offset' = offset + Size(ins)
    BY DEF StepShape, Decode
  <1>3. J \in Nat /\ C \in Nat
    BY Sizes DEF TInv, TypeOK
  <1>4. \A k \in 1..n :
          /\ NextAt(k) = IF k = n THEN offset ELSE code[k + 1].at
          /\ EndSlot(k) = IF k = n THEN J ELSE code[k + 1].slot
          /\ \A s \in (code[k].slot + 1)..EndSlot(k) : jt[s].pc = SlotAddr(k)
    BY DEF Layout, SlotLayout
  <1>5. IF code = << >> THEN offset = 0 /\ jt = << >>
                        ELSE code[1].at = 0 /\ code[1].slot = 0
    BY DEF Layout, SlotLayout
  <1>6. \A k \in 1..n : /\ EndSlot(k) <= J /\ EndSlot(k) \in Nat
                        /\ code[k].slot \in Nat
    BY CodeTypes DEF Layout, Ordered
  <1>7. code = << >> <=> n = 0
    BY DEF TInv, TypeOK
  <1>8. jt = << >> => J = 0
    OBVIOUS
  <1>9. code' # << >>
    <2>1. code' \in Seq(Decoded)
      BY DecodeType
    <2> QED BY <1>1, <2>1
  <1> HIDE DEF n, J, C
  <1>10. ASSUME NEW k \in 1..Len(code')
         PROVE  /\ NextAt(k)' = IF k = Len(code') THEN offset' ELSE code'[k + 1].at
                /\ EndSlot(k)' = IF k = Len(code') THEN Len(jt') ELSE code'[k + 1].slot
                /\ \A s \in (code'[k].slot + 1)..EndSlot(k)' : jt'[s].pc = SlotAddr(k)'
    <2>1. CASE k = n + 1
      <3>1. /\ NextAt(k)' = offset + Size(ins) /\ EndSlot(k)' = J + C
            /\ SlotAddr(k)' = Addr(ins)
        BY <1>1, <2>1 DEF NextAt, EndSlot, C, SlotAddr, Addr
      <3> QED BY <1>1, <1>2, <1>3, <2>1, <3>1
    <2>2. CASE k \in 1..n
      <3>1. /\ NextAt(k)' = NextAt(k) /\ EndSlot(k)' = EndSlot(k)
            /\ SlotAddr(k)' = SlotAddr(k) /\ code'[k].slot = code[k].slot
        BY <1>1, <2>2 DEF NextAt, EndSlot, SlotAddr
      <3>2. k # n => code'[k + 1] = code[k + 1]
        BY <1>1, <2>2
      <3>3. k # Len(code')
        BY <1>1, <2>2
      <3>4. NextAt(k) = code'[k + 1].at /\ EndSlot(k) = code'[k + 1].slot
        BY <1>1, <1>4, <2>2, <3>2
      <3>5. \A s \in (code[k].slot + 1)..EndSlot(k) : jt'[s].pc = SlotAddr(k)
        <4>1. \A s \in (code[k].slot + 1)..EndSlot(k) : s \in 1..J
          BY <1>3, <1>6, <2>2
        <4>2. \A s \in (code[k].slot + 1)..EndSlot(k) : jt[s].pc = SlotAddr(k)
          BY <1>4, <2>2
        <4> QED BY <1>2, <4>1, <4>2
      <3> QED BY <3>1, <3>3, <3>4, <3>5
    <2> QED BY <1>1, <2>1, <2>2
  <1>11. code'[1].at = 0 /\ code'[1].slot = 0
    BY <1>1, <1>5, <1>7, <1>8
  <1> QED BY <1>9, <1>10, <1>11 DEF SlotLayout

\* A step that leaves the code and the addresses of the slots alone keeps
\* Layout.
LEMMA SamePcs ==
  ASSUME TInv, Layout, code' = code, offset' = offset, Len(jt') = Len(jt),
         jt = << >> => jt' = << >>,
         \A s \in 1..Len(jt) : jt'[s].pc = jt[s].pc
  PROVE  Layout'
  <1>1. Ordered'
    <2>1. \A k \in 1..Len(code) : NextAt(k)' = NextAt(k) /\ EndSlot(k)' = EndSlot(k)
      BY DEF NextAt, EndSlot
    <2>2. Ordered
      BY DEF Layout
    <2> HIDE DEF Layout
    <2>3. \A k \in 1..Len(code') : NextAt(k)' <= offset' /\ EndSlot(k)' <= Len(jt')
      BY <2>1, <2>2 DEF Ordered
    <2>4. \A s \in 1..Len(jt') : jt'[s].pc <= offset'
      BY <2>2 DEF Ordered
    <2>5. \A i, s \in 1..Len(jt') : i <= s => jt'[i].pc <= jt'[s].pc
      BY <2>2 DEF Ordered
    <2>6. \A k \in 1..Len(code'), s \in 1..Len(jt') :
            s <= code'[k].slot <=> jt'[s].pc <= code'[k].at
      BY <2>2 DEF Ordered
    <2> QED BY <2>3, <2>4, <2>5, <2>6 DEF Ordered
  <1>2. \A k \in 1..Len(code) : EndSlot(k) <= Len(jt) /\ EndSlot(k) \in Nat
                                /\ code[k].slot \in Nat /\ Len(jt) \in Nat
    BY CodeTypes DEF Layout, Ordered, TInv, TypeOK
  <1>3. ASSUME NEW k \in 1..Len(code)
        PROVE  /\ NextAt(k) = IF k = Len(code) THEN offset ELSE code[k + 1].at
               /\ EndSlot(k) = IF k = Len(code) THEN Len(jt) ELSE code[k + 1].slot
               /\ \A s \in (code[k].slot + 1)..EndSlot(k) : jt'[s].pc = SlotAddr(k)
    <2>1. /\ NextAt(k) = IF k = Len(code) THEN offset ELSE code[k + 1].at
          /\ EndSlot(k) = IF k = Len(code) THEN Len(jt) ELSE code[k + 1].slot
          /\ \A s \in (code[k].slot + 1)..EndSlot(k) : jt[s].pc = SlotAddr(k)
      BY DEF Layout, SlotLayout
    <2>2. \A s \in (code[k].slot + 1)..EndSlot(k) : s \in 1..Len(jt)
      BY <1>2
    <2> QED BY <2>1, <2>2
  <1>4. IF code = << >> THEN offset = 0 /\ jt' = << >>
                        ELSE code[1].at = 0 /\ code[1].slot = 0
    BY DEF Layout, SlotLayout
  <1>5. \A k : NextAt(k)' = NextAt(k) /\ EndSlot(k)' = EndSlot(k)
               /\ SlotAddr(k)' = SlotAddr(k)
    BY DEF NextAt, EndSlot, SlotAddr
  <1>6. SlotLayout'
    BY <1>3, <1>4, <1>5 DEF SlotLayout
  <1> QED BY <1>1, <1>6 DEF Layout

\* An empty function is laid out.
LEMMA EmptyLayout ==
  ASSUME code = << >>, offset = 0, jt = << >>
  PROVE  Layout
  BY DEF Layout, SlotLayout, Ordered

\* Layout is inductive, relative to TInv.
LEMMA NextLayout ==
  ASSUME TInv, Layout, [Next]_vars
  PROVE  Layout'
  <1>1. ASSUME NEW ins \in Instrs, Step(ins)
        PROVE  Layout'
    <2>1. Decode(ins) /\ StepShape(ins)
      BY <1>1, StepsShape
    <2> QED BY <2>1, StepOrdered, StepLayout DEF Layout
  <1>2. CASE on_decode_end
    <2>1. jt' = Link(jt) /\ code' = code /\ offset' = offset
      BY <1>2 DEF on_decode_end
    <2>2. jt \in Seq(Slots)
      BY DEF TInv, TypeOK
    <2>3. /\ jt' \in Seq(Slots) /\ Len(jt') = Len(jt)
          /\ \A s \in 1..Len(jt) : jt'[s].pc = jt[s].pc
      BY <2>1, <2>2, Linked
    <2>4. jt = << >> => jt' = << >>
      BY <2>2, <2>3
    <2> QED BY <2>1, <2>3, <2>4, SamePcs
  <1>3. CASE Reject \/ Truncated \/ EmptyVecAccess
    <2>1. code' = << >> /\ offset' = 0 /\ jt' = << >>
      BY <1>3 DEF Reject, Truncated, EmptyVecAccess, Quit
    <2> QED BY <2>1 DEF Layout, SlotLayout, Ordered
  <1>4. CASE UNCHANGED vars
    BY <1>4, SamePcs DEF vars
  <1> QED BY <1>1, <1>2, <1>3, <1>4 DEF Next

(***************************************************************************)
(* Every instruction owns exactly the slots that carry its address, in the *)
(* order of the code, from the first instruction decoded to the linked     *)
(* table: the interpreter can step through the table with next_jt_idx++.   *)
(***************************************************************************)
THEOREM LaidOut == Spec => []SlotLayout
  <1>1. Init => Layout
    BY EmptyLayout DEF Init
  <1>2. TInv /\ Layout /\ [Next]_vars => Layout'
    BY NextLayout
  <1>3. Layout => SlotLayout
    BY DEF Layout
  <1> QED BY <1>1, <1>2, <1>3, TypesInvariant, PTL DEF Spec
=============================================================================
