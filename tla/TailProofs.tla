----------------------------- MODULE TailProofs -----------------------------
(***************************************************************************)
(* Both builds of the in-place interpreter: their type soundness, the room *)
(* of direct calls, and the tail-call build's copy of memory 0.            *)
(***************************************************************************)
EXTENDS TailCallInterp, TLAPS

\* The direct-threaded interpreter with the opcode that is carried out, of
\* either build, for its pc.
D == INSTANCE SoundnessProofs WITH pc <- Place

----------------------------------------------------------------------------
(***************************************************************************)
(* What SoundnessProofs shows of that interpreter.                         *)
(***************************************************************************)
\* Its invariant holds before anything is decoded.
LEMMA DtInit ==
  ASSUME D!RunInit
  PROVE  D!SoundInv
  BY D!InitSound, WidthAssumption, CalleesAssumption, InstrsAssumption, FunsAssumption
     DEF D!FuncTypes, FuncTypes, D!ControlOps, ControlOps, D!LocalOps, LocalOps,
         D!DataOps, DataOps, D!ValTypes, ValTypes, D!NumTypes, NumTypes,
         D!RefTypes, RefTypes, D!TypedOps, TypedOps, D!EntityOps, EntityOps

\* Its steps keep its invariant.
LEMMA DtNext ==
  ASSUME D!SoundInv, [D!RunNext]_(D!allvars)
  PROVE  D!SoundInv'
  BY D!NextSound, WidthAssumption, CalleesAssumption, InstrsAssumption, FunsAssumption
     DEF D!FuncTypes, FuncTypes, D!ControlOps, ControlOps, D!LocalOps, LocalOps,
         D!DataOps, DataOps, D!ValTypes, ValTypes, D!NumTypes, NumTypes,
         D!RefTypes, RefTypes, D!TypedOps, TypedOps, D!EntityOps, EntityOps

\* Where it arrives, the stack has room.
LEMMA DtFits ==
  ASSUME D!Roomy, ctrl_stack = << >>, NEW a, NEW U, D!Arrives(a, U)
  PROVE  Len(U) <= stack_size_max
  BY D!ArrivesFits, WidthAssumption, CalleesAssumption, InstrsAssumption, FunsAssumption
     DEF D!FuncTypes, FuncTypes, D!ControlOps, ControlOps, D!LocalOps, LocalOps,
         D!DataOps, DataOps, D!ValTypes, ValTypes, D!NumTypes, NumTypes,
         D!RefTypes, RefTypes, D!TypedOps, TypedOps, D!EntityOps, EntityOps

\* The types of a decoded instruction.
LEMMA DtCode ==
  ASSUME D!TInv, NEW k \in 1..Len(code)
  PROVE  code[k].at \in Nat /\ code[k].ins \in Instrs /\ D!NextAt(k) \in Nat
  BY D!CodeTypes, WidthAssumption, CalleesAssumption, InstrsAssumption, FunsAssumption
     DEF D!FuncTypes, FuncTypes, D!ControlOps, ControlOps, D!LocalOps, LocalOps,
         D!DataOps, DataOps, D!ValTypes, ValTypes, D!NumTypes, NumTypes,
         D!RefTypes, RefTypes, D!TypedOps, TypedOps, D!EntityOps, EntityOps

\* The lower and the upper values of a stack.
LEMMA DtParts ==
  ASSUME NEW S, NEW s \in Seq(S), NEW m \in 0..Len(s)
  PROVE  /\ SubSeq(s, 1, m) \in Seq(S) /\ Len(SubSeq(s, 1, m)) = m
         /\ SubSeq(s, Len(s) - m + 1, Len(s)) \in Seq(S)
         /\ Len(SubSeq(s, Len(s) - m + 1, Len(s))) = m
  BY D!Lower, D!Upper, WidthAssumption, CalleesAssumption, InstrsAssumption, FunsAssumption
     DEF D!FuncTypes, FuncTypes, D!ControlOps, ControlOps, D!LocalOps, LocalOps,
         D!DataOps, DataOps, D!ValTypes, ValTypes, D!NumTypes, NumTypes,
         D!RefTypes, RefTypes, D!TypedOps, TypedOps, D!EntityOps, EntityOps

\* Its invariant makes it type-sound and gives its callees room.
LEMMA DtTyped ==
  ASSUME D!SoundInv, D!Shallow, D!Numbered
  PROVE  D!StackTyped /\ D!RoomForOwnCallees
  BY D!SoundTyped, D!SoundRoom, WidthAssumption, CalleesAssumption, InstrsAssumption,
     FunsAssumption
     DEF D!FuncTypes, FuncTypes, D!ControlOps, ControlOps, D!LocalOps, LocalOps,
         D!DataOps, DataOps, D!ValTypes, ValTypes, D!NumTypes, NumTypes,
         D!RefTypes, RefTypes, D!TypedOps, TypedOps, D!EntityOps, EntityOps

\* How many values a handler reads.
LEMMA DtReads ==
  ASSUME NEW k
  PROVE  LET op == D!Ins(k).op
         IN  /\ op \in {"if", "br_if", "br_table", "local_set", "local_tee"} => D!Reads(k) = 1
             /\ op \in {"select", "select_t"} => D!Reads(k) = 3
             /\ op = "call" => D!Reads(k) = Len(Callees[D!Ins(k).fn + 1].type.params)
             /\ op \in D!DataOps \ {"select", "select_t"} =>
                  D!Reads(k) = D!DataEffect(D!Ins(k)).pop
  BY D!ReadsIs, WidthAssumption, CalleesAssumption, InstrsAssumption, FunsAssumption
     DEF D!FuncTypes, FuncTypes, D!ControlOps, ControlOps, D!LocalOps, LocalOps,
         D!DataOps, DataOps, D!ValTypes, ValTypes, D!NumTypes, NumTypes,
         D!RefTypes, RefTypes, D!TypedOps, TypedOps, D!EntityOps, EntityOps

----------------------------------------------------------------------------
(***************************************************************************)
(* The copy of memory 0.                                                   *)
(***************************************************************************)
CopyInv == CopyCurrent /\ (build = "tco" => phase = "ready")

\* No handler but that of call_indirect leaves the copy behind.
LEMMA StepCopies ==
  ASSUME NEW k \in 1..Len(code), TailStep(k), CopyCurrent
  PROVE  CopyCurrent'
  <1>1. /\ build = "tco" /\ status = "running"
        /\ UNCHANGED vars
        /\ build' = build
    BY DEF TailStep, Handle, TailNop, TailUnreachable, TailIf, TailElse, TailEnd, TailBr,
       TailBrIf, TailBrTable, TailCall, TailCallIndirect, TailAccess, TailMemorySize,
       TailMemoryGrow, TailSelect, TailLocal, TailConst, TailNumeric, TailConvert,
       TailEntity, TailRef, TailTable, TailBulk, TailBelowBase, Computes
  <1>2. \/ UNCHANGED memvars
        \/ \E n : Refetched(n)
        \/ Ins(k).op = "call_indirect"
    BY DEF TailStep, TailNop, TailUnreachable, TailIf, TailElse, TailEnd, TailBr,
       TailBrIf, TailBrTable, TailCall, TailCallIndirect, TailAccess, TailMemorySize,
       TailMemoryGrow, TailSelect, TailLocal, TailConst, TailNumeric, TailConvert,
       TailEntity, TailRef, TailTable, TailBulk, TailBelowBase, Computes, AfterCall
  <1>3. Calls("call_indirect")' <=> Calls("call_indirect")
    BY <1>1 DEF vars, Calls, Ins
  <1> QED BY <1>1, <1>2, <1>3 DEF CopyCurrent, Current, Refetched, memvars, Calls

\* A step of the validator is a step of decoding.
LEMMA NextDecodes ==
  ASSUME Next
  PROVE  phase = "decode"
  BY DEF Next, Step, on_decode_end, Reject, Truncated, EmptyVecAccess, on_unreachable,
     on_nop, on_block, on_else, on_end, on_br_or_if, on_br_table, on_return, on_call,
     on_data, Decode

\* Every step of either build keeps the copy.
LEMMA NextCopies ==
  ASSUME CopyInv, [BothNext]_tailvars
  PROVE  CopyInv'
  <1>1. CASE Validate /\ UNCHANGED <<build, handler, memvars>>
    BY <1>1, NextDecodes DEF CopyInv, CopyCurrent, Validate
  <1>2. CASE StartDt
    BY <1>2 DEF StartDt, CopyInv, CopyCurrent
  <1>3. CASE TailStart
    BY <1>3 DEF TailStart, CopyInv, CopyCurrent, Current, Refetched, vars
  <1>4. CASE ExecuteDt
    BY <1>4 DEF ExecuteDt, CopyInv, CopyCurrent
  <1>5. CASE \E k \in 1..Len(code) : TailStep(k)
    <2>1. PICK k \in 1..Len(code) : TailStep(k)
      BY <1>5
    <2>2. build' = build /\ phase' = phase
      BY <2>1 DEF TailStep, Handle, TailNop, TailUnreachable, TailIf, TailElse, TailEnd,
         TailBr, TailBrIf, TailBrTable, TailCall, TailCallIndirect, TailAccess,
         TailMemorySize, TailMemoryGrow, TailSelect, TailLocal, TailConst, TailNumeric,
         TailConvert, TailEntity, TailRef, TailTable, TailBulk, TailBelowBase, Computes,
         vars
    <2> QED BY <2>1, <2>2, StepCopies DEF CopyInv
  <1>6. CASE TailBadFetch
    BY <1>6 DEF TailBadFetch, Leave, Stop, CopyInv, CopyCurrent, vars
  <1>7. CASE UNCHANGED tailvars
    BY <1>7 DEF tailvars, allvars, vars, runvars, memvars, CopyInv, CopyCurrent, Current,
       Calls, Ins
  <1>8. CASE Finished /\ UNCHANGED <<build, handler, memvars>>
    BY <1>7, <1>8 DEF Finished, tailvars
  <1> QED BY <1>1, <1>2, <1>3, <1>4, <1>5, <1>6, <1>7, <1>8 DEF BothNext, ExecuteTco

(***************************************************************************)
(* In a function without call_indirect the tail-call build's copy of the   *)
(* address and of the size of memory 0 is the memory's at every            *)
(* instruction, for every function, every memory and every callee that     *)
(* only grows it (in_place_tco.c fetches it again behind call and          *)
(* memory.grow).                                                           *)
(***************************************************************************)
THEOREM CopyStaysCurrent == BothSpec => []CopyCurrent
  <1>1. BothInit => CopyInv
    BY DEF BothInit, CopyInv, CopyCurrent
  <1>2. CopyInv /\ [BothNext]_tailvars => CopyInv'
    BY NextCopies
  <1>3. CopyInv => CopyCurrent
    BY DEF CopyInv
  <1> QED BY <1>1, <1>2, <1>3, PTL DEF BothSpec

----------------------------------------------------------------------------
(***************************************************************************)
(* The validator's state is the same to both: its steps are those of the   *)
(* interpreter that SoundnessProofs is about.                              *)
(***************************************************************************)
\* unreachable.
LEMMA SameUnreachable ==
  ASSUME NEW ins, on_unreachable(ins)
  PROVE  D!on_unreachable(ins)
  BY DEF on_unreachable, D!on_unreachable, Decode, D!Decode, Top, D!Top, Unreachable,
       D!Unreachable, Skip, D!Skip, Fits, D!Fits, TouchesFrame, D!TouchesFrame, Valid,
       D!Valid, InDeadCode, D!InDeadCode, Size, D!Size, IndexOk, D!IndexOk, Operands,
       D!Operands, CanPop, D!CanPop, SelectOk, D!SelectOk, label_types, D!label_types,
       LabelFrame, D!LabelFrame, BrTableOk, D!BrTableOk, LocalOps, D!LocalOps, LocalTypes,
       D!LocalTypes, EntityOps, D!EntityOps, DataOps, D!DataOps, Sig, D!Sig, Taken,
       D!Taken, Matches, D!Matches, is_num, D!is_num, Peek, D!Peek, LabelAt, D!LabelAt,
       PopVals, D!PopVals, RefSig, D!RefSig, is_ref, D!is_ref, NumTypes, D!NumTypes,
       RefTypes, D!RefTypes

\* nop.
LEMMA SameNop ==
  ASSUME NEW ins, on_nop(ins)
  PROVE  D!on_nop(ins)
  BY DEF on_nop, D!on_nop, Decode, D!Decode, Skip, D!Skip, Fits, D!Fits, TouchesFrame,
       D!TouchesFrame, Valid, D!Valid, InDeadCode, D!InDeadCode, Size, D!Size, IndexOk,
       D!IndexOk, Operands, D!Operands, CanPop, D!CanPop, Top, D!Top, SelectOk,
       D!SelectOk, label_types, D!label_types, LabelFrame, D!LabelFrame, BrTableOk,
       D!BrTableOk, LocalOps, D!LocalOps, LocalTypes, D!LocalTypes, EntityOps,
       D!EntityOps, DataOps, D!DataOps, Sig, D!Sig, Taken, D!Taken, Matches, D!Matches,
       is_num, D!is_num, Peek, D!Peek, LabelAt, D!LabelAt, PopVals, D!PopVals, RefSig,
       D!RefSig, is_ref, D!is_ref, NumTypes, D!NumTypes, RefTypes, D!RefTypes

\* block, loop and if.
LEMMA SameBlock ==
  ASSUME NEW ins, on_block(ins)
  PROVE  D!on_block(ins)
  BY DEF on_block, D!on_block, Decode, D!Decode, AfterOperands, D!AfterOperands, NewFrame,
       D!NewFrame, Imm, D!Imm, NewSlot, D!NewSlot, Raise, D!Raise, Skip, D!Skip, Fits,
       D!Fits, TouchesFrame, D!TouchesFrame, Valid, D!Valid, InDeadCode, D!InDeadCode,
       Size, D!Size, Operands, D!Operands, PopVals, D!PopVals, Top, D!Top, U32, D!U32,
       U16, D!U16, JUMP_TABLE_IDX_INVALID, D!JUMP_TABLE_IDX_INVALID, IndexOk, D!IndexOk,
       CanPop, D!CanPop, SelectOk, D!SelectOk, label_types, D!label_types, LabelFrame,
       D!LabelFrame, BrTableOk, D!BrTableOk, LocalTypes, D!LocalTypes, DataOps, D!DataOps,
       Sig, D!Sig, Taken, D!Taken, LocalOps, D!LocalOps, EntityOps, D!EntityOps, Matches,
       D!Matches, is_num, D!is_num, Peek, D!Peek, LabelAt, D!LabelAt, RefSig, D!RefSig,
       is_ref, D!is_ref, NumTypes, D!NumTypes, RefTypes, D!RefTypes

\* else.
LEMMA SameElse ==
  ASSUME NEW ins, on_else(ins)
  PROVE  D!on_else(ins)
  BY DEF on_else, D!on_else, Decode, D!Decode, Top, D!Top, NewFrame, D!NewFrame,
       AfterPopCtrl, D!AfterPopCtrl, Resolve, D!Resolve, Imm, D!Imm, NewSlot, D!NewSlot,
       PopFrame, D!PopFrame, Raise, D!Raise, Skip, D!Skip, Leftover, D!Leftover, Fits,
       D!Fits, TouchesFrame, D!TouchesFrame, Valid, D!Valid, InDeadCode, D!InDeadCode,
       Size, D!Size, PopVals, D!PopVals, U32, D!U32, U16, D!U16, JUMP_TABLE_IDX_INVALID,
       D!JUMP_TABLE_IDX_INVALID, IndexOk, D!IndexOk, Operands, D!Operands, CanPop,
       D!CanPop, SelectOk, D!SelectOk, label_types, D!label_types, LabelFrame,
       D!LabelFrame, BrTableOk, D!BrTableOk, Taken, D!Taken, LocalOps, D!LocalOps,
       LocalTypes, D!LocalTypes, EntityOps, D!EntityOps, DataOps, D!DataOps, Sig, D!Sig,
       Matches, D!Matches, is_num, D!is_num, Peek, D!Peek, LabelAt, D!LabelAt, RefSig,
       D!RefSig, is_ref, D!is_ref, NumTypes, D!NumTypes, RefTypes, D!RefTypes, Min, D!Min

\* end.
LEMMA SameEnd ==
  ASSUME NEW ins, on_end(ins)
  PROVE  D!on_end(ins)
  BY DEF on_end, D!on_end, Decode, D!Decode, Top, D!Top, Resolve, D!Resolve, EndTarget,
       D!EndTarget, AfterPopCtrl, D!AfterPopCtrl, PopFrame, D!PopFrame, Skip, D!Skip,
       Leftover, D!Leftover, Raise, D!Raise, Fits, D!Fits, TouchesFrame, D!TouchesFrame,
       Valid, D!Valid, InDeadCode, D!InDeadCode, Size, D!Size, Imm, D!Imm, PopVals,
       D!PopVals, IndexOk, D!IndexOk, Operands, D!Operands, CanPop, D!CanPop, SelectOk,
       D!SelectOk, label_types, D!label_types, LabelFrame, D!LabelFrame, BrTableOk,
       D!BrTableOk, Taken, D!Taken, LocalOps, D!LocalOps, LocalTypes, D!LocalTypes,
       EntityOps, D!EntityOps, DataOps, D!DataOps, Sig, D!Sig, Matches, D!Matches, is_num,
       D!is_num, Peek, D!Peek, LabelAt, D!LabelAt, RefSig, D!RefSig, is_ref, D!is_ref,
       NumTypes, D!NumTypes, RefTypes, D!RefTypes

\* br and br_if.
LEMMA SameBrOrIf ==
  ASSUME NEW ins, on_br_or_if(ins)
  PROVE  D!on_br_or_if(ins)
  BY DEF on_br_or_if, D!on_br_or_if, Decode, D!Decode, LabelFrame, D!LabelFrame,
       label_types, D!label_types, PopVals, D!PopVals, Top, D!Top, LabelAt, D!LabelAt,
       NewSlot, D!NewSlot, Imm, D!Imm, Unreachable, D!Unreachable, Raise, D!Raise, Skip,
       D!Skip, Fits, D!Fits, TouchesFrame, D!TouchesFrame, Valid, D!Valid, InDeadCode,
       D!InDeadCode, Size, D!Size, Taken, D!Taken, U32, D!U32, U16, D!U16,
       JUMP_TABLE_IDX_INVALID, D!JUMP_TABLE_IDX_INVALID, IndexOk, D!IndexOk, Operands,
       D!Operands, CanPop, D!CanPop, SelectOk, D!SelectOk, BrTableOk, D!BrTableOk,
       LocalOps, D!LocalOps, LocalTypes, D!LocalTypes, EntityOps, D!EntityOps, DataOps,
       D!DataOps, Sig, D!Sig, Matches, D!Matches, is_num, D!is_num, Peek, D!Peek, RefSig,
       D!RefSig, is_ref, D!is_ref, NumTypes, D!NumTypes, RefTypes, D!RefTypes

\* br_table.
LEMMA SameBrTable ==
  ASSUME NEW ins, on_br_table(ins)
  PROVE  D!on_br_table(ins)
  BY DEF on_br_table, D!on_br_table, Decode, D!Decode, PopVals, D!PopVals, Top, D!Top,
       label_types, D!label_types, LabelFrame, D!LabelFrame, NewSlot, D!NewSlot, Size,
       D!Size, Unreachable, D!Unreachable, LabelAt, D!LabelAt, Raise, D!Raise, Skip,
       D!Skip, Fits, D!Fits, TouchesFrame, D!TouchesFrame, Valid, D!Valid, InDeadCode,
       D!InDeadCode, Taken, D!Taken, U32, D!U32, U16, D!U16, JUMP_TABLE_IDX_INVALID,
       D!JUMP_TABLE_IDX_INVALID, IndexOk, D!IndexOk, Operands, D!Operands, CanPop,
       D!CanPop, SelectOk, D!SelectOk, BrTableOk, D!BrTableOk, LocalOps, D!LocalOps,
       LocalTypes, D!LocalTypes, EntityOps, D!EntityOps, DataOps, D!DataOps, Sig, D!Sig,
       Matches, D!Matches, is_num, D!is_num, Peek, D!Peek, RefSig, D!RefSig, is_ref,
       D!is_ref, NumTypes, D!NumTypes, RefTypes, D!RefTypes

\* return.
LEMMA SameReturn ==
  ASSUME NEW ins, on_return(ins)
  PROVE  D!on_return(ins)
  BY DEF on_return, D!on_return, Decode, D!Decode, Top, D!Top, Unreachable, D!Unreachable,
       Skip, D!Skip, Fits, D!Fits, TouchesFrame, D!TouchesFrame, Valid, D!Valid,
       InDeadCode, D!InDeadCode, Size, D!Size, IndexOk, D!IndexOk, Operands, D!Operands,
       CanPop, D!CanPop, SelectOk, D!SelectOk, label_types, D!label_types, LabelFrame,
       D!LabelFrame, BrTableOk, D!BrTableOk, LocalOps, D!LocalOps, LocalTypes,
       D!LocalTypes, EntityOps, D!EntityOps, DataOps, D!DataOps, Sig, D!Sig, Taken,
       D!Taken, Matches, D!Matches, is_num, D!is_num, Peek, D!Peek, LabelAt, D!LabelAt,
       PopVals, D!PopVals, RefSig, D!RefSig, is_ref, D!is_ref, NumTypes, D!NumTypes,
       RefTypes, D!RefTypes

\* call.
LEMMA SameCall ==
  ASSUME NEW ins, on_call(ins)
  PROVE  D!on_call(ins)
  BY DEF on_call, D!on_call, Decode, D!Decode, AfterOperands, D!AfterOperands,
       DeclaredLocals, D!DeclaredLocals, Raise, D!Raise, Skip, D!Skip, Fits, D!Fits,
       TouchesFrame, D!TouchesFrame, Valid, D!Valid, InDeadCode, D!InDeadCode, Size,
       D!Size, Operands, D!Operands, PopVals, D!PopVals, Top, D!Top, IndexOk, D!IndexOk,
       CanPop, D!CanPop, SelectOk, D!SelectOk, label_types, D!label_types, LabelFrame,
       D!LabelFrame, BrTableOk, D!BrTableOk, LocalTypes, D!LocalTypes, DataOps, D!DataOps,
       Sig, D!Sig, Taken, D!Taken, LocalOps, D!LocalOps, EntityOps, D!EntityOps, Matches,
       D!Matches, is_num, D!is_num, Peek, D!Peek, LabelAt, D!LabelAt, RefSig, D!RefSig,
       is_ref, D!is_ref, NumTypes, D!NumTypes, RefTypes, D!RefTypes

\* The data instructions.
LEMMA SameData ==
  ASSUME NEW ins, on_data(ins)
  PROVE  D!on_data(ins)
  BY DEF on_data, D!on_data, LocalOps, D!LocalOps, DataOps, D!DataOps, Decode, D!Decode,
       AfterOperands, D!AfterOperands, Pushes, D!Pushes, Raise, D!Raise, Skip, D!Skip,
       EntityOps, D!EntityOps, Fits, D!Fits, TouchesFrame, D!TouchesFrame, Valid, D!Valid,
       InDeadCode, D!InDeadCode, Size, D!Size, Operands, D!Operands, PopVals, D!PopVals,
       Top, D!Top, LocalTypes, D!LocalTypes, Peek, D!Peek, Sig, D!Sig, IndexOk, D!IndexOk,
       CanPop, D!CanPop, SelectOk, D!SelectOk, label_types, D!label_types, LabelFrame,
       D!LabelFrame, BrTableOk, D!BrTableOk, Taken, D!Taken, RefSig, D!RefSig, Matches,
       D!Matches, is_num, D!is_num, LabelAt, D!LabelAt, is_ref, D!is_ref, NumTypes,
       D!NumTypes, RefTypes, D!RefTypes

\* The end of the code.
LEMMA SameDecodeEnd ==
  ASSUME on_decode_end
  PROVE  D!on_decode_end
  BY DEF on_decode_end, D!on_decode_end, EndDecoded, D!EndDecoded, Link, D!Link, NextSlots,
       D!NextSlots, U16, D!U16, SlotsAhead, D!SlotsAhead, SlotsBehind, D!SlotsBehind,
       Target, D!Target, Min, D!Min

\* A failing check.
LEMMA SameReject ==
  ASSUME Reject
  PROVE  D!Reject
  BY DEF Reject, D!Reject, Fits, D!Fits, TouchesFrame, D!TouchesFrame, Valid, D!Valid, Quit,
       D!Quit, IndexOk, D!IndexOk, Operands, D!Operands, CanPop, D!CanPop, Top, D!Top,
       SelectOk, D!SelectOk, label_types, D!label_types, LabelFrame, D!LabelFrame,
       BrTableOk, D!BrTableOk, LocalOps, D!LocalOps, LocalTypes, D!LocalTypes, EntityOps,
       D!EntityOps, DataOps, D!DataOps, Sig, D!Sig, Taken, D!Taken, Matches, D!Matches,
       is_num, D!is_num, Peek, D!Peek, LabelAt, D!LabelAt, PopVals, D!PopVals, RefSig,
       D!RefSig, is_ref, D!is_ref, NumTypes, D!NumTypes, RefTypes, D!RefTypes

\* The end of the code inside an instruction.
LEMMA SameTruncated ==
  ASSUME Truncated
  PROVE  D!Truncated
  BY DEF Truncated, D!Truncated, EndDecoded, D!EndDecoded, Quit, D!Quit

\* An instruction behind the end of the function.
LEMMA SameEmpty ==
  ASSUME EmptyVecAccess
  PROVE  D!EmptyVecAccess
  BY DEF EmptyVecAccess, D!EmptyVecAccess, Fits, D!Fits, TouchesFrame, D!TouchesFrame, Quit,
       D!Quit, IndexOk, D!IndexOk, Operands, D!Operands, LocalOps, D!LocalOps, LocalTypes,
       D!LocalTypes, EntityOps, D!EntityOps, DataOps, D!DataOps, Sig, D!Sig, RefSig,
       D!RefSig

\* Every step of the validator.
LEMMA SameNext ==
  ASSUME Next
  PROVE  D!Next
  BY SameUnreachable, SameNop, SameBlock, SameElse, SameEnd, SameBrOrIf, SameBrTable,
     SameReturn, SameCall, SameData, SameDecodeEnd, SameReject, SameTruncated, SameEmpty
     DEF Next, D!Next, Step, D!Step

----------------------------------------------------------------------------
(***************************************************************************)
(* So are the operators on the stack and on the jump table.                *)
(***************************************************************************)
\* What a handler reads.
LEMMA AlikeReads ==
  ASSUME NEW k
  PROVE  /\ D!Ins(k) = Ins(k) /\ D!DataEffect(Ins(k)) = DataEffect(Ins(k))
         /\ D!NextAt(k) = NextAt(k) /\ D!Reads(k) = Reads(k)
         /\ D!Enough(k) <=> Enough(k)
  <1>1. /\ D!Ins(k) = Ins(k) /\ D!NextAt(k) = NextAt(k)
        /\ D!DataOps = DataOps
    BY DEF D!Ins, Ins, D!NextAt, NextAt, D!Size, Size, D!LocalOps, LocalOps,
       D!DataOps, DataOps, D!EntityOps, EntityOps
  <1>2. D!DataEffect(Ins(k)) = DataEffect(Ins(k))
    BY DEF D!DataEffect, DataEffect, D!RefEffect, RefEffect, D!Effect, Effect
  <1>3. D!Reads(k) = Reads(k)
    BY <1>1, <1>2 DEF D!Reads, Reads
  <1> QED BY <1>1, <1>2, <1>3 DEF D!Enough, Enough

\* What a handler does to the stack.
LEMMA AlikeStacks ==
  /\ \A n : D!Pop(n) = Pop(n) /\ D!Topmost(n) = Topmost(n)
  /\ \A k, ts : D!Made(k, ts) = Made(k, ts)
  /\ \A fn : D!ArrayTooSmall(fn) <=> ArrayTooSmall(fn)
  /\ D!LocalOps = LocalOps /\ D!DataOps = DataOps /\ D!EntityOps = EntityOps
  /\ D!LocalTypes = LocalTypes
  BY DEF D!Pop, Pop, D!Topmost, Topmost, D!Made, Made, D!ArrayTooSmall, ArrayTooSmall,
     D!LocalOps, LocalOps, D!DataOps, DataOps, D!EntityOps, EntityOps,
     D!LocalTypes, LocalTypes

\* What a jump does.
LEMMA AlikeJumps ==
  /\ \A n : D!U16(n) = U16(n)
  /\ \A i, from : D!SlotOk(i, from) <=> SlotOk(i, from)
  /\ \A slot, s : /\ D!MoveOk(slot, s) <=> MoveOk(slot, s)
                  /\ D!Moved(slot, s) = Moved(slot, s)
  /\ \A slot : D!Target(slot) = Target(slot)
  /\ \A k : D!Imm1(k) = Imm1(k)
  BY DEF D!U16, U16, D!SlotOk, SlotOk, D!MoveOk, MoveOk, D!Moved, Moved, D!Target, Target,
     D!Imm1, Imm1

----------------------------------------------------------------------------
(***************************************************************************)
(* The direct-threaded build.  Its pc is the place.                        *)
(***************************************************************************)
\* Its steps.
LEMMA DtStep ==
  ASSUME build # "tco", build' = build, NEW k, RunStep(k)
  PROVE  D!RunStep(k)
  <1>1. Place = pc /\ Place' = pc'
    BY DEF Place
  <1>2. At(k) <=> D!At(k)
    BY <1>1 DEF At, D!At
  <1>3. UNCHANGED vars <=> UNCHANGED D!vars
    BY DEF vars, D!vars
  <1>4. Run(k) <=> D!Run(k)
    BY <1>2, <1>3, AlikeReads DEF Run, D!Run
  <1>5. \A how : Stop(how) <=> D!Stop(how)
    BY <1>1 DEF Stop, D!Stop
  <1>6. \A s, l, i : Continue(k, s, l, i) <=> D!Continue(k, s, l, i)
    BY <1>1, <1>5, AlikeReads DEF Continue, D!Continue
  <1>7. \A i, from, s, move : Jump(i, from, s, move) <=> D!Jump(i, from, s, move)
    BY <1>1, <1>5, AlikeJumps DEF Jump, D!Jump
  <1>8. Return <=> D!Return
    BY <1>1, AlikeStacks DEF Return, D!Return
  <1>9. RunNop(k) \/ RunUnreachable(k) => D!RunNop(k) \/ D!RunUnreachable(k)
    BY <1>4, <1>5, <1>6, AlikeReads
       DEF RunNop, D!RunNop, RunUnreachable, D!RunUnreachable
  <1>10. RunIf(k) \/ RunElse(k) => D!RunIf(k) \/ D!RunElse(k)
    BY <1>4, <1>6, <1>7, AlikeReads, AlikeStacks, AlikeJumps
       DEF RunIf, D!RunIf, RunElse, D!RunElse
  <1>11. RunEnd(k) \/ RunReturn(k) => D!RunEnd(k) \/ D!RunReturn(k)
    BY <1>4, <1>6, <1>8, AlikeReads DEF RunEnd, D!RunEnd, RunReturn, D!RunReturn
  <1>12. RunBr(k) \/ RunBrIf(k) => D!RunBr(k) \/ D!RunBrIf(k)
    BY <1>4, <1>6, <1>7, AlikeReads, AlikeStacks, AlikeJumps
       DEF RunBr, D!RunBr, RunBrIf, D!RunBrIf
  <1>13. RunBrTable(k) => D!RunBrTable(k)
    BY <1>4, <1>7, AlikeReads, AlikeStacks, AlikeJumps DEF RunBrTable, D!RunBrTable
  <1>14. RunCall(k) => D!RunCall(k)
    BY <1>4, <1>5, <1>6, AlikeReads, AlikeStacks DEF RunCall, D!RunCall
  <1>15. RunCallIndirect(k) => D!RunCallIndirect(k)
    BY <1>4, <1>5, <1>6, AlikeReads, AlikeStacks DEF RunCallIndirect, D!RunCallIndirect
  <1>16. RunSelect(k) => D!RunSelect(k)
    BY <1>4, <1>6, AlikeReads, AlikeStacks DEF RunSelect, D!RunSelect
  <1>17. RunLocal(k) => D!RunLocal(k)
    <2> SUFFICES ASSUME RunLocal(k) PROVE D!RunLocal(k)
      OBVIOUS
    <2> DEFINE i == Ins(k).idx + 1
    <2>1. D!Ins(k) = Ins(k) /\ Ins(k).op \in LocalOps /\ D!Run(k)
      BY <1>4, AlikeReads DEF RunLocal
    <2>2. CASE Ins(k).op = "local_get"
      <3>1. Continue(k, Append(stack, local[i]), local, next_jt_idx)
        BY <2>2 DEF RunLocal
      <3> QED BY <1>6, <2>1, <2>2, <3>1, AlikeStacks DEF D!RunLocal
    <2>3. CASE Ins(k).op = "local_set"
      <3>1. Continue(k, Pop(1), [local EXCEPT ![i] = Topmost(1)[1]], next_jt_idx)
        BY <2>3 DEF RunLocal
      <3> QED BY <1>6, <2>1, <2>3, <3>1, AlikeStacks DEF D!RunLocal
    <2>4. CASE Ins(k).op \notin {"local_get", "local_set"}
      <3>1. Continue(k, stack, [local EXCEPT ![i] = Topmost(1)[1]], next_jt_idx)
        BY <2>4 DEF RunLocal
      <3> QED BY <1>6, <2>1, <2>4, <3>1, AlikeStacks DEF D!RunLocal
    <2> QED BY <2>2, <2>3, <2>4
  <1>18. RunData(k) => D!RunData(k)
    BY <1>4, <1>5, <1>6, AlikeReads, AlikeStacks DEF RunData, D!RunData
  <1>19. ReadBelowBase(k) => D!ReadBelowBase(k)
    BY <1>2, <1>3, <1>5, AlikeReads DEF ReadBelowBase, D!ReadBelowBase
  <1> QED
    BY <1>9, <1>10, <1>11, <1>12, <1>13, <1>14, <1>15, <1>16, <1>17, <1>18, <1>19
       DEF RunStep, D!RunStep

\* Its activation, and what it does elsewhere.
LEMMA DtExecutes ==
  ASSUME build # "tco", build' # "tco",
         \/ Start
         \/ Execute /\ build' = build
         \/ Finished /\ build' = build
  PROVE  D!RunNext
  <1>1. Place = pc /\ Place' = pc'
    BY DEF Place
  <1>2. UNCHANGED vars <=> UNCHANGED D!vars
    BY DEF vars, D!vars
  <1>3. Start => D!Start
    BY <1>1, <1>2, AlikeStacks DEF Start, D!Start, ARG, D!ARG, ZERO, D!ZERO
  <1>4. BadFetch => D!BadFetch
    BY <1>1, <1>2 DEF BadFetch, D!BadFetch, Stop, D!Stop
  <1>5. Execute /\ build' = build => D!Execute
    BY <1>4, DtStep DEF Execute, D!Execute
  <1>6. Finished => D!Finished
    BY <1>1, <1>2 DEF Finished, D!Finished, allvars, D!allvars, runvars, D!runvars
  <1> QED BY <1>3, <1>5, <1>6 DEF D!RunNext

----------------------------------------------------------------------------
(***************************************************************************)
(* The tail-call build in a function that passed every check.  Its handler *)
(* is at the instruction whose opcode was read last.                       *)
(***************************************************************************)
Handling(k) ==
  /\ D!SoundInv /\ D!Checked
  /\ k \in 1..Len(code)
  /\ build = "tco" /\ status = "running" /\ pc = code[k].at + 1

\* What a handler may rely on.
LEMMA HandlingFacts ==
  ASSUME NEW k, Handling(k)
  PROVE  /\ D!At(k) /\ Place = code[k].at /\ code[k].at \in Nat /\ pc \in Nat
         /\ NextAt(k) = code[k].at + Size(Ins(k)) /\ NextAt(k) \in Nat
         /\ phase = "ready" /\ Len(stack) \in Nat /\ stack \in Seq(D!Values)
         /\ Len(stack) <= stack_size_max /\ stack_size_max \in Nat
         /\ jt \in Seq(D!Slots) /\ next_jt_idx \in Nat
         /\ Ins(k) \in Instrs
         /\ Ins(k).op \in EntityOps => Ins(k).there
  <1>1. D!TInv /\ D!TypeOK /\ D!Activated /\ D!RunTypeOK /\ D!FlowInv /\ D!Ready /\ D!Sound
    BY DEF Handling, D!SoundInv, D!RunInv, D!VInv, D!TInv, D!Activated
  <1>2. code[k].at \in Nat /\ code[k].ins \in Instrs /\ D!NextAt(k) \in Nat
    BY <1>1, DtCode DEF Handling
  <1>3. Place = code[k].at /\ pc \in Nat
    BY <1>2 DEF Handling, Place
  <1>4. phase = "ready" /\ ctrl_stack = << >> /\ D!Roomy /\ D!There
    BY <1>1 DEF Handling, D!Activated, D!Ready, D!FlowInv, D!FlowParts, D!Checked
  <1>5. D!Arrives(Place, D!TypesOf(stack))
    BY <1>1 DEF Handling, D!Sound
  <1>6. stack \in Seq(D!Values) /\ next_jt_idx \in Nat
    BY <1>1, WidthAssumption DEF D!RunTypeOK
  <1>7. Len(D!TypesOf(stack)) <= stack_size_max
    BY <1>4, <1>5, DtFits
  <1>8. Len(D!TypesOf(stack)) = Len(stack) /\ Len(stack) \in Nat
    BY <1>6 DEF D!TypesOf
  <1>9. jt \in Seq(D!Slots) /\ stack_size_max \in Nat
    BY <1>1 DEF D!TypeOK
  <1>10. Ins(k).op \in EntityOps => Ins(k).there
    BY <1>4 DEF D!There, Ins, Handling, D!EntityOps, EntityOps
  <1>11. NextAt(k) = code[k].at + Size(Ins(k)) /\ NextAt(k) \in Nat
    BY <1>2, AlikeReads DEF NextAt, Ins
  <1>12. D!At(k)
    BY <1>3 DEF Handling, D!At
  <1> QED BY <1>2, <1>3, <1>4, <1>6, <1>7, <1>8, <1>9, <1>10, <1>11, <1>12 DEF Ins

\* A handler steps over as many bytes as the decoder read.
LEMMA StepsOver ==
  ASSUME NEW ins,
         \/ ins.op \in LocalOps \cup DataOps
         \/ ins.op \in {"nop", "block", "loop", "end", "call"}
  PROVE  Size(ins) = 1 + Stepped(ins)
  BY DEF Size, Stepped, LocalOps, DataOps

\* Where a handler goes: it reads the next opcode, or the activation ends.
Fetches == status' # "running" \/ \E p \in Int : ReadNextOp(p)

\* An activation that ends stays where it is.
LEMMA TailLeaves ==
  ASSUME build = "tco", build' = build, NEW how, how # "running", Leave(how)
  PROVE  D!Stop(how) /\ Fetches
  BY DEF Leave, Stop, D!Stop, Place, Fetches

\* A handler that goes on with the instruction behind its own.
LEMMA TailGoes ==
  ASSUME NEW k, Handling(k), build' = build, NEW s, NEW l, Go(k, s, l),
         \/ Ins(k).op \in LocalOps \cup DataOps
         \/ Ins(k).op \in {"nop", "block", "loop", "end", "call"}
  PROVE  D!Continue(k, s, l, next_jt_idx) /\ Fetches
  <1>1. Size(Ins(k)) = 1 + Stepped(Ins(k))
    BY StepsOver
  <1>2. /\ NextAt(k) = code[k].at + Size(Ins(k)) /\ pc = code[k].at + 1
        /\ NextAt(k) \in Nat /\ code[k].at \in Int
    BY HandlingFacts DEF Handling
  <1>3. Stepped(Ins(k)) \in Int
    BY DEF Stepped
  <1>4. pc + Stepped(Ins(k)) = NextAt(k)
    BY <1>1, <1>2, <1>3
  <1>5. NextOp(NextAt(k), s, l, next_jt_idx)
    BY <1>4 DEF Go
  <1>6. CASE Len(s) > stack_size_max
    BY <1>5, <1>6, TailLeaves DEF NextOp, Leave, D!Continue, Handling
  <1>7. CASE ~(Len(s) > stack_size_max)
    <2>1. ReadNextOp(NextAt(k)) /\ pc' = NextAt(k) + 1
      BY <1>5, <1>7 DEF NextOp, ReadNextOp
    <2>2. Place' = NextAt(k)
      BY <1>2, <2>1 DEF Place, Handling
    <2>3. D!Continue(k, s, l, next_jt_idx)
      BY <1>5, <1>7, <2>2, AlikeReads DEF NextOp, D!Continue
    <2> QED BY <1>2, <2>1, <2>3 DEF Fetches
  <1> QED BY <1>6, <1>7

\* A branch that is not taken, or a condition that holds.
LEMMA TailPasses ==
  ASSUME NEW k, Handling(k), build' = build, NEW s, NEW i, Len(s) <= stack_size_max,
         Len(s) \in Nat, NextOp(pc + 1, s, local, i), Ins(k).op \in {"if", "br_if"}
  PROVE  D!Continue(k, s, local, i) /\ Fetches
  <1>0. Size(Ins(k)) = 2
    BY SMTT(30) DEF Size
  <1>1. NextAt(k) = pc + 1 /\ NextAt(k) \in Nat /\ stack_size_max \in Nat
    BY <1>0, HandlingFacts DEF Handling
  <1>2. ReadNextOp(NextAt(k)) /\ pc' = NextAt(k) + 1
    BY <1>1 DEF NextOp, ReadNextOp
  <1>3. Place' = NextAt(k)
    BY <1>1, <1>2 DEF Place, Handling
  <1>4. D!Continue(k, s, local, i)
    BY <1>1, <1>3, AlikeReads DEF NextOp, D!Continue
  <1> QED BY <1>1, <1>2, <1>4 DEF Fetches

\* Moving operands down makes no stack longer.
LEMMA MovedShort ==
  ASSUME NEW S, NEW s \in Seq(S), NEW slot \in D!Slots, MoveOk(slot, s)
  PROVE  Len(Moved(slot, s)) \in Nat /\ Len(Moved(slot, s)) <= Len(s)
  <1> DEFINE so == slot.stack_offset
             n == slot.arity
  <1>1. so \in Nat /\ n \in Nat /\ Len(s) \in Nat
    BY DEF D!Slots
  <1>2. CASE so = 0
    BY <1>1, <1>2 DEF Moved
  <1>3. CASE so # 0
    <2>1. Len(s) >= so + n
      BY <1>3 DEF MoveOk
    <2>2. PICK a, b : a = SubSeq(s, 1, Len(s) - so - n) /\ b = SubSeq(s, Len(s) - n + 1, Len(s))
      OBVIOUS
    <2>3. a \in Seq(S) /\ Len(a) = Len(s) - so - n
      <3>1. Len(s) - so - n \in 0..Len(s)
        BY <1>1, <2>1
      <3> QED BY <2>2, <3>1, DtParts
    <2>4. b \in Seq(S) /\ Len(b) = n
      <3>1. n \in 0..Len(s)
        BY <1>1, <2>1
      <3> QED BY <2>2, <3>1, DtParts
    <2>5. Moved(slot, s) = a \o b
      BY <1>3, <2>2 DEF Moved
    <2> QED BY <1>1, <2>3, <2>4, <2>5
  <1> QED BY <1>2, <1>3

\* A jump through the table.
LEMMA TailJumps ==
  ASSUME NEW k, Handling(k), build' = build, NEW i \in Nat, NEW from,
         NEW s \in Seq(D!Values), Len(s) <= Len(stack), NEW move \in BOOLEAN,
         TailJump(i, from, s, move)
  PROVE  D!Jump(i, from, s, move) /\ Fetches
  <1>1. /\ jt \in Seq(D!Slots) /\ stack_size_max \in Nat /\ Len(s) <= stack_size_max
        /\ Len(s) \in Nat /\ build = "tco"
    BY HandlingFacts DEF Handling
  <1>2. CASE ~SlotOk(i, from)
    <2>1. Leave("bad_slot")
      BY <1>2 DEF TailJump
    <2> QED BY <1>1, <1>2, <2>1, TailLeaves, AlikeJumps DEF D!Jump
  <1>3. CASE SlotOk(i, from)
    <2> DEFINE slot == jt[i + 1]
    <2>1. slot \in D!Slots
      BY <1>1, <1>3 DEF SlotOk
    <2>2. CASE move /\ ~MoveOk(slot, s)
      <3>1. Leave("bad_stack")
        BY <1>3, <2>2 DEF TailJump
      <3> QED BY <1>1, <1>3, <2>2, <3>1, TailLeaves, AlikeJumps DEF D!Jump
    <2>3. CASE ~(move /\ ~MoveOk(slot, s))
      <3>1. PICK w : w = IF move THEN Moved(slot, s) ELSE s
        OBVIOUS
      <3>2. PICK p : p = Target(slot)
        OBVIOUS
      <3>3. NextOp(p, w, local, slot.next_idx)
        BY <1>3, <2>3, <3>1, <3>2 DEF TailJump
      <3>4. ~(Len(w) > stack_size_max)
        <4>1. CASE move
          <5>1. Len(Moved(slot, s)) \in Nat /\ Len(Moved(slot, s)) <= Len(s)
            BY <2>1, <2>3, <4>1, MovedShort
          <5> QED BY <1>1, <3>1, <4>1, <5>1
        <4> QED BY <1>1, <3>1, <4>1
      <3>5. ReadNextOp(p) /\ pc' = p + 1 /\ stack' = w /\ local' = local
            /\ next_jt_idx' = slot.next_idx /\ status' = status
        BY <3>3, <3>4 DEF NextOp, ReadNextOp
      <3>6. p \in Int
        BY <2>1, <3>2 DEF Target, D!Slots
      <3>7. Place' = p
        BY <1>1, <3>5, <3>6 DEF Place
      <3>8. D!Jump(i, from, s, move)
        BY <1>3, <2>3, <3>1, <3>2, <3>5, <3>7, AlikeJumps DEF D!Jump
      <3> QED BY <3>5, <3>6, <3>8 DEF Fetches
    <2> QED BY <2>2, <2>3
  <1> QED BY <1>2, <1>3

\* The values that are left below the topmost ones.
LEMMA Popped ==
  ASSUME NEW k, Handling(k), NEW n \in Nat, n <= Len(stack)
  PROVE  /\ Pop(n) \in Seq(D!Values) /\ Len(Pop(n)) = Len(stack) - n
         /\ Len(Pop(n)) <= Len(stack) /\ Len(Pop(n)) <= stack_size_max
  <1>1. /\ stack \in Seq(D!Values) /\ Len(stack) \in Nat /\ Len(stack) <= stack_size_max
        /\ stack_size_max \in Nat
    BY HandlingFacts
  <1>2. Len(stack) - n \in 0..Len(stack)
    BY <1>1
  <1>3. Pop(n) \in Seq(D!Values) /\ Len(Pop(n)) = Len(stack) - n
    BY <1>1, <1>2, DtParts DEF Pop
  <1> QED BY <1>1, <1>3

\* A handler runs where the other build would run its label.
LEMMA HandlerRuns ==
  ASSUME NEW k, Handling(k), Handle(k)
  PROVE  D!Run(k) /\ build' = build
  BY HandlingFacts, AlikeReads DEF Handle, D!Run, D!vars, vars

\* nop, block and loop; unreachable.
LEMMA TailNopRuns ==
  ASSUME NEW k, Handling(k), TailNop(k) \/ TailUnreachable(k)
  PROVE  D!RunStep(k) /\ Fetches
  <1>1. CASE TailNop(k)
    <2>1. D!Run(k) /\ build' = build
      BY <1>1, HandlerRuns DEF TailNop
    <2>2. Ins(k).op \in {"nop", "block", "loop"} /\ Go(k, stack, local)
      BY <1>1 DEF TailNop
    <2>3. D!Continue(k, stack, local, next_jt_idx) /\ Fetches
      BY <2>1, <2>2, TailGoes
    <2> QED BY <2>1, <2>2, <2>3, AlikeReads DEF D!RunNop, D!RunStep
  <1>2. CASE TailUnreachable(k)
    <2>1. D!Run(k) /\ build' = build
      BY <1>2, HandlerRuns DEF TailUnreachable
    <2>2. D!Stop("trapped") /\ Fetches
      BY <1>2, <2>1, TailLeaves DEF TailUnreachable, Handling
    <2> QED BY <1>2, <2>1, <2>2, AlikeReads DEF TailUnreachable, D!RunUnreachable, D!RunStep
  <1> QED BY <1>1, <1>2

\* if and else.
LEMMA TailIfRuns ==
  ASSUME NEW k, Handling(k), TailIf(k) \/ TailElse(k)
  PROVE  D!RunStep(k) /\ Fetches
  <1>1. /\ stack \in Seq(D!Values) /\ Len(stack) \in Nat /\ next_jt_idx \in Nat
        /\ Imm1(k) = pc
    BY HandlingFacts DEF Imm1, Handling
  <1>2. CASE TailIf(k)
    <2>1. D!Run(k) /\ build' = build /\ Ins(k).op = "if" /\ Enough(k)
      BY <1>2, HandlerRuns DEF TailIf, Handle
    <2>2. 1 <= Len(stack)
      <3>1. Reads(k) = 1
        BY <2>1, DtReads, AlikeReads
      <3> QED BY <1>1, <2>1, <3>1 DEF Enough
    <2>3. /\ Pop(1) \in Seq(D!Values) /\ Len(Pop(1)) <= Len(stack)
          /\ Len(Pop(1)) <= stack_size_max /\ Len(Pop(1)) \in Nat
      BY <1>1, <2>2, Popped
    <2>4. CASE NextOp(pc + 1, Pop(1), local, U16(next_jt_idx + 1))
      <3>1. D!Continue(k, Pop(1), local, U16(next_jt_idx + 1)) /\ Fetches
        BY <2>1, <2>3, <2>4, TailPasses
      <3> QED BY <2>1, <3>1, AlikeReads, AlikeStacks, AlikeJumps DEF D!RunIf, D!RunStep
    <2>5. CASE TailJump(next_jt_idx, pc, Pop(1), FALSE)
      <3>1. D!Jump(next_jt_idx, pc, Pop(1), FALSE) /\ Fetches
        BY <1>1, <2>1, <2>3, <2>5, TailJumps
      <3> QED BY <1>1, <2>1, <3>1, AlikeReads, AlikeStacks, AlikeJumps DEF D!RunIf, D!RunStep
    <2> QED BY <1>2, <2>4, <2>5 DEF TailIf
  <1>3. CASE TailElse(k)
    <2>1. D!Run(k) /\ build' = build
      BY <1>3, HandlerRuns DEF TailElse
    <2>2. D!Jump(next_jt_idx, pc, stack, FALSE) /\ Fetches
      <3>1. TailJump(next_jt_idx, pc, stack, FALSE)
        BY <1>3 DEF TailElse
      <3>2. Len(stack) <= Len(stack)
        BY <1>1
      <3> QED BY <1>1, <2>1, <3>1, <3>2, TailJumps
    <2> QED BY <1>1, <1>3, <2>1, <2>2, AlikeReads, AlikeJumps
            DEF TailElse, D!RunElse, D!RunStep
  <1> QED BY <1>2, <1>3

\* end and return.
LEMMA TailEndRuns ==
  ASSUME NEW k, Handling(k), TailEnd(k)
  PROVE  D!RunStep(k) /\ Fetches
  <1>1. D!Run(k) /\ build' = build /\ Ins(k).op \in {"end", "return"}
    BY HandlerRuns DEF TailEnd
  <1>2. Ins(k).op = "end" => NextAt(k) = pc
    <2> SUFFICES ASSUME Ins(k).op = "end" PROVE NextAt(k) = pc
      OBVIOUS
    <2>1. Size(Ins(k)) = 1
      BY DEF Size
    <2> QED BY <2>1, HandlingFacts DEF Handling
  <1>3. CASE Ins(k).op = "return" \/ pc = offset
    <2>1. Return
      BY <1>3 DEF TailEnd
    <2>2. D!Return /\ Fetches
      BY <1>1, <2>1, AlikeStacks DEF Return, D!Return, Place, Fetches, Handling
    <2> QED BY <1>1, <1>2, <1>3, <2>2, AlikeReads DEF D!RunReturn, D!RunEnd, D!RunStep
  <1>4. CASE ~(Ins(k).op = "return" \/ pc = offset)
    <2>1. Ins(k).op = "end" /\ Go(k, stack, local)
      BY <1>1, <1>4 DEF TailEnd
    <2>2. D!Continue(k, stack, local, next_jt_idx) /\ Fetches
      BY <1>1, <2>1, TailGoes
    <2> QED BY <1>1, <1>2, <1>4, <2>1, <2>2, AlikeReads DEF D!RunEnd, D!RunStep
  <1> QED BY <1>3, <1>4

\* br and br_if.
LEMMA TailBrRuns ==
  ASSUME NEW k, Handling(k), TailBr(k) \/ TailBrIf(k)
  PROVE  D!RunStep(k) /\ Fetches
  <1>1. /\ stack \in Seq(D!Values) /\ Len(stack) \in Nat /\ next_jt_idx \in Nat
        /\ Imm1(k) = pc
    BY HandlingFacts DEF Imm1, Handling
  <1>2. CASE TailBrIf(k)
    <2>1. D!Run(k) /\ build' = build /\ Ins(k).op = "br_if" /\ Enough(k)
      BY <1>2, HandlerRuns DEF TailBrIf, Handle
    <2>2. 1 <= Len(stack)
      <3>1. Reads(k) = 1
        BY <2>1, DtReads, AlikeReads
      <3> QED BY <1>1, <2>1, <3>1 DEF Enough
    <2>3. /\ Pop(1) \in Seq(D!Values) /\ Len(Pop(1)) <= Len(stack)
          /\ Len(Pop(1)) <= stack_size_max /\ Len(Pop(1)) \in Nat
      BY <1>1, <2>2, Popped
    <2>4. CASE NextOp(pc + 1, Pop(1), local, U16(next_jt_idx + 1))
      <3>1. D!Continue(k, Pop(1), local, U16(next_jt_idx + 1)) /\ Fetches
        BY <2>1, <2>3, <2>4, TailPasses
      <3> QED BY <2>1, <3>1, AlikeReads, AlikeStacks, AlikeJumps DEF D!RunBrIf, D!RunStep
    <2>5. CASE TailJump(next_jt_idx, pc, Pop(1), TRUE)
      <3>1. D!Jump(next_jt_idx, pc, Pop(1), TRUE) /\ Fetches
        BY <1>1, <2>1, <2>3, <2>5, TailJumps
      <3> QED BY <1>1, <2>1, <3>1, AlikeReads, AlikeStacks, AlikeJumps
              DEF D!RunBrIf, D!RunStep
    <2> QED BY <1>2, <2>4, <2>5 DEF TailBrIf
  <1>3. CASE TailBr(k)
    <2>1. D!Run(k) /\ build' = build
      BY <1>3, HandlerRuns DEF TailBr
    <2>2. D!Jump(next_jt_idx, pc, stack, TRUE) /\ Fetches
      <3>1. TailJump(next_jt_idx, pc, stack, TRUE)
        BY <1>3 DEF TailBr
      <3>2. Len(stack) <= Len(stack)
        BY <1>1
      <3> QED BY <1>1, <2>1, <3>1, <3>2, TailJumps
    <2> QED BY <1>1, <1>3, <2>1, <2>2, AlikeReads, AlikeJumps DEF TailBr, D!RunBr, D!RunStep
  <1> QED BY <1>2, <1>3

\* br_table.
LEMMA TailBrTableRuns ==
  ASSUME NEW k, Handling(k), TailBrTable(k)
  PROVE  D!RunStep(k) /\ Fetches
  <1>1. D!Run(k) /\ build' = build /\ Ins(k).op = "br_table" /\ Enough(k)
    BY HandlerRuns DEF TailBrTable, Handle
  <1>2. /\ stack \in Seq(D!Values) /\ Len(stack) \in Nat /\ next_jt_idx \in Nat
        /\ Ins(k).ls \in Seq(Nat) /\ Len(Ins(k).ls) \in Nat
    BY <1>1, HandlingFacts, InstrsAssumption
  <1>3. 1 <= Len(stack)
    <2>1. Reads(k) = 1
      BY <1>1, DtReads, AlikeReads
    <2> QED BY <1>1, <1>2, <2>1 DEF Enough
  <1>4. Pop(1) \in Seq(D!Values) /\ Len(Pop(1)) <= Len(stack)
    BY <1>2, <1>3, Popped
  <1>5. PICK n : n = Len(Ins(k).ls)
    OBVIOUS
  <1>6. PICK i \in 0..(n - 1) :
          TailJump(U16(next_jt_idx + i), pc + 1 + (n - 1) + 1, Pop(1), TRUE)
    BY <1>5 DEF TailBrTable
  <1>7. pc + 1 + (n - 1) + 1 = NextAt(k)
    <2>1. Size(Ins(k)) = 2 + n
      BY <1>1, <1>5 DEF Size
    <2>2. /\ NextAt(k) = code[k].at + Size(Ins(k)) /\ pc = code[k].at + 1
          /\ code[k].at \in Nat
      BY HandlingFacts DEF Handling
    <2>3. n \in Nat
      BY <1>2, <1>5
    <2> QED BY <2>1, <2>2, <2>3
  <1>8. U16(next_jt_idx + i) \in Nat
    BY <1>2, <1>5, WidthAssumption DEF U16
  <1>9. D!Jump(U16(next_jt_idx + i), NextAt(k), Pop(1), TRUE) /\ Fetches
    BY <1>1, <1>4, <1>6, <1>7, <1>8, TailJumps
  <1> QED BY <1>1, <1>5, <1>9, AlikeReads, AlikeStacks, AlikeJumps DEF D!RunBrTable, D!RunStep

\* call.
LEMMA TailCallRuns ==
  ASSUME NEW k, Handling(k), TailCall(k)
  PROVE  D!RunStep(k) /\ Fetches
  <1> DEFINE fn == Callees[Ins(k).fn + 1]
             s  == Pop(Len(fn.type.params))
             w  == s \o Made(k, fn.type.results)
  <1>1. D!Run(k) /\ build' = build /\ Ins(k).op = "call" /\ build = "tco"
    BY HandlerRuns DEF TailCall, Handling
  <1>2. CASE Len(s) + fn.local_count > stack_size_max
    <2>1. Leave("bad_room")
      BY <1>2 DEF TailCall
    <2>2. D!Stop("bad_room") /\ Fetches
      BY <1>1, <2>1, TailLeaves
    <2>3. D!RunCall(k)
      BY <1>1, <1>2, <2>2, AlikeReads, AlikeStacks DEF D!RunCall
    <2> QED BY <2>2, <2>3 DEF D!RunStep
  <1>3. CASE ~(Len(s) + fn.local_count > stack_size_max)
    <2>1. Leave("trapped") \/ Go(k, w, local)
      BY <1>3 DEF TailCall
    <2>2. CASE Leave("trapped")
      <3>1. D!Stop("trapped") /\ Fetches
        BY <1>1, <2>2, TailLeaves
      <3>2. D!RunCall(k)
        BY <1>1, <1>3, <3>1, AlikeReads, AlikeStacks DEF D!RunCall
      <3> QED BY <3>1, <3>2 DEF D!RunStep
    <2>3. CASE Go(k, w, local)
      <3>1. D!Continue(k, w, local, next_jt_idx) /\ Fetches
        BY <1>1, <2>3, TailGoes
      <3>2. D!RunCall(k)
        BY <1>1, <1>3, <3>1, AlikeReads, AlikeStacks DEF D!RunCall
      <3> QED BY <3>1, <3>2 DEF D!RunStep
    <2> QED BY <2>1, <2>2, <2>3
  <1> QED BY <1>2, <1>3

\* call_indirect.
LEMMA TailCallIndirectRuns ==
  ASSUME NEW k, Handling(k), TailCallIndirect(k)
  PROVE  D!RunStep(k) /\ Fetches
  <1> DEFINE w == Pop(Reads(k)) \o Made(k, Ins(k).type.results)
  <1>1. D!Run(k) /\ build' = build /\ Ins(k).op = "call_indirect" /\ build = "tco"
    BY HandlerRuns DEF TailCallIndirect, Handling
  <1>2. CASE Leave("trapped")
    <2>1. D!Stop("trapped") /\ Fetches
      BY <1>1, <1>2, TailLeaves
    <2> QED BY <1>1, <2>1, AlikeReads DEF D!RunCallIndirect, D!RunStep
  <1>3. CASE \E i \in DOMAIN Callees :
               /\ Callees[i].type = Ins(k).type
               /\ IF ArrayTooSmall(Callees[i]) THEN Leave("bad_room") ELSE Go(k, w, local)
    <2>1. PICK i \in DOMAIN Callees :
            /\ Callees[i].type = Ins(k).type
            /\ IF ArrayTooSmall(Callees[i]) THEN Leave("bad_room") ELSE Go(k, w, local)
      BY <1>3
    <2>2. CASE ArrayTooSmall(Callees[i])
      <3>1. Leave("bad_room")
        BY <2>1, <2>2
      <3>2. D!Stop("bad_room") /\ Fetches
        BY <1>1, <3>1, TailLeaves
      <3> QED BY <1>1, <2>1, <2>2, <3>2, AlikeReads, AlikeStacks
              DEF D!RunCallIndirect, D!RunStep
    <2>3. CASE ~ArrayTooSmall(Callees[i])
      <3>1. Go(k, w, local)
        BY <2>1, <2>3
      <3>2. Ins(k).op \in DataOps
        BY <1>1 DEF DataOps
      <3>3. D!Continue(k, w, local, next_jt_idx) /\ Fetches
        BY <1>1, <3>1, <3>2, TailGoes
      <3> QED BY <1>1, <2>1, <2>3, <3>3, AlikeReads, AlikeStacks
              DEF D!RunCallIndirect, D!RunStep
    <2> QED BY <2>2, <2>3
  <1> QED BY <1>2, <1>3 DEF TailCallIndirect

\* A data instruction that takes and leaves what its effect says.
LEMMA TailEffect ==
  ASSUME NEW k, Handling(k), Handle(k),
         Ins(k).op \in DataOps \ {"select", "select_t", "call_indirect"},
         LET e == DataEffect(Ins(k))
         IN  \/ e.trap /\ Leave("trapped")
             \/ Go(k, Pop(e.pop) \o Made(k, e.push), local)
  PROVE  D!RunStep(k) /\ Fetches
  <1> DEFINE e == DataEffect(Ins(k))
             w == Pop(e.pop) \o Made(k, e.push)
  <1>1. D!Run(k) /\ build' = build /\ build = "tco"
    BY HandlerRuns DEF Handling
  <1>2. /\ D!Ins(k) = Ins(k) /\ D!DataEffect(Ins(k)) = e
        /\ ~(Ins(k).op \in D!EntityOps /\ ~Ins(k).there)
        /\ Ins(k).op \in D!DataOps \ {"select", "select_t", "call_indirect"}
    BY HandlingFacts, AlikeReads, AlikeStacks
  <1>3. CASE e.trap /\ Leave("trapped")
    <2>1. D!Stop("trapped") /\ Fetches
      BY <1>1, <1>3, TailLeaves
    <2> QED BY <1>1, <1>2, <1>3, <2>1 DEF D!RunData, D!RunStep
  <1>4. CASE Go(k, w, local)
    <2>1. D!Continue(k, w, local, next_jt_idx) /\ Fetches
      BY <1>1, <1>4, TailGoes
    <2>2. D!Pop(e.pop) \o D!Made(k, e.push) = w
      BY AlikeStacks
    <2> QED BY <1>1, <1>2, <2>1, <2>2 DEF D!RunData, D!RunStep
  <1> QED BY <1>3, <1>4

\* The classes of data instructions that do not use memory 0.
LEMMA TailDataRuns ==
  ASSUME NEW k, Handling(k),
         \/ TailConst(k) \/ TailNumeric(k) \/ TailConvert(k)
         \/ TailEntity(k) \/ TailRef(k) \/ TailTable(k)
  PROVE  D!RunStep(k) /\ Fetches
  <1>1. PICK ops \in SUBSET (DataOps \ {"select", "select_t", "call_indirect"}) :
          Computes(k, ops)
    BY DEF TailConst, TailNumeric, TailConvert, TailEntity, TailRef, TailTable, DataOps
  <1> QED BY <1>1, TailEffect DEF Computes

\* load and store, unless the copy is of memory that was given back.
LEMMA TailAccessRuns ==
  ASSUME NEW k, Handling(k), TailAccess(k)
  PROVE  \/ D!RunStep(k) /\ Fetches
         \/ mem0 = "freed" /\ status' = "bad_mem"
  <1>1. Handle(k) /\ Ins(k).op \in {"load", "store"}
    BY DEF TailAccess
  <1>2. /\ Ins(k).op \in DataOps \ {"select", "select_t", "call_indirect"}
        /\ DataEffect(Ins(k)).trap
    BY <1>1 DEF DataOps, DataEffect, Effect
  <1>3. CASE mem0 = "freed" /\ Leave("bad_mem")
    BY <1>3 DEF Leave, Stop
  <1>4. CASE \/ Leave("trapped")
             \/ LET e == DataEffect(Ins(k))
                IN  Go(k, Pop(e.pop) \o Made(k, e.push), local)
    BY <1>1, <1>2, <1>4, TailEffect
  <1> QED BY <1>3, <1>4 DEF TailAccess

\* The instructions on memory 0 as a whole.
LEMMA TailMemoryRuns ==
  ASSUME NEW k, Handling(k), TailMemorySize(k) \/ TailMemoryGrow(k) \/ TailBulk(k)
  PROVE  \/ D!RunStep(k) /\ Fetches
         \/ mem0 = "freed" /\ status' = "bad_mem"
  <1> DEFINE e == DataEffect(Ins(k))
  <1>1. Handle(k) /\ Ins(k).op \in {"memory_size", "memory_grow", "bulk"}
    BY DEF TailMemorySize, TailMemoryGrow, TailBulk
  <1>2. Ins(k).op \in DataOps \ {"select", "select_t", "call_indirect"}
    BY <1>1 DEF DataOps
  <1>3. stack \in Seq(D!Values) /\ Len(stack) \in Nat /\ Enough(k)
    BY <1>1, HandlingFacts DEF Handle
  <1>4. CASE TailMemorySize(k)
    <2>1. e.pop = 0 /\ e.push = <<"i32">>
      BY <1>4 DEF TailMemorySize, DataEffect, Effect
    <2>2. Pop(0) = stack
      BY <1>3 DEF Pop
    <2>3. Go(k, Pop(e.pop) \o Made(k, e.push), local)
      BY <1>4, <2>1, <2>2 DEF TailMemorySize
    <2> QED BY <1>1, <1>2, <2>3, TailEffect
  <1>5. CASE TailMemoryGrow(k)
    <2>1. e.pop = 1 /\ e.push = <<"i32">>
      BY <1>5 DEF TailMemoryGrow, DataEffect, Effect
    <2>2. Ins(k).there
      BY <1>5, HandlingFacts DEF TailMemoryGrow, EntityOps
    <2>3. Go(k, Pop(e.pop) \o Made(k, e.push), local)
      BY <1>5, <2>1, <2>2 DEF TailMemoryGrow
    <2> QED BY <1>1, <1>2, <2>3, TailEffect
  <1>6. CASE TailBulk(k)
    <2>1. e.pop = 3 /\ e.push = << >> /\ e.trap
      BY <1>6 DEF TailBulk, DataEffect, RefEffect, Effect
    <2>2. CASE mem0 = "freed" /\ Leave("bad_mem")
      BY <2>2 DEF Leave, Stop
    <2>3. CASE Leave("trapped")
      BY <1>1, <1>2, <2>1, <2>3, TailEffect
    <2>4. CASE Go(k, Pop(3), local)
      <3>1. Reads(k) = 3
        BY <1>2, <2>1, DtReads, AlikeReads, AlikeStacks
      <3>2. Pop(3) \in Seq(D!Values)
        BY <1>3, <3>1, Popped DEF Enough
      <3>3. Made(k, << >>) = << >>
        BY DEF Made
      <3>4. Pop(3) \o << >> = Pop(3)
        BY <3>2
      <3>5. Go(k, Pop(e.pop) \o Made(k, e.push), local)
        BY <2>1, <2>4, <3>3, <3>4
      <3> QED BY <1>1, <1>2, <3>5, TailEffect
    <2> QED BY <1>6, <2>2, <2>3, <2>4 DEF TailBulk
  <1> QED BY <1>4, <1>5, <1>6

\* select and the locals.
LEMMA TailLocalRuns ==
  ASSUME NEW k, Handling(k), TailSelect(k) \/ TailLocal(k)
  PROVE  D!RunStep(k) /\ Fetches
  <1>1. CASE TailSelect(k)
    <2>1. /\ D!Run(k) /\ build' = build /\ Ins(k).op \in {"select", "select_t"}
          /\ Ins(k).op \in DataOps
      BY <1>1, HandlerRuns DEF TailSelect, DataOps
    <2>2. PICK i \in {1, 2} : Go(k, Append(Pop(3), Topmost(3)[i]), local)
      BY <1>1 DEF TailSelect
    <2>3. D!Continue(k, Append(Pop(3), Topmost(3)[i]), local, next_jt_idx) /\ Fetches
      BY <2>1, <2>2, TailGoes
    <2> QED BY <2>1, <2>3, AlikeReads, AlikeStacks DEF D!RunSelect, D!RunStep
  <1>2. CASE TailLocal(k)
    <2> DEFINE i == Ins(k).idx + 1
               l == [local EXCEPT ![i] = Topmost(1)[1]]
    <2>1. D!Run(k) /\ build' = build /\ Ins(k).op \in LocalOps
      BY <1>2, HandlerRuns DEF TailLocal
    <2>2. D!Ins(k) = Ins(k) /\ Ins(k).op \in D!LocalOps
      BY <2>1, AlikeReads, AlikeStacks
    <2>3. CASE Ins(k).op = "local_get"
      <3>1. Go(k, Append(stack, local[i]), local)
        BY <1>2, <2>3 DEF TailLocal
      <3>2. D!Continue(k, Append(stack, local[i]), local, next_jt_idx) /\ Fetches
        BY <2>1, <3>1, TailGoes
      <3> QED BY <2>1, <2>2, <2>3, <3>2 DEF D!RunLocal, D!RunStep
    <2>4. CASE Ins(k).op = "local_set"
      <3>1. Go(k, Pop(1), l)
        BY <1>2, <2>4 DEF TailLocal
      <3>2. D!Continue(k, Pop(1), l, next_jt_idx) /\ Fetches
        BY <2>1, <3>1, TailGoes
      <3> QED BY <2>1, <2>2, <2>4, <3>2, AlikeStacks DEF D!RunLocal, D!RunStep
    <2>5. CASE Ins(k).op \notin {"local_get", "local_set"}
      <3>1. Go(k, stack, l)
        BY <1>2, <2>5 DEF TailLocal
      <3>2. D!Continue(k, stack, l, next_jt_idx) /\ Fetches
        BY <2>1, <3>1, TailGoes
      <3> QED BY <2>1, <2>2, <2>5, <3>2, AlikeStacks DEF D!RunLocal, D!RunStep
    <2> QED BY <2>3, <2>4, <2>5
  <1> QED BY <1>1, <1>2

\* A handler that would read below the stack's base.
LEMMA TailBelowRuns ==
  ASSUME NEW k, Handling(k), TailBelowBase(k)
  PROVE  D!RunStep(k) /\ Fetches
  <1>1. build' = build /\ UNCHANGED D!vars /\ ~D!Enough(k)
    BY AlikeReads DEF TailBelowBase, vars, D!vars
  <1>2. D!Stop("bad_stack") /\ Fetches
    BY <1>1, TailLeaves DEF TailBelowBase, Handling
  <1> QED BY <1>1, <1>2, HandlingFacts DEF D!ReadBelowBase, D!RunStep

\* Every handler does what the other build does at its instruction, unless its
\* copy is of memory that was given back.
LEMMA TailRuns ==
  ASSUME NEW k, Handling(k), TailStep(k)
  PROVE  \/ D!RunStep(k) /\ Fetches
         \/ mem0 = "freed" /\ status' = "bad_mem"
  BY TailNopRuns, TailIfRuns, TailEndRuns, TailBrRuns, TailBrTableRuns, TailCallRuns,
     TailCallIndirectRuns, TailAccessRuns, TailMemoryRuns, TailLocalRuns, TailDataRuns,
     TailBelowRuns DEF TailStep

----------------------------------------------------------------------------
(***************************************************************************)
(* The invariant of both builds.                                           *)
(***************************************************************************)
\* What holds of the tail-call build in a function that passed every check.
TailSound ==
  \/ status = "bad_mem" /\ Calls("call_indirect")
  \/ /\ D!SoundInv
     /\ status = "running" => handler \in 1..Len(code) /\ pc = code[handler].at + 1

TailInv ==
  /\ CopyInv
  /\ build = "tco" => status # "idle"
  /\ build # "tco" => D!SoundInv
  /\ build = "tco" /\ D!Checked => TailSound

\* The opcode that was read is an instruction's.
LEMMA Fetched ==
  ASSUME D!SoundInv', D!Checked', build' = "tco", status' = "running", code' = code,
         NEW p \in Int, ReadNextOp(p)
  PROVE  handler' \in 1..Len(code') /\ pc' = code'[handler'].at + 1
  <1>1. pc' = p + 1 /\ Place' = p
    BY DEF ReadNextOp, Place
  <1>2. D!CursorSafe' /\ D!Closed' /\ D!Numbered'
    BY DEF D!SoundInv, D!RunInv, D!Checked, D!Closed
  <1>3. \E k \in 1..Len(code) : code[k].at = p
    BY <1>1, <1>2 DEF D!CursorSafe
  <1>4. handler' = CHOOSE k \in 1..Len(code) : code[k].at = p
    BY <1>3 DEF ReadNextOp
  <1>5. handler' \in 1..Len(code) /\ code[handler'].at = p
    BY <1>3, <1>4
  <1> QED BY <1>1, <1>5

\* Whether a function passed every check is settled when it runs.
LEMMA CheckedSame ==
  ASSUME UNCHANGED vars
  PROVE  (D!Checked' <=> D!Checked) /\ (Calls("call_indirect")' <=> Calls("call_indirect"))
  BY DEF vars, D!Checked, D!Shallow, D!Numbered, Calls, Ins

\* A handler does not make the activation idle, nor touch what was validated.
LEMMA TailFrame ==
  ASSUME NEW k, TailStep(k)
  PROVE  /\ build = "tco" /\ status = "running" /\ handler = k
         /\ build' = build /\ UNCHANGED vars /\ status' # "idle"
  <1>1. CASE TailBelowBase(k)
    BY <1>1 DEF TailBelowBase, Leave, Stop
  <1>2. CASE ~TailBelowBase(k)
    <2>1. Handle(k)
      BY <1>2 DEF TailStep, TailNop, TailUnreachable, TailIf, TailElse, TailEnd, TailBr,
         TailBrIf, TailBrTable, TailCall, TailCallIndirect, TailAccess, TailMemorySize,
         TailMemoryGrow, TailSelect, TailLocal, TailConst, TailNumeric, TailConvert,
         TailEntity, TailRef, TailTable, TailBulk, Computes
    <2>2. status = "running"
      BY <2>1 DEF Handle
    <2>3. /\ Leave("trapped") \/ Leave("bad_room") \/ Leave("bad_mem") \/ Return
               => status' # "idle"
          /\ \A p, s, l, i : NextOp(p, s, l, i) => status' # "idle"
          /\ \A s, l : Go(k, s, l) => status' # "idle"
          /\ \A i, at, s, move : TailJump(i, at, s, move) => status' # "idle"
      BY <2>2 DEF Leave, Stop, Return, NextOp, Go, TailJump
    <2>4. status' # "idle"
      BY <1>2, <2>3 DEF TailStep, TailNop, TailUnreachable, TailIf, TailElse, TailEnd, TailBr,
         TailBrIf, TailBrTable, TailCall, TailCallIndirect, TailAccess, TailMemorySize,
         TailMemoryGrow, TailSelect, TailLocal, TailConst, TailNumeric, TailConvert,
         TailEntity, TailRef, TailTable, TailBulk, Computes
    <2> QED BY <2>1, <2>4 DEF Handle
  <1> QED BY <1>1, <1>2

\* A handler keeps the invariant.
LEMMA StepTail ==
  ASSUME TailInv, NEW k \in 1..Len(code), TailStep(k)
  PROVE  build' = "tco" /\ status' # "idle" /\ (D!Checked' => TailSound')
  <1>1. /\ build = "tco" /\ status = "running" /\ handler = k
        /\ build' = build /\ UNCHANGED vars /\ status' # "idle"
    BY TailFrame
  <1> SUFFICES ASSUME D!Checked'
               PROVE  TailSound'
    BY <1>1
  <1>2. D!Checked /\ (Calls("call_indirect")' <=> Calls("call_indirect")) /\ code' = code
    BY <1>1, CheckedSame DEF vars
  <1>3. Handling(k)
    BY <1>1, <1>2 DEF TailInv, TailSound, Handling
  <1>4. CASE D!RunStep(k) /\ Fetches
    <2>1. D!SoundInv'
      BY <1>3, <1>4, DtNext DEF D!Execute, D!RunNext, Handling
    <2>2. ASSUME status' = "running"
          PROVE  handler' \in 1..Len(code') /\ pc' = code'[handler'].at + 1
      <3>1. PICK p \in Int : ReadNextOp(p)
        BY <1>4, <2>2 DEF Fetches
      <3> QED BY <1>1, <1>2, <2>1, <2>2, <3>1, Fetched
    <2> QED BY <2>1, <2>2 DEF TailSound
  <1>5. CASE mem0 = "freed" /\ status' = "bad_mem"
    BY <1>1, <1>2, <1>5 DEF TailInv, CopyInv, CopyCurrent, Current, TailSound
  <1> QED BY <1>3, <1>4, <1>5, TailRuns

\* The entry of in_place_tco_call is that of in_place_dt_call.
LEMMA StartsDt ==
  ASSUME TailStart
  PROVE  D!Start /\ Place' = 0
  <1>1. build' = "tco" /\ pc' = 0 + 1 /\ UNCHANGED vars
    BY DEF TailStart, ReadNextOp
  <1>2. Place' = 0 /\ UNCHANGED D!vars
    BY <1>1 DEF Place, vars, D!vars
  <1> QED BY <1>2, AlikeStacks DEF TailStart, D!Start, ARG, D!ARG, ZERO, D!ZERO

\* It establishes what holds of the tail-call build.
LEMMA StartTail ==
  ASSUME TailInv, TailStart
  PROVE  build' = "tco" /\ status' # "idle" /\ (D!Checked' => TailSound')
  <1>1. /\ build # "tco" /\ build' = "tco" /\ status' = "running" /\ D!SoundInv
        /\ ReadNextOp(0) /\ code' = code
    BY DEF TailInv, TailStart, vars
  <1>2. D!SoundInv'
    BY <1>1, StartsDt, DtNext DEF D!RunNext
  <1>3. D!Checked' => TailSound'
    BY <1>1, <1>2, Fetched DEF TailSound
  <1> QED BY <1>1, <1>3

\* Before anything is decoded.
LEMMA InitTail ==
  ASSUME BothInit
  PROVE  TailInv
  <1>1. D!RunInit
    BY DEF BothInit, RunInit, D!RunInit, Init, D!Init, NewFrame, D!NewFrame, Place
  <1> QED BY <1>1, DtInit DEF BothInit, TailInv, CopyInv, CopyCurrent

\* What is no step of the tail-call build is one of the direct-threaded build.
LEMMA BuildsDt ==
  ASSUME TailInv, [BothNext]_tailvars, build' # "tco"
  PROVE  build # "tco" /\ [D!RunNext]_(D!allvars)
  <1>1. CASE Validate /\ UNCHANGED <<build, handler, memvars>>
    <2>1. build # "tco" /\ build' = build
      BY <1>1
    <2>2. Place' = Place /\ UNCHANGED runvars /\ D!Next
      BY <1>1, <2>1, SameNext DEF Validate, runvars, Place
    <2>3. D!RunNext
      BY <2>2 DEF D!RunNext, D!Validate, runvars, D!runvars
    <2> QED BY <2>1, <2>3
  <1>2. CASE StartDt
    <2>1. build # "tco" /\ Start
      BY <1>2 DEF StartDt, Start, TailInv
    <2> QED BY <2>1, DtExecutes
  <1>3. CASE TailStart
    BY <1>3 DEF TailStart
  <1>4. CASE ExecuteDt
    <2>1. build # "tco" /\ Execute /\ build' = build
      BY <1>4 DEF ExecuteDt
    <2> QED BY <2>1, DtExecutes
  <1>5. CASE \E k \in 1..Len(code) : TailStep(k)
    BY <1>5, TailFrame
  <1>6. CASE TailBadFetch
    BY <1>6 DEF TailBadFetch
  <1>7. CASE UNCHANGED tailvars
    BY <1>7 DEF tailvars, allvars, runvars, vars, D!allvars, D!runvars, D!vars, Place
  <1>8. CASE Finished /\ UNCHANGED <<build, handler, memvars>>
    BY <1>7, <1>8 DEF Finished, tailvars
  <1> QED BY <1>1, <1>2, <1>3, <1>4, <1>5, <1>6, <1>7, <1>8 DEF BothNext, ExecuteTco

\* The steps that leave the function with the tail-call build.
LEMMA BuildsTco ==
  ASSUME TailInv, [BothNext]_tailvars, build' = "tco"
  PROVE  \/ TailStart
         \/ \E k \in 1..Len(code) : TailStep(k)
         \/ TailBadFetch
         \/ UNCHANGED tailvars
  <1>1. ~(Validate /\ UNCHANGED <<build, handler, memvars>>)
    BY NextDecodes DEF TailInv, CopyInv, Validate
  <1>2. ~StartDt /\ ~ExecuteDt
    BY DEF StartDt, ExecuteDt
  <1>3. Finished /\ UNCHANGED <<build, handler, memvars>> => UNCHANGED tailvars
    BY DEF Finished, tailvars
  <1> QED BY <1>1, <1>2, <1>3 DEF BothNext, ExecuteTco

\* A fetch that finds no instruction happens only in functions that did not pass.
LEMMA BadFetchUnchecked ==
  ASSUME TailInv, TailBadFetch
  PROVE  ~D!Checked /\ ~D!Checked' /\ build = "tco" /\ status' # "idle"
  <1>1. /\ build = "tco" /\ UNCHANGED vars /\ status = "running" /\ handler = 0
        /\ status' = "bad_pc"
    BY DEF TailBadFetch, Leave, Stop
  <1>2. ~D!Checked
    BY <1>1 DEF TailInv, TailSound
  <1> QED BY <1>1, <1>2, CheckedSame

\* Every step of either build keeps the invariant.
LEMMA NextTail ==
  ASSUME TailInv, [BothNext]_tailvars
  PROVE  TailInv'
  <1>1. CopyInv'
    BY NextCopies DEF TailInv
  <1>2. CASE build' # "tco"
    BY <1>1, <1>2, BuildsDt, DtNext DEF TailInv
  <1>3. CASE TailStart
    BY <1>1, <1>3, StartTail DEF TailInv
  <1>4. CASE \E k \in 1..Len(code) : TailStep(k)
    BY <1>1, <1>4, StepTail DEF TailInv
  <1>5. CASE TailBadFetch /\ build' = "tco"
    BY <1>1, <1>5, BadFetchUnchecked DEF TailInv
  <1>6. CASE UNCHANGED tailvars
    <2>1. /\ UNCHANGED vars /\ build' = build /\ handler' = handler /\ pc' = pc
          /\ status' = status /\ code' = code
      BY <1>6 DEF tailvars, allvars, runvars, vars
    <2>2. UNCHANGED D!allvars
      BY <1>6 DEF tailvars, allvars, runvars, vars, D!allvars, D!runvars, D!vars, Place
    <2>3. D!SoundInv => D!SoundInv'
      BY <2>2, DtNext
    <2>4. TailSound => TailSound'
      BY <2>1, <2>3, CheckedSame DEF TailSound
    <2> QED BY <1>1, <2>1, <2>3, <2>4, CheckedSame DEF TailInv
  <1> QED BY <1>2, <1>3, <1>4, <1>5, <1>6, BuildsTco

\* The invariant of both builds holds in every behaviour.
LEMMA TailInvariant == BothSpec => []TailInv
  <1>1. BothInit => TailInv
    BY InitTail
  <1>2. TailInv /\ [BothNext]_tailvars => TailInv'
    BY NextTail
  <1> QED BY <1>1, <1>2, PTL DEF BothSpec

(***************************************************************************)
(* Type soundness of both builds: whichever of the two interpreters runs a *)
(* function that passed every check of the validator and that the slots'   *)
(* fields can hold, the stack has at every opcode the types that the       *)
(* validator saw there, and no handler reads below its base, writes above  *)
(* stack_size_max or uses memory that was given back.  In the tail-call    *)
(* build that is claimed of functions without call_indirect, which does    *)
(* not fetch the copy of memory 0 again.                                   *)
(***************************************************************************)
THEOREM BothTypeSound == BothSpec => [](D!Shallow /\ D!Numbered => BothTyped)
  <1>1. ASSUME TailInv, D!Shallow, D!Numbered
        PROVE  BothTyped
    <2> SUFFICES ASSUME ~(build = "tco" /\ Calls("call_indirect")), skipped = {}
                 PROVE  Dt!StackTyped
      BY DEF BothTyped, Dt!StackTyped
    <2>1. D!SoundInv
      BY <1>1 DEF TailInv, TailSound, D!Checked
    <2>2. D!StackTyped
      BY <1>1, <2>1, DtTyped
    <2> QED BY <2>2 DEF D!StackTyped, Dt!StackTyped, D!TypesOf, Dt!TypesOf,
            D!LocalTypes, Dt!LocalTypes
  <1> QED BY <1>1, TailInvariant, PTL

(***************************************************************************)
(* In both builds a direct call of a function of the same module finds     *)
(* room for the callee's locals in the caller's stack, in every function   *)
(* that passed every check and that the slots' fields can hold.            *)
(***************************************************************************)
THEOREM BothOwnCalleesFit == BothSpec => [](D!Shallow /\ D!Numbered => BothHaveRoom)
  <1>1. ASSUME TailInv, D!Shallow, D!Numbered
        PROVE  BothHaveRoom
    <2> SUFFICES ASSUME status = "bad_room", skipped = {}
                 PROVE  Dt!RoomForOwnCallees
      BY DEF BothHaveRoom, Dt!RoomForOwnCallees
    <2>1. D!SoundInv
      BY <1>1 DEF TailInv, TailSound, D!Checked
    <2>2. D!RoomForOwnCallees
      BY <1>1, <2>1, DtTyped
    <2> QED BY <2>2 DEF D!RoomForOwnCallees, Dt!RoomForOwnCallees, D!Ins, Dt!Ins
  <1> QED BY <1>1, TailInvariant, PTL

----------------------------------------------------------------------------
(***************************************************************************)
(* The tail-call build implements the direct-threaded one.                 *)
(***************************************************************************)
\* The functions for which it does: those that passed every check and do not call
\* indirectly.
Plain == build = "tco" => D!Checked /\ ~Calls("call_indirect")

\* In such a function every step is one of the direct-threaded build.
LEMMA PlainSteps ==
  ASSUME TailInv, Plain, [BothNext]_tailvars
  PROVE  [D!RunNext]_(D!allvars)
  <1>1. CASE build' # "tco"
    BY <1>1, BuildsDt
  <1>2. CASE TailStart
    BY <1>2, StartsDt DEF D!RunNext
  <1>3. CASE \E k \in 1..Len(code) : TailStep(k)
    <2>1. PICK k \in 1..Len(code) : TailStep(k)
      BY <1>3
    <2>2. build = "tco" /\ status = "running" /\ handler = k
      BY <2>1, TailFrame
    <2>3. Handling(k) /\ mem0 # "freed"
      BY <2>2 DEF Plain, TailInv, TailSound, Handling, CopyInv, CopyCurrent, Current
    <2>4. D!RunStep(k)
      BY <2>1, <2>3, TailRuns
    <2> QED BY <2>4 DEF D!RunNext, D!Execute
  <1>4. CASE TailBadFetch
    BY <1>4, BadFetchUnchecked DEF Plain
  <1>5. CASE UNCHANGED tailvars
    BY <1>5 DEF tailvars, allvars, runvars, vars, D!allvars, D!runvars, D!vars, Place
  <1> QED BY <1>1, <1>2, <1>3, <1>4, <1>5, BuildsTco

(***************************************************************************)
(* With the opcode that is carried out for its pc, every behaviour of the  *)
(* two builds is one of the direct-threaded build alone, as long as the    *)
(* functions that in_place_tco.c runs passed every check and have no       *)
(* call_indirect: handler by handler it takes the same values, leaves the  *)
(* same, jumps through the same slots and steps over the same immediates.  *)
(***************************************************************************)
THEOREM TailImplementsDt == BothSpec /\ []Plain => D!RunSpec
  <1>1. BothInit => D!RunInit
    BY DEF BothInit, RunInit, D!RunInit, Init, D!Init, NewFrame, D!NewFrame, Place
  <1>2. TailInv /\ Plain /\ [BothNext]_tailvars => [D!RunNext]_(D!allvars)
    BY PlainSteps
  <1> QED BY <1>1, <1>2, TailInvariant, PTL DEF BothSpec, D!RunSpec
=============================================================================
