------------------------------ MODULE Validator ------------------------------
(***************************************************************************)
(* The function validator (src/runtime/validator.c), driven by the decoder *)
(* (src/common/op_decoder.c), which also builds the jump table that the    *)
(* in-place interpreters run on.                                           *)
(*                                                                         *)
(* The function is chosen as it is decoded: each step reads one more       *)
(* instruction of Instrs and runs the validator's callback for it.  The    *)
(* state is the function record's validation output (jt, stack_size_max),  *)
(* the validator_context (val_stack, ctrl_stack) and the decoder's place   *)
(* in the code.  phase says how the validation stands: "decode" (going     *)
(* on), "ready" (validate_func returned ok), "invalid" (it returned an     *)
(* error) or "assert" (a vec accessor was applied to an empty vector: an   *)
(* assertion failure in a debug build, an out-of-bounds read otherwise).   *)
(*                                                                         *)
(* Two things are recorded that the code does not keep.  An instruction in *)
(* code remembers the validator's view before it: the jump table's size,   *)
(* the types on the stack and whether it is dead code.  skipped collects   *)
(* the checks of the published validation algorithm that this function     *)
(* would have failed and that validator.c does not make.                   *)
(***************************************************************************)
EXTENDS WasmCode

CONSTANTS
  Funs,       \* Functions to validate: [type, locals], locals without params.
  MaxInstrs   \* Bound: instructions in a body, with the ends it still lacks.

ASSUME FunsAssumption == Funs \subseteq [type : FuncTypes, locals : Seq(ValTypes)]

VARIABLES
  f,              \* the function being validated
  code,           \* the instructions decoded so far
  offset,         \* the decoder's place in the code
  val_stack,
  ctrl_stack,
  jt,
  stack_size_max,
  phase,
  skipped

vars == <<f, code, offset, val_stack, ctrl_stack, jt, stack_size_max, phase,
          skipped>>

JUMP_TABLE_IDX_INVALID == U16_MAX

(***************************************************************************)
(* The checks of the published algorithm that validator.c leaves out:      *)
(* "leftover"  a block ends with values above its results on the stack;    *)
(* "no_else"   an if whose parameters are not its results has no else;     *)
(* "open"      the code ends inside a block;                               *)
(* "trailing"  the code goes on after the end of the function's block;     *)
(* "no_memory" memory.size or memory.grow in a module without a memory.    *)
(***************************************************************************)
SpecChecks == {"leftover", "no_else", "open", "trailing", "no_memory"}

U16(n) == n % (U16_MAX + 1)
U32(n) == n % U32_RANGE

Top == ctrl_stack[Len(ctrl_stack)]

LocalTypes == f.type.params \o f.locals

----------------------------------------------------------------------------
(***************************************************************************)
(* The value stack.  Popping the types ts, last first, needs them all      *)
(* above the height of the innermost frame, unless that frame is           *)
(* unreachable: then missing values are of type unknown and stay missing.  *)
(***************************************************************************)
Matches(actual, expected) ==
  \/ actual = expected
  \/ actual = "unknown"
  \/ expected = "unknown"
  \/ expected = "ref" /\ is_ref(actual)

\* How many values popping n values takes off a stack that is h above its frame.
Taken(h, n) == IF n <= h THEN n ELSE h

\* Mutant: only the number of operands is checked.
CanPopAnyType(vs, fr, ts) == Len(ts) <= Len(vs) - fr.height \/ fr.unreachable

CanPop(vs, fr, ts) ==
  LET h == Len(vs) - fr.height
  IN  /\ Len(ts) <= h \/ fr.unreachable
      /\ \A i \in 0..(Taken(h, Len(ts)) - 1) :
            Matches(vs[Len(vs) - i], ts[Len(ts) - i])

PopVals(vs, fr, ts) ==
  SubSeq(vs, 1, Len(vs) - Taken(Len(vs) - fr.height, Len(ts)))

\* push_val keeps the highest stack size that it has seen.
Raise(size) == IF size > stack_size_max THEN size ELSE stack_size_max

----------------------------------------------------------------------------
(***************************************************************************)
(* The control stack.  pending_jt_slots is a set: the validator appends    *)
(* slot indices in increasing order, so the vector's first element is the  *)
(* least one.                                                              *)
(***************************************************************************)
NewFrame(bt, ft, height, pc) ==
  [type |-> bt, start_types |-> ft.params, end_types |-> ft.results,
   height |-> height, unreachable |-> FALSE, pending_jt_slots |-> {},
   pc |-> pc]

\* Mutant: a branch to a loop carries the loop's results.
label_types_end(fr) == fr.end_types

label_types(fr) == IF fr.type = "loop" THEN fr.start_types ELSE fr.end_types

\* The frame that label l names, and its place on the control stack.
LabelAt(l)    == Len(ctrl_stack) - l
LabelFrame(l) == ctrl_stack[LabelAt(l)]

\* The result of unreachable() on the innermost frame.
Unreachable(cs) == [cs EXCEPT ![Len(cs)].unreachable = TRUE]

PopFrame(cs) == SubSeq(cs, 1, Len(cs) - 1)

----------------------------------------------------------------------------
(***************************************************************************)
(* The jump table.  target_offset is 0 until the slot's target is known.   *)
(***************************************************************************)
\* Mutant: the stack offset is a signed number.
NewSlotSigned(pc, stack_offset, arity) ==
  [pc |-> pc, target_offset |-> 0, stack_offset |-> stack_offset,
   arity |-> U16(arity), next_idx |-> JUMP_TABLE_IDX_INVALID]

NewSlot(pc, stack_offset, arity) ==
  [pc |-> pc, target_offset |-> 0, stack_offset |-> U32(stack_offset),
   arity |-> U16(arity), next_idx |-> JUMP_TABLE_IDX_INVALID]

\* Mutant: every target is moved back by one, not only the function's.
ResolveBack(t, slots, target) ==
  [i \in DOMAIN t |->
     IF i - 1 \in slots
       THEN [t[i] EXCEPT !.target_offset = target - 1 - t[i].pc]
       ELSE t[i]]

\* Point the slots (0-based indices) at the code address target.
Resolve(t, slots, target) ==
  [i \in DOMAIN t |->
     IF i - 1 \in slots
       THEN [t[i] EXCEPT !.target_offset = target - t[i].pc]
       ELSE t[i]]

\* Mutant: the distance is taken the wrong way round.
TargetBack(slot) == slot.pc - slot.target_offset

Target(slot) == slot.pc + slot.target_offset

(***************************************************************************)
(* validator_on_decode_end links each slot to the slot that the interpreter*)
(* needs after jumping: looking ahead for a forward jump, and walking back *)
(* from the slot itself for the others.                                    *)
(***************************************************************************)
\* Mutant: a slot at the landing place itself is taken.
SlotsAheadOrAt(t, i) == {j \in (i + 1)..Len(t) : t[j].pc >= Target(t[i])}

SlotsAhead(t, i) == {j \in (i + 1)..Len(t) : t[j].pc > Target(t[i])}
SlotsBehind(t, i) ==
  {j \in 1..i : \A k \in j..i : t[k].pc > Target(t[i])}

\* Mutant: backward jumps look ahead as well.
NextSlotsAhead(t, i) == SlotsAhead(t, i)

NextSlots(t, i) ==
  IF t[i].target_offset > 0 THEN SlotsAhead(t, i) ELSE SlotsBehind(t, i)

Link(t) ==
  [i \in DOMAIN t |->
     IF NextSlots(t, i) = {}
       THEN t[i]
       ELSE [t[i] EXCEPT !.next_idx = U16(Min(NextSlots(t, i)) - 1)]]

----------------------------------------------------------------------------
(***************************************************************************)
(* What the callbacks of the data instructions pop and push.  "bulk" is    *)
(* memory.init, .copy and .fill, table.init and .copy; "seg_drop" is       *)
(* data.drop and elem.drop.                                                *)
(***************************************************************************)
RefSig(ins) ==
  CASE ins.op = "global_get"  -> [pop |-> << >>, push |-> <<ins.t>>]
    [] ins.op = "global_set"  -> [pop |-> <<ins.t>>, push |-> << >>]
    [] ins.op = "table_get"   -> [pop |-> <<"i32">>, push |-> <<ins.t>>]
    [] ins.op = "table_set"   -> [pop |-> <<"i32", ins.t>>, push |-> << >>]
    [] ins.op = "ref_null"    -> [pop |-> << >>, push |-> <<ins.t>>]
    [] ins.op = "ref_is_null" -> [pop |-> <<"ref">>, push |-> <<"i32">>]
    [] ins.op = "ref_func"    -> [pop |-> << >>, push |-> <<"funcref">>]
    [] ins.op = "bulk"        -> [pop |-> <<"i32", "i32", "i32">>, push |-> << >>]
    [] ins.op = "table_grow"  -> [pop |-> <<"ref", "i32">>, push |-> <<"i32">>]
    [] ins.op = "table_size"  -> [pop |-> << >>, push |-> <<"i32">>]
    [] ins.op = "table_fill"  -> [pop |-> <<"i32", "ref", "i32">>, push |-> << >>]
    [] ins.op = "call_indirect" -> [pop  |-> Append(ins.type.params, "i32"),
                                    push |-> ins.type.results]
    [] OTHER                  -> [pop |-> << >>, push |-> << >>]

Sig(ins) ==
  CASE ins.op = "drop"        -> [pop |-> <<"unknown">>, push |-> << >>]
    [] ins.op = "select_t"    -> [pop |-> <<ins.t, ins.t, "i32">>, push |-> <<ins.t>>]
    [] ins.op = "const"       -> [pop |-> << >>, push |-> <<ins.t>>]
    [] ins.op = "unop"        -> [pop |-> <<ins.t>>, push |-> <<ins.t>>]
    [] ins.op = "binop"       -> [pop |-> <<ins.t, ins.t>>, push |-> <<ins.t>>]
    [] ins.op = "testop"      -> [pop |-> <<ins.t>>, push |-> <<"i32">>]
    [] ins.op = "relop"       -> [pop |-> <<ins.t, ins.t>>, push |-> <<"i32">>]
    [] ins.op = "convertop"   -> [pop |-> <<ins.s>>, push |-> <<ins.t>>]
    [] ins.op = "load"        -> [pop |-> <<"i32">>, push |-> <<ins.t>>]
    [] ins.op = "store"       -> [pop |-> <<"i32", ins.t>>, push |-> << >>]
    [] ins.op = "memory_size" -> [pop |-> << >>, push |-> <<"i32">>]
    [] ins.op = "memory_grow" -> [pop |-> <<"i32">>, push |-> <<"i32">>]
    [] OTHER                  -> RefSig(ins)

(***************************************************************************)
(* The operands of an instruction that takes a fixed list of them.         *)
(***************************************************************************)
Operands(ins) ==
  CASE ins.op \in {"block", "loop"} -> ins.type.params
    [] ins.op = "if"                -> Append(ins.type.params, "i32")
    [] ins.op = "call"              -> Callees[ins.fn + 1].type.params
    [] ins.op \in {"local_set", "local_tee"} -> <<LocalTypes[ins.idx + 1]>>
    [] ins.op = "select"            -> <<"unknown", "unknown", "i32">>
    [] ins.op \in DataOps \ {"select"} -> Sig(ins).pop
    [] OTHER                        -> << >>

\* The index checks that come before anything is popped.  memory_size and
\* memory_grow make none.
IndexOk(ins) ==
  /\ ins.op = "call" => ins.fn < Len(Callees)
  /\ ins.op \in LocalOps => ins.idx < Len(LocalTypes)
  /\ ins.op \in EntityOps \ {"memory_size", "memory_grow"} => ins.there
  /\ ins.op \in {"br", "br_if"} => ins.lth < Len(ctrl_stack)
  /\ ins.op = "br_table" =>
       \A i \in DOMAIN ins.ls : ins.ls[i] < Len(ctrl_stack)

\* The type at depth i of the stack (0 is the top), as pop_val would find it.
Peek(i) ==
  IF i < Len(val_stack) - Top.height
    THEN val_stack[Len(val_stack) - i] ELSE "unknown"

SelectOk ==
  /\ is_num(Peek(1)) /\ is_num(Peek(2))
  /\ Peek(1) = Peek(2) \/ "unknown" \in {Peek(1), Peek(2)}

BrTableOk(ins) ==
  LET vs    == PopVals(val_stack, Top, <<"i32">>)
      arity == Len(label_types(LabelFrame(ins.ls[Len(ins.ls)])))
  IN  /\ CanPop(val_stack, Top, <<"i32">>)
      /\ \A i \in DOMAIN ins.ls :
           /\ Len(label_types(LabelFrame(ins.ls[i]))) = arity
           /\ CanPop(vs, Top, label_types(LabelFrame(ins.ls[i])))

(***************************************************************************)
(* Whether the callback of ins succeeds.  It looks at the innermost frame  *)
(* as soon as it pops a value, which br_table and call_indirect do before  *)
(* their index checks; end, br and br_if check first that there is one.    *)
(***************************************************************************)
TouchesFrame(ins) ==
  \/ ins.op \in {"unreachable", "else", "return", "br_table", "call_indirect"}
  \/ IndexOk(ins) /\ Operands(ins) # << >>

Valid(ins) ==
  /\ IndexOk(ins)
  /\ Operands(ins) # << >> => CanPop(val_stack, Top, Operands(ins))
  /\ CASE ins.op = "select"   -> SelectOk
       [] ins.op = "else"     -> /\ Top.type = "if"
                                 /\ CanPop(val_stack, Top, Top.end_types)
       [] ins.op = "end"      -> /\ ctrl_stack # << >>
                                 /\ CanPop(val_stack, Top, Top.end_types)
       [] ins.op = "br"       -> CanPop(val_stack, Top,
                                        label_types(LabelFrame(ins.lth)))
       [] ins.op = "br_if"    -> CanPop(val_stack, Top,
                                        Append(label_types(LabelFrame(ins.lth)), "i32"))
       [] ins.op = "br_table" -> BrTableOk(ins)
       [] ins.op = "return"   -> CanPop(val_stack, Top, ctrl_stack[1].end_types)
       [] OTHER               -> TRUE

----------------------------------------------------------------------------
(***************************************************************************)
(* The steps.  Each reads one instruction; Decode is what they share.      *)
(***************************************************************************)
Fits(ins) ==
  LET opened == CASE ins.op \in {"block", "loop", "if"} -> 1
                  [] ins.op = "end" -> -1
                  [] OTHER          -> 0
  IN  Len(code) + 1 + Len(ctrl_stack) + opened <= MaxInstrs

\* One of the blocks around is unreachable from here on.
InDeadCode == \E p \in 1..Len(ctrl_stack) : ctrl_stack[p].unreachable

Decode(ins) ==
  /\ phase = "decode"
  /\ Fits(ins)
  /\ ctrl_stack = << >> => ~TouchesFrame(ins)
  /\ Valid(ins)
  /\ code' = Append(code, [at    |-> offset,
                           ins   |-> ins,
                           slot  |-> Len(jt),
                           types |-> val_stack,
                           dead  |-> InDeadCode])
  /\ offset' = offset + Size(ins)
  /\ UNCHANGED <<f, phase>>

\* Mutant: the address of the opcode.
ImmAtOpcode == offset

\* The address of the immediates, which the callbacks get as imm.
Imm == offset + 1

\* Record that the published algorithm would have rejected this step.
Skip(checks) ==
  skipped' = skipped \cup checks
             \cup (IF ctrl_stack = << >> THEN {"trailing"} ELSE {})

AfterOperands(ins) ==
  IF Operands(ins) = << >> THEN val_stack
                           ELSE PopVals(val_stack, Top, Operands(ins))

on_unreachable(ins) ==
  /\ ins.op = "unreachable"
  /\ Decode(ins)
  /\ val_stack' = SubSeq(val_stack, 1, Top.height)
  /\ ctrl_stack' = Unreachable(ctrl_stack)
  /\ Skip({})
  /\ UNCHANGED <<jt, stack_size_max>>

on_nop(ins) ==
  /\ ins.op = "nop"
  /\ Decode(ins)
  /\ Skip({})
  /\ UNCHANGED <<val_stack, ctrl_stack, jt, stack_size_max>>

(***************************************************************************)
(* block, loop and if: push_ctrl pushes the parameters again above the new *)
(* frame's height.  A loop's label is the instruction after the loop; an   *)
(* if owns a slot, pending on its own frame.                               *)
(***************************************************************************)
on_block(ins) ==
  /\ ins.op \in {"block", "loop", "if"}
  /\ Decode(ins)
  /\ LET vs  == AfterOperands(ins)
         fr  == NewFrame(ins.op, ins.type, Len(vs),
                         IF ins.op = "loop" THEN Imm + 1 ELSE 0)
     IN  /\ val_stack' = vs \o ins.type.params
         /\ IF ins.op = "if"
              THEN /\ jt' = Append(jt, NewSlot(Imm, 0, 0))
                   /\ ctrl_stack' = Append(ctrl_stack,
                        [fr EXCEPT !.pending_jt_slots = {Len(jt)}])
              ELSE /\ ctrl_stack' = Append(ctrl_stack, fr)
                   /\ UNCHANGED jt
  /\ stack_size_max' = Raise(Len(val_stack'))
  /\ Skip({})

\* pop_ctrl, as the callbacks of else and end use it.
AfterPopCtrl == PopVals(val_stack, Top, Top.end_types)
Leftover == IF Len(AfterPopCtrl) > Top.height THEN {"leftover"} ELSE {}

(***************************************************************************)
(* else: the slot of the if gets its target; the branches out of the if    *)
(* stay pending on the else frame, together with the slot of the else      *)
(* itself, which jumps to the end.                                         *)
(***************************************************************************)
on_else(ins) ==
  /\ ins.op = "else"
  /\ Decode(ins)
  /\ LET cf == Top
         ft == [params |-> cf.start_types, results |-> cf.end_types]
         fr == NewFrame("else", ft, Len(AfterPopCtrl), 0)
         if_slot == Min(cf.pending_jt_slots)
         t  == Resolve(jt, {if_slot}, Imm)
     IN  /\ val_stack' = AfterPopCtrl \o cf.start_types
         /\ jt' = Append(t, NewSlot(Imm, Len(cf.start_types) - Len(cf.end_types),
                                    Len(cf.end_types)))
         /\ ctrl_stack' = Append(PopFrame(ctrl_stack),
              [fr EXCEPT !.pending_jt_slots =
                           (cf.pending_jt_slots \ {if_slot}) \cup {Len(jt)}])
  /\ stack_size_max' = Raise(Len(val_stack'))
  /\ Skip(Leftover)

(***************************************************************************)
(* end: every slot pending on the frame gets its target: the loop's body,  *)
(* the instruction after the end or, for the function's own block, the end *)
(* itself.                                                                 *)
(***************************************************************************)
\* Mutant: every frame is taken for a loop.
EndTargetLoop(cf) == cf.pc

EndTarget(cf) ==
  CASE cf.type = "loop" -> cf.pc
    [] cf.type = "func" -> Imm - 1
    [] OTHER            -> Imm

on_end(ins) ==
  /\ ins.op = "end"
  /\ Decode(ins)
  /\ LET cf == Top
     IN  /\ jt' = Resolve(jt, cf.pending_jt_slots, EndTarget(cf))
         /\ val_stack' = AfterPopCtrl \o cf.end_types
         /\ ctrl_stack' = PopFrame(ctrl_stack)
         /\ Skip(Leftover \cup
                 IF cf.type = "if" /\ cf.start_types # cf.end_types
                   THEN {"no_else"} ELSE {})
  /\ stack_size_max' = Raise(Len(val_stack'))

(***************************************************************************)
(* br and br_if: a slot, pending on the frame that the label names.  The   *)
(* stack offset is what lies between the branch's operands and the frame;  *)
(* in dead code, where operands may be missing, it wraps around.           *)
(***************************************************************************)
on_br_or_if(ins) ==
  /\ ins.op \in {"br", "br_if"}
  /\ Decode(ins)
  /\ LET target == LabelFrame(ins.lth)
         ts     == label_types(target)
         vs     == IF ins.op = "br_if"
                     THEN PopVals(val_stack, Top, <<"i32">>) ELSE val_stack
         cs     == [ctrl_stack EXCEPT
                      ![LabelAt(ins.lth)].pending_jt_slots = @ \cup {Len(jt)}]
     IN  /\ jt' = Append(jt, NewSlot(Imm, Len(vs) - Len(ts) - target.height,
                                     Len(ts)))
         /\ IF ins.op = "br"
              THEN /\ val_stack' = SubSeq(val_stack, 1, Top.height)
                   /\ ctrl_stack' = Unreachable(cs)
              ELSE /\ val_stack' = PopVals(vs, Top, ts) \o ts
                   /\ ctrl_stack' = cs
  /\ stack_size_max' = Raise(Len(val_stack'))
  /\ Skip({})

(***************************************************************************)
(* br_table: a slot per label, in order, each with the address of the end  *)
(* of the instruction.  The operands are popped and pushed back for each   *)
(* label, so in dead code the stack may grow to hold them after the first. *)
(***************************************************************************)
on_br_table(ins) ==
  /\ ins.op = "br_table"
  /\ Decode(ins)
  /\ LET vs      == PopVals(val_stack, Top, <<"i32">>)
         arity   == Len(label_types(LabelFrame(ins.ls[1])))
         full    == IF Len(vs) < Top.height + arity
                      THEN Top.height + arity ELSE Len(vs)
         height(i) == LabelFrame(ins.ls[i]).height
     IN  /\ jt' = jt \o [i \in 1..Len(ins.ls) |->
                   NewSlot(offset + Size(ins),
                           (IF i = 1 THEN Len(vs) ELSE full) - arity - height(i),
                           arity)]
         /\ ctrl_stack' = Unreachable(
              [p \in 1..Len(ctrl_stack) |->
                 [ctrl_stack[p] EXCEPT !.pending_jt_slots = @ \cup
                    {Len(jt) + i - 1 : i \in
                       {n \in 1..Len(ins.ls) : LabelAt(ins.ls[n]) = p}}]])
         /\ stack_size_max' = Raise(full)
  /\ val_stack' = SubSeq(val_stack, 1, Top.height)
  /\ Skip({})

on_return(ins) ==
  /\ ins.op = "return"
  /\ Decode(ins)
  /\ val_stack' = SubSeq(val_stack, 1, Top.height)
  /\ ctrl_stack' = Unreachable(ctrl_stack)
  /\ Skip({})
  /\ UNCHANGED <<jt, stack_size_max>>

(***************************************************************************)
(* call: the callee's locals live in the caller's stack, so the room for   *)
(* them counts.  The parser leaves local_count 0 in an imported function.  *)
(***************************************************************************)
\* Mutant: no room is kept for the callee's locals.
NoLocals(fn) == 0

DeclaredLocals(fn) == IF fn.imported THEN 0 ELSE fn.local_count

on_call(ins) ==
  /\ ins.op = "call"
  /\ Decode(ins)
  /\ LET fn == Callees[ins.fn + 1]
         vs == AfterOperands(ins)
         required == Len(vs) + DeclaredLocals(fn)
         pushed   == Len(vs) + Len(fn.type.results)
     IN  /\ val_stack' = vs \o fn.type.results
         /\ stack_size_max' = Raise(IF required > pushed THEN required ELSE pushed)
  /\ Skip({})
  /\ UNCHANGED <<ctrl_stack, jt>>

\* What the locals' callbacks, select and the data instructions push.
Pushes(ins) ==
  CASE ins.op \in {"local_get", "local_tee"} -> <<LocalTypes[ins.idx + 1]>>
    [] ins.op = "local_set" -> << >>
    [] ins.op = "select"    -> <<IF Peek(1) = "unknown" THEN Peek(2) ELSE Peek(1)>>
    [] OTHER                -> Sig(ins).push

on_data(ins) ==
  /\ ins.op \in LocalOps \cup DataOps
  /\ Decode(ins)
  /\ val_stack' = AfterOperands(ins) \o Pushes(ins)
  /\ stack_size_max' = Raise(Len(val_stack'))
  /\ Skip(IF ins.op \in EntityOps /\ ~ins.there THEN {"no_memory"} ELSE {})
  /\ UNCHANGED <<ctrl_stack, jt>>

(***************************************************************************)
(* The ends of a validation.  The decoder stops after an end with no byte  *)
(* left behind it, whatever is on the control stack; a read past the last  *)
(* byte and a failing callback end it with an error.  validate_func then   *)
(* drops the context.                                                      *)
(***************************************************************************)
EndDecoded == code # << >> /\ code[Len(code)].ins.op = "end"

on_decode_end ==
  /\ phase = "decode"
  /\ EndDecoded
  /\ phase' = "ready"
  /\ jt' = Link(jt)
  /\ skipped' = skipped \cup (IF ctrl_stack = << >> THEN {} ELSE {"open"})
  /\ val_stack' = << >>
  /\ ctrl_stack' = << >>
  /\ UNCHANGED <<f, code, offset, stack_size_max>>

\* Nothing of a function that was not accepted is used again.
Quit(how) ==
  /\ phase' = how
  /\ code' = << >> /\ offset' = 0
  /\ val_stack' = << >> /\ ctrl_stack' = << >> /\ jt' = << >>
  /\ stack_size_max' = 0
  /\ skipped' = {}
  /\ UNCHANGED f

Reject ==
  /\ phase = "decode"
  /\ \E ins \in Instrs :
       /\ Fits(ins)
       /\ ctrl_stack = << >> => ~TouchesFrame(ins)
       /\ ~Valid(ins)
  /\ Quit("invalid")

Truncated ==
  /\ phase = "decode"
  /\ ~EndDecoded
  /\ Quit("invalid")

EmptyVecAccess ==
  /\ phase = "decode"
  /\ ctrl_stack = << >>
  /\ \E ins \in Instrs : Fits(ins) /\ TouchesFrame(ins)
  /\ Quit("assert")

(***************************************************************************)
(* validator_on_decode_begin: the function's own block, whose parameters   *)
(* are locals and are not left on the stack.                               *)
(***************************************************************************)
Init ==
  /\ f \in Funs
  /\ code = << >>
  /\ offset = 0
  /\ val_stack = << >>
  /\ ctrl_stack = <<NewFrame("func", f.type, 0, 0)>>
  /\ jt = << >>
  /\ stack_size_max = Len(f.type.params)
  /\ phase = "decode"
  /\ skipped = {}

Step(ins) ==
  \/ on_unreachable(ins) \/ on_nop(ins) \/ on_block(ins) \/ on_else(ins)
  \/ on_end(ins) \/ on_br_or_if(ins) \/ on_br_table(ins) \/ on_return(ins)
  \/ on_call(ins) \/ on_data(ins)

Next ==
  \/ \E ins \in Instrs : Step(ins)
  \/ on_decode_end \/ Reject \/ Truncated \/ EmptyVecAccess

Spec == Init /\ [][Next]_vars

----------------------------------------------------------------------------
Slots == [pc : Nat, target_offset : Int, stack_offset : Nat, arity : Nat,
          next_idx : 0..U16_MAX]

Frames == [type : {"func", "block", "loop", "if", "else"},
           start_types : Seq(ValTypes), end_types : Seq(ValTypes),
           height : Nat, unreachable : BOOLEAN,
           pending_jt_slots : SUBSET Nat, pc : Nat]

Decoded == [at : Nat, ins : Instrs, slot : Nat, types : Seq(StackTypes),
            dead : BOOLEAN]

\* The variables have the types that validator.h and module.h declare.
TypeOK ==
  /\ f \in Funs
  /\ code \in Seq(Decoded)
  /\ offset \in Nat
  /\ val_stack \in Seq(StackTypes)
  /\ ctrl_stack \in Seq(Frames)
  /\ jt \in Seq(Slots)
  /\ stack_size_max \in Nat
  /\ phase \in {"decode", "ready", "invalid", "assert"}
  /\ skipped \subseteq SpecChecks

(***************************************************************************)
(* How the instructions and the slots of the jump table lie: instructions  *)
(* one after the other, each owning the slots between the table's size     *)
(* before it and before the next one.                                      *)
(***************************************************************************)
NextAt(k)   == code[k].at + Size(code[k].ins)
EndSlot(k)  == code[k].slot + SlotCount(code[k].ins)
SlotAddr(k) == IF code[k].ins.op = "br_table" THEN NextAt(k) ELSE code[k].at + 1

\* Every instruction owns exactly the slots that carry its address, in the
\* order of the code: what lets the interpreter step through the table with
\* next_jt_idx++ and never search it.
SlotLayout ==
  /\ \A k \in 1..Len(code) :
       /\ NextAt(k) = IF k = Len(code) THEN offset ELSE code[k + 1].at
       /\ EndSlot(k) = IF k = Len(code) THEN Len(jt) ELSE code[k + 1].slot
       /\ \A s \in (code[k].slot + 1)..EndSlot(k) : jt[s].pc = SlotAddr(k)
  /\ IF code = << >> THEN offset = 0 /\ jt = << >>
                     ELSE code[1].at = 0 /\ code[1].slot = 0

\* A branch target is the start of an instruction or the end of the code so
\* far, or its slot still waits on the control stack.
Waiting(s) ==
  \E p \in 1..Len(ctrl_stack) : s - 1 \in ctrl_stack[p].pending_jt_slots

Boundary == {code[k].at : k \in 1..Len(code)} \cup {offset}

TargetsOnBoundary ==
  phase = "decode" =>
  /\ \A s \in 1..Len(jt) : Waiting(s) \/ Target(jt[s]) \in Boundary
  /\ \A p \in 1..Len(ctrl_stack) :
       ctrl_stack[p].type = "loop" => ctrl_stack[p].pc \in Boundary

\* The slot that the interpreter must hold when it arrives at address a.
FirstSlotAfter(a) ==
  LET S == {s \in 1..Len(jt) : jt[s].pc > a}
  IN  IF S = {} THEN JUMP_TABLE_IDX_INVALID ELSE Min(S) - 1

Closed == skipped \cap {"open", "trailing"} = {}

(***************************************************************************)
(* The jump table of a function that validate_func accepted, if a u16 can  *)
(* number its slots: every jump lands on an instruction and leaves the     *)
(* slot index at the first slot behind its landing place.                  *)
(***************************************************************************)
Numbered == Len(jt) <= U16_MAX

JumpTableLinked ==
  phase = "ready" /\ Closed /\ Numbered =>
    \A s \in 1..Len(jt) :
      /\ \E k \in 1..Len(code) : code[k].at = Target(jt[s])
      /\ jt[s].next_idx = FirstSlotAfter(Target(jt[s]))
=============================================================================
