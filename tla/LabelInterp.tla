----------------------------- MODULE LabelInterp -----------------------------
(***************************************************************************)
(* What an interpreter of WebAssembly promises, told the textbook way that *)
(* docs/Interpreter.md starts from: entering a block pushes a label that   *)
(* knows where a branch to it goes on, how many values the branch carries  *)
(* and how high the stack stood; leaving the block pops it; a branch       *)
(* unwinds labels and values.  There is no code address, no jump table and *)
(* no validator here.                                                      *)
(***************************************************************************)
EXTENDS WasmCode

VARIABLES
  fn,       \* the function: [type, locals]
  prog,     \* its body, a sequence of instructions
  k,        \* index of the next instruction
  labels,   \* innermost last
  stack,
  local,
  status    \* "idle", "running", "returned" or "trapped"

lvars == <<fn, prog, k, labels, stack, local, status>>

(***************************************************************************)
(* The label of the block opened at i, entered with stack height h.  A     *)
(* branch to a loop goes on at the loop's body.                            *)
(***************************************************************************)
Label(p, i, h) ==
  [cont   |-> IF p[i].op = "loop" THEN i + 1 ELSE MatchEnd(p, i) + 1,
   arity  |-> Len(IF p[i].op = "loop" THEN p[i].type.params ELSE p[i].type.results),
   height |-> h - Len(p[i].type.params),
   loop   |-> p[i].op = "loop"]

FuncLabel(p, type) ==
  [cont |-> Len(p), arity |-> Len(type.results), height |-> 0, loop |-> TRUE]

----------------------------------------------------------------------------
op == prog[k].op
Below(n)  == SubSeq(stack, 1, Len(stack) - n)
Above(n)  == SubSeq(stack, Len(stack) - n + 1, Len(stack))
Made(ts)  == [i \in 1..Len(ts) |-> [t |-> ts[i], by |-> k]]

Going == status = "running" /\ UNCHANGED <<fn, prog>>

To(i, ls, s) ==
  /\ k' = i /\ labels' = ls /\ stack' = s
  /\ UNCHANGED <<local, status>>

Exit(how, s) ==
  /\ status' = how /\ stack' = s
  /\ k' = 0 /\ labels' = << >> /\ local' = << >>

LInit ==
  /\ status = "idle"
  /\ prog = << >> /\ k = 0
  /\ labels = << >> /\ stack = << >> /\ local = << >>

Call ==
  /\ status = "idle" /\ status' = "running"
  /\ fn' = fn
  /\ prog' \in Seq(Instrs)
  /\ k' = 1
  /\ labels' = <<FuncLabel(prog', fn.type)>>
  /\ stack' = << >>
  /\ local' = [i \in 1..Len(fn.type.params \o fn.locals) |->
                 [t  |-> (fn.type.params \o fn.locals)[i],
                  by |-> IF i <= Len(fn.type.params) THEN 0 ELSE -1]]

Enter ==
  /\ Going /\ op \in {"block", "loop"}
  /\ To(k + 1, Append(labels, Label(prog, k, Len(stack))), stack)

If ==
  /\ Going /\ op = "if"
  /\ LET s  == Below(1)
         ls == Append(labels, Label(prog, k, Len(s)))
     IN  \/ To(k + 1, ls, s)
         \/ Elses(prog, k) # {} /\ To(Min(Elses(prog, k)) + 1, ls, s)
         \/ Elses(prog, k) = {} /\ To(MatchEnd(prog, k) + 1, labels, s)

\* The end of a block's body, or of the part of an if before its else.
Leave ==
  /\ Going
  /\ \/ op = "else"
     \/ op = "end" /\ Len(labels) > 1
  /\ LET ls == SubSeq(labels, 1, Len(labels) - 1)
     IN  To(IF op = "end" THEN k + 1 ELSE labels[Len(labels)].cont, ls, stack)

\* Branching to label l unwinds the labels inside it and the values above it.
Branch(l, s) ==
  LET lb == labels[Len(labels) - l]
  IN  To(lb.cont,
         SubSeq(labels, 1, Len(labels) - l - IF lb.loop THEN 0 ELSE 1),
         SubSeq(s, 1, lb.height) \o SubSeq(s, Len(s) - lb.arity + 1, Len(s)))

Br ==
  /\ Going
  /\ \/ op = "br" /\ Branch(prog[k].lth, stack)
     \/ op = "br_if" /\ Branch(prog[k].lth, Below(1))
     \/ op = "br_if" /\ To(k + 1, labels, Below(1))
     \/ op = "br_table" /\ \E i \in DOMAIN prog[k].ls : Branch(prog[k].ls[i], Below(1))

Return ==
  /\ Going
  /\ op = "return" \/ (op = "end" /\ Len(labels) = 1)
  /\ Exit("returned", Above(Len(fn.type.results)))

Trap ==
  /\ Going
  /\ op \in {"unreachable", "call"} \cup DataOps
  /\ Exit("trapped", << >>)

CallOther ==
  /\ Going /\ op = "call"
  /\ LET type == Callees[prog[k].fn + 1].type
     IN  To(k + 1, labels, Below(Len(type.params)) \o Made(type.results))

Nop == Going /\ op = "nop" /\ To(k + 1, labels, stack)

Drop == Going /\ op = "drop" /\ To(k + 1, labels, Below(1))

\* The instructions that compute: their operands and their result.
Compute ==
  /\ Going
  /\ \/ op = "const" /\ To(k + 1, labels, stack \o Made(<<prog[k].t>>))
     \/ op = "unop"  /\ To(k + 1, labels, Below(1) \o Made(<<prog[k].t>>))
     \/ op = "binop" /\ To(k + 1, labels, Below(2) \o Made(<<prog[k].t>>))
     \/ op = "relop" /\ To(k + 1, labels, Below(2) \o Made(<<"i32">>))
     \/ op = "select" /\ \E i \in {1, 2} : To(k + 1, labels, Append(Below(3), Above(3)[i]))

Local ==
  /\ Going /\ op \in LocalOps
  /\ LET i == prog[k].idx + 1
     IN  IF op = "local_get" THEN To(k + 1, labels, Append(stack, local[i]))
         ELSE /\ local' = [local EXCEPT ![i] = stack[Len(stack)]]
              /\ stack' = IF op = "local_set" THEN Below(1) ELSE stack
              /\ k' = k + 1
              /\ UNCHANGED <<labels, status>>

LNext ==
  \/ Call \/ Enter \/ If \/ Leave \/ Br \/ Return \/ Trap \/ CallOther
  \/ Nop \/ Drop \/ Compute \/ Local

Spec == LInit /\ [][LNext]_lvars
=============================================================================
