-------------------------- MODULE InPlaceRefinement --------------------------
(***************************************************************************)
(* Both builds of the in-place interpreter implement the label-stack       *)
(* interpreter on every function whose validation made all its checks.     *)
(* The labels that they do without are a function of the place in          *)
(* the code alone: the blocks that enclose it, each with the height that   *)
(* the validator saw when the block was opened.                            *)
(***************************************************************************)
EXTENDS TailCallInterp, SequencesExt

Body == [i \in 1..Len(code) |-> code[i].ins]

\* Only checked functions are mapped, and only once they run.
Mapped == skipped = {} /\ status # "idle"
Going  == Mapped /\ status = "running"

Here == CHOOSE k \in 1..Len(code) : code[k].at = Place

\* The blocks around instruction k, outermost first.
Enclosing(k) ==
  SetToSortSeq({b \in 1..(k - 1) : Opens(Body, b) /\ MatchEnd(Body, b) >= k}, <)

\* The height of the stack on entry to the block opened at b.
EntryHeight(b) ==
  Len(code[b].types) - (IF Ins(b).op = "if" THEN 1 ELSE 0)

Labels ==
  LET L == INSTANCE LabelInterp WITH fn <- f, prog <- Body, k <- Here,
                                     labels <- << >>
      es == Enclosing(Here)
  IN  <<L!FuncLabel(Body, f.type)>>
      \o [i \in 1..Len(es) |-> L!Label(Body, es[i], EntryHeight(es[i]))]

LS == INSTANCE LabelInterp WITH
  fn     <- f,
  prog   <- IF Mapped THEN Body ELSE << >>,
  k      <- IF Going THEN Here ELSE 0,
  labels <- IF Going THEN Labels ELSE << >>,
  stack  <- IF Going \/ (Mapped /\ status = "returned") THEN stack ELSE << >>,
  local  <- IF Going THEN local ELSE << >>,
  status <- IF Mapped THEN status ELSE "idle"

\* Run by run, the in-place interpreter does what the label stack prescribes:
\* the same instruction next, the same values on the stack and in the locals.
ImplementsLabels == LS!Spec
=============================================================================
