------------------------------ MODULE MCParser ------------------------------
(***************************************************************************)
(* Types and limits for TLC.                                               *)
(***************************************************************************)
EXTENDS Parser

StartType == [params |-> 0, results |-> 0]
OtherType == [params |-> 1, results |-> 0]
TwoTypes  == {StartType, OtherType}

\* Limits without a largest size, above the cap of memories, and with one: good,
\* above the caps, below the smallest size; and a flag that does not exist.
SomeLimits == {[flag |-> 0, min |-> 2, max |-> 0], [flag |-> 1, min |-> 1, max |-> 1],
               [flag |-> 1, min |-> 0, max |-> 9], [flag |-> 1, min |-> 1, max |-> 0],
               [flag |-> 2, min |-> 0, max |-> 0]}
=============================================================================
