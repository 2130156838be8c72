------------------------------- MODULE MCTail -------------------------------
(***************************************************************************)
(* Both builds of the in-place interpreter for TLC, on the functions and   *)
(* instructions of MCInterp.                                               *)
(***************************************************************************)
EXTENDS MCInterp, InPlaceRefinement
=============================================================================
