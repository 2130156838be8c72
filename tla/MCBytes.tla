------------------------------ MODULE MCBytes -------------------------------
(***************************************************************************)
(* The byte stream and the bounds checks for TLC.  They share no state:    *)
(* bytes are read in any way; where none are, an instance may come to be   *)
(* and run.                                                                *)
(***************************************************************************)
EXTENDS Stream, Access

BytesInit == StreamInit /\ AccessInit

Read == ~running /\ StreamNext /\ UNCHANGED avars

Run == buffer = << >> /\ AccessNext /\ UNCHANGED svars

BytesNext == Read \/ Run

BytesSpec == BytesInit /\ [][BytesNext]_<<svars, avars>>
=============================================================================
