------------------------------ MODULE MCInterp ------------------------------
(***************************************************************************)
(* Instances of the validator and the in-place interpreter for TLC: sets   *)
(* of instructions over which every function body up to a length is        *)
(* generated, validated and run, in every way in which its branches go.    *)
(***************************************************************************)
EXTENDS InPlaceInterp

Type(ps, rs) == [params |-> ps, results |-> rs]
Fun(type, locals) == [type |-> type, locals |-> locals]
Own(type, n)      == [type |-> type, imported |-> FALSE, local_count |-> n]
Imported(type, n) == [type |-> type, imported |-> TRUE, local_count |-> n]

Unit == Type(<< >>, << >>)
Give == Type(<< >>, <<"i32">>)
Take == Type(<<"i32">>, << >>)
Two  == Type(<< >>, <<"i32", "i32">>)

Op(o) == [op |-> o]

(***************************************************************************)
(* Control.  One call yields a condition and a value to carry.             *)
(***************************************************************************)
ControlFuns    == {Fun(Unit, << >>), Fun(Give, << >>)}
ControlCallees == <<Own(Two, 1)>>
ControlInstrs ==
  {Op("else"), Op("end"), [op |-> "call", fn |-> 0]}
  \cup [op : {"block", "loop", "if"}, type : {Unit, Give}]
  \cup [op : {"br", "br_if"}, lth : 0..1]
  \cup {[op |-> "br_table", ls |-> <<0, 1>>]}

(***************************************************************************)
(* Blocks that take a parameter, a local and an early return.              *)
(***************************************************************************)
DeepFuns == {Fun(Type(<<"i32">>, <<"i32">>), <<"i32">>)}
DeepInstrs ==
  {Op("else"), Op("end"), [op |-> "call", fn |-> 0], Op("return"),
   [op |-> "local_tee", idx |-> 1],
   [op |-> "if", type |-> Unit], [op |-> "block", type |-> Take],
   [op |-> "loop", type |-> Take], [op |-> "br_if", lth |-> 1],
   [op |-> "br", lth |-> 0], [op |-> "br_table", ls |-> <<1, 0>>]}

(***************************************************************************)
(* Data.  Calls of several results supply the operands of each class of    *)
(* instructions; an imported callee has more locals than parameters.       *)
(***************************************************************************)
DataFuns == {Fun(Type(<<"i32">>, <<"i32">>), <<"externref">>)}
Fill == Type(<< >>, <<"i32", "externref", "i32">>)
DataCallees ==
  <<Own(Type(<< >>, <<"i32", "i32", "i32">>), 4), Own(Fill, 0),
    Own(Type(<<"i32", "i32">>, <<"i64">>), 3), Imported(Take, 4), Own(Two, 1)>>

DataInstrs ==
  {Op("nop"), Op("unreachable"), Op("end"), Op("return"), Op("drop"),
   Op("select"), Op("ref_is_null")}
  \cup [op : {"call"}, fn : (0..3) \cup {5}]
  \cup [op : {"local_get", "local_set", "local_tee"}, idx : 0..2]
  \cup [op : {"const", "unop", "binop", "testop", "relop"}, t : {"i64"}]
  \cup {[op |-> "select_t", t |-> "i32"], [op |-> "ref_null", t |-> "externref"],
        [op |-> "convertop", s |-> "i64", t |-> "i32"],
        [op |-> "call_indirect", type |-> Fill, there |-> TRUE],
        [op |-> "call_indirect", type |-> Take, there |-> TRUE],
        [op |-> "call_indirect", type |-> Two, there |-> TRUE],
        [op |-> "call_indirect", type |-> Take, there |-> FALSE]}
  \cup [op : {"load", "store"}, t : {"i64"}, there : BOOLEAN]
  \cup [op : {"global_get", "global_set", "table_get", "table_set"},
        t : {"externref"}, there : {TRUE}]
  \cup [op : {"memory_size", "memory_grow"}, there : BOOLEAN]
  \cup [op : {"ref_func", "bulk", "seg_drop", "table_grow", "table_size",
              "table_fill"}, there : {TRUE}]
=============================================================================
