------------------------------ MODULE WasmCode ------------------------------
(***************************************************************************)
(* The vocabulary shared by the validator and the interpreters: value      *)
(* types, function types, instructions and where they lie in a function's  *)
(* code.                                                                   *)
(*                                                                         *)
(* An instruction is a record whose field op names its opcode (or the      *)
(* class of opcodes that one callback of op_decoder.h receives) and whose  *)
(* other fields are its decoded immediates:                                *)
(*    block, loop, if          type   a function type                      *)
(*    br, br_if                lth    a label                              *)
(*    br_table                 ls     labels, the default last             *)
(*    call                     fn     a function index (0-based)           *)
(*    call_indirect            type   the type the callee must have        *)
(*    local_get, _set, _tee    idx    a local index (0-based)              *)
(*    typed data instructions  t      the value type they work on          *)
(*    convertop                s, t   operand and result types             *)
(*    entity instructions      there  whether the memory, global, table,   *)
(*                                    function or segment that they name   *)
(*                                    exists in the module                 *)
(***************************************************************************)
EXTENDS Integers, Sequences, FiniteSetsExt

CONSTANTS
  Instrs,     \* The instructions that a function body may contain.
  Callees,    \* Functions that call may name: [type, imported, local_count],
              \* local_count as it is where the function is defined, with the
              \* parameters (0 in a host function).
  U16_MAX,    \* u16_MAX, which JUMP_TABLE_IDX_INVALID is.
  U32_RANGE   \* Number of values of a u32 (scaled: above every stack offset).

NumTypes == {"i32", "i64", "f32", "f64"}
RefTypes == {"funcref", "externref"}
ValTypes == NumTypes \cup RefTypes

(***************************************************************************)
(* What the validator's stack may hold: TYPE_ID_unknown stands for a value *)
(* that unreachable code pretends to have.                                 *)
(***************************************************************************)
StackTypes == ValTypes \cup {"unknown"}

FuncTypes == [params : Seq(ValTypes), results : Seq(ValTypes)]

ControlOps == {"unreachable", "nop", "block", "loop", "if", "else", "end",
               "br", "br_if", "br_table", "return", "call"}
LocalOps   == {"local_get", "local_set", "local_tee"}
DataOps    == {"drop", "select", "select_t", "const", "unop", "binop",
               "testop", "relop", "convertop", "load", "store",
               "memory_size", "memory_grow", "global_get", "global_set",
               "table_get", "table_set", "ref_null", "ref_is_null",
               "ref_func", "bulk", "seg_drop", "table_grow", "table_size",
               "table_fill", "call_indirect"}

(***************************************************************************)
(* Data instructions that work on one value type, and the ones that name a *)
(* memory, a global, a table, a function or a segment.                     *)
(***************************************************************************)
TypedOps   == {"select_t", "const", "unop", "binop", "testop", "relop",
               "convertop", "load", "store", "global_get", "global_set",
               "table_get", "table_set", "ref_null"}
EntityOps  == {"load", "store", "memory_size", "memory_grow", "global_get",
               "global_set", "table_get", "table_set", "ref_func", "bulk",
               "seg_drop", "table_grow", "table_size", "table_fill",
               "call_indirect"}

is_num(t) == t \in NumTypes \cup {"unknown"}
is_ref(t) == t \in RefTypes \cup {"ref", "unknown"}

(***************************************************************************)
(* Encoded length.  Block types, labels, indices and constants are one     *)
(* byte each here; that is all the jump table depends on, since it stores  *)
(* distances between instructions.                                         *)
(***************************************************************************)
Size(ins) ==
  CASE ins.op \in {"unreachable", "nop", "else", "end", "return", "drop",
                   "select", "unop", "binop", "testop", "relop",
                   "convertop", "ref_is_null"} -> 1
    [] ins.op = "br_table" -> 2 + Len(ins.ls)
    [] ins.op \in {"load", "store", "select_t", "seg_drop", "table_grow",
                   "table_size", "table_fill", "call_indirect"} -> 3
    [] ins.op = "bulk" -> 4
    [] OTHER -> 2

(***************************************************************************)
(* The instructions that own slots of the jump table: one each, except     *)
(* br_table, which owns one per label.                                     *)
(***************************************************************************)
JumpOps == {"if", "else", "br", "br_if", "br_table"}

SlotCount(ins) ==
  CASE ins.op = "br_table" -> Len(ins.ls)
    [] ins.op \in JumpOps \ {"br_table"} -> 1
    [] OTHER -> 0

(***************************************************************************)
(* The structure of a body.                                                *)
(***************************************************************************)
Opens(p, i)  == p[i].op \in {"block", "loop", "if"}
Closes(p, i) == p[i].op = "end"

\* Blocks opened and not closed by the instructions i..j.
Depth(p, i, j) ==
  Cardinality({n \in i..j : Opens(p, n)}) - Cardinality({n \in i..j : Closes(p, n)})

\* The end of the block opened at i.
MatchEnd(p, i) == Min({j \in i..Len(p) : Depth(p, i, j) = 0})

\* The else of the if opened at i, if it has one.
Elses(p, i) == {j \in i..MatchEnd(p, i) : p[j].op = "else" /\ Depth(p, i, j) = 1}

ASSUME WidthAssumption ==
  /\ U16_MAX \in Nat \ {0}
  /\ U32_RANGE \in Nat /\ U32_RANGE > 32767

ASSUME CalleesAssumption ==
  /\ Callees \in Seq([type : FuncTypes, imported : BOOLEAN, local_count : Nat])
  /\ \A i \in DOMAIN Callees : ~Callees[i].imported =>
       Callees[i].local_count >= Len(Callees[i].type.params)

ASSUME InstrsAssumption ==
  \A ins \in Instrs :
    /\ ins.op \in ControlOps \cup LocalOps \cup DataOps
    /\ ins.op \in {"block", "loop", "if", "call_indirect"} => ins.type \in FuncTypes
    /\ ins.op \in {"br", "br_if"} => ins.lth \in Nat
    /\ ins.op = "br_table" => ins.ls \in Seq(Nat) /\ ins.ls # << >>
    /\ ins.op = "call" => ins.fn \in Nat
    /\ ins.op \in LocalOps => ins.idx \in Nat
    /\ ins.op \in TypedOps => ins.t \in ValTypes
    /\ ins.op = "convertop" => ins.s \in ValTypes
    /\ ins.op \in EntityOps => ins.there \in BOOLEAN
=============================================================================
