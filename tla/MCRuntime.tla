------------------------------ MODULE MCRuntime ------------------------------
(***************************************************************************)
(* Modules for TLC.                                                        *)
(*   A  owns a memory and a table and exports them with a function.  The   *)
(*      memory is declared with so many pages that it starts with none.    *)
(*   B  imports both; its element puts a function of B into A's table, and *)
(*      its data fits only once A's memory has grown, so that it may fail  *)
(*      after the element was copied.                                      *)
(*   C  imports B's function and exports it again, imports the memory with *)
(*      the size it has after growth, and has a start function.  It holds  *)
(*      references, and puts the value of a global into A's table.         *)
(*   D  has A's name and does not pass validation.                         *)
(*   F  has only a start function, which it exports.                       *)
(*   G  imports the function of F and exports it again; an element of G is *)
(*      wrong in the middle.                                               *)
(*   E  imports the function from G and has a global of the wrong type.    *)
(***************************************************************************)
EXTENDS Threads

CONSTANTS A, B, C, D, E, F, G

Func(from, room) == [kind |-> "func", type |-> "v", min |-> 0, max |-> 0,
                     from |-> from, expr |-> "", room |-> room]
Glob(type, expr) == [kind |-> "glob", type |-> type, min |-> 0, max |-> 0,
                     from |-> << >>, expr |-> expr, room |-> 0]
Sized(kind, type, from, min, max) ==
  [kind |-> kind, type |-> type, min |-> min, max |-> max, from |-> from,
   expr |-> "", room |-> 0]
Exp(kind, field, at) == [kind |-> kind, field |-> field, at |-> at]
Active(at, items) == [mode |-> "active", at |-> at, offset |-> 0, items |-> items]
Other(mode, items) == [mode |-> mode, at |-> 0, offset |-> 0, items |-> items]

DescA ==
  [name |-> "a", valid |-> TRUE,
   ents |-> << Func(<< >>, 1), Sized("mem", "", << >>, 2, 2),
               Sized("tab", "funcref", << >>, 1, 2) >>,
   exports |-> << Exp("func", "f", 1), Exp("mem", "m", 2), Exp("tab", "t", 3) >>,
   elements |-> << >>, data |-> << >>, start |-> 0, refs |-> FALSE]

DescB ==
  [name |-> "b", valid |-> TRUE,
   ents |-> << Func(<< >>, 2), Sized("mem", "", <<"a", "m">>, 1, 2),
               Sized("tab", "funcref", <<"a", "t">>, 1, 2) >>,
   exports |-> << Exp("func", "g", 1), Exp("tab", "t", 3) >>,
   elements |-> << Active(3, << 1 >>), Other("declarative", << 1 >>) >>,
   data |-> << [active |-> TRUE, at |-> 2, offset |-> 1, len |-> 1] >>,
   start |-> 0, refs |-> FALSE]

DescC ==
  [name |-> "c", valid |-> TRUE,
   ents |-> << Func(<<"b", "g">>, 0), Func(<< >>, 0), Glob("i32", "i32"),
               Sized("mem", "", <<"a", "m">>, 2, 2),
               Sized("tab", "funcref", <<"a", "t">>, 1, 2) >>,
   exports |-> << Exp("func", "g", 1) >>,
   elements |-> << Active(5, << -2 >>) >>,
   data |-> << [active |-> FALSE, at |-> 0, offset |-> 0, len |-> 1] >>, start |-> 2,
   refs |-> TRUE]

DescD ==
  [name |-> "a", valid |-> FALSE, ents |-> << Func(<< >>, 0) >>,
   exports |-> << Exp("func", "f", 1) >>, elements |-> << >>, data |-> << >>,
   start |-> 0, refs |-> FALSE]

DescE ==
  [name |-> "e", valid |-> TRUE,
   ents |-> << Func(<<"c", "g">>, 0), Glob("i32", "i64") >>,
   exports |-> << >>, elements |-> << >>, data |-> << >>, start |-> 0, refs |-> FALSE]

DescF ==
  [name |-> "b", valid |-> TRUE, ents |-> << Func(<< >>, 1) >>,
   exports |-> << Exp("func", "g", 1) >>, elements |-> << >>, data |-> << >>,
   start |-> 1, refs |-> FALSE]

DescG ==
  [name |-> "c", valid |-> TRUE,
   ents |-> << Func(<<"b", "g">>, 0), Sized("tab", "funcref", << >>, 2, 2) >>,
   exports |-> << Exp("func", "g", 1) >>,
   elements |-> << Other("passive", << 1 >>), Active(2, << 0, 1 >>),
                   Active(2, << 1, -1 >>) >>,
   data |-> << >>, start |-> 0, refs |-> FALSE]

MCDesc == [m \in Mods |-> CASE m = A -> DescA [] m = B -> DescB [] m = C -> DescC
                            [] m = D -> DescD [] m = E -> DescE [] m = F -> DescF
                            [] OTHER -> DescG]

\* A second module by the name of B.
AliasC == {<<C, "b">>}
NoAlias == {}
=============================================================================
