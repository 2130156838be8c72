------------------------------- MODULE Parser -------------------------------
(***************************************************************************)
(* The binary parser (src/runtime/parser.c): the loop over the sections of *)
(* a module, their order, and what each section adds to the module record. *)
(*                                                                         *)
(* The bytes are chosen while they are read: a section's action takes any  *)
(* list of up to MaxList entries.  A section is read when all its checks   *)
(* hold, which are the guards of its action; Reject is every read or check *)
(* that fails.  A module that is rejected is dropped at once, so what was  *)
(* done to it before does not matter.  Names, value types and the contents *)
(* of expressions and function bodies are left out.                        *)
(***************************************************************************)
EXTENDS Vec

CONSTANTS
  Types,      \* Function types: their numbers of parameters and results.
  Limits,     \* Encoded limits: [flag, min, max].
  MEM_CAP,    \* WASM_MEM_MAX_PAGES
  U32_MAX,    \* u32_MAX, the cap of tables and of the locals that a body declares
  MaxList,    \* Bound on the entries of a section.
  MaxImports, \* Bound on the imported entities of a kind.
  MaxVectors  \* Bound on the vectors that sections have filled or fixed.

ASSUME ParserAssumption ==
  /\ U32_MAX \in Nat
  /\ Types \subseteq [params : 0..U32_MAX, results : Nat]
  /\ Limits \subseteq [flag : Nat, min : Nat, max : Nat]
  /\ {MEM_CAP, MaxList, MaxImports, MaxVectors} \subseteq Nat

VARIABLES
  status,            \* "parsing", "ok" or "err"
  current_order_idx,
  func_types,
  ents,              \* ents[k]: mod->funcs, tables, memories, globals
  imported_count,    \* imported_count[k]: mod->imported_func_count, ...
  exports,
  start_funcidx,     \* a function, or 0
  elements,
  data_count,        \* a number, or -1
  data               \* whether each segment is active

vars == <<status, current_order_idx, func_types, ents, imported_count, exports,
          start_funcidx, elements, data_count, data>>

Kinds == {"func", "table", "memory", "global"}
Order == <<"custom", "type", "import", "function", "table", "memory", "global",
           "export", "start", "element", "data_count", "code", "data">>

Lists(S) == UNION {[1..n -> S] : n \in 0..MaxList}

\* An entity; locals is local_count, which includes the parameters, and declared
\* the size of local_types, which does not.  type is 0 and these two and code are
\* idle except for functions, lim is idle for functions and globals.
NoLim == [min |-> 0, max |-> 0]
Entity(imported, type, lim, locals) ==
  [imported |-> imported, exported |-> FALSE, type |-> type, lim |-> lim,
   locals |-> locals, declared |-> 0, code |-> FALSE]

----------------------------------------------------------------------------
(***************************************************************************)
(* The order of sections.  The search for the section goes on from the     *)
(* last one that was found and does not pass it by.                        *)
(***************************************************************************)
\* Mutant: the search starts at the beginning.
NextOrderAny(name) == CHOOSE i \in DOMAIN Order : Order[i] = name

NextOrder(name) ==
  LET S == {i \in DOMAIN Order : i >= current_order_idx /\ Order[i] = name}
  IN  IF S = {} THEN 0 ELSE Min(S)

\* The number of vectors that the sections so far have used.
Used(v) == v.fixed \/ v.data # << >>
VectorsUsed ==
  Cardinality({k \in Kinds : Used(ents[k])}
    \cup {s \in {"type", "export", "element", "data"} :
           CASE s = "type"    -> Used(func_types)
             [] s = "export"  -> Used(exports)
             [] s = "element" -> Used(elements)
             [] s = "data"    -> Used(data)})

Section(name) ==
  /\ status = "parsing"
  /\ VectorsUsed < MaxVectors
  /\ NextOrder(name) # 0
  /\ current_order_idx' = NextOrder(name)
  /\ UNCHANGED status

\* A section without payload, and a custom section, which may be anywhere.
EmptySection ==
  /\ \E name \in {Order[i] : i \in DOMAIN Order} \ {"custom"} : Section(name)
  /\ UNCHANGED <<func_types, ents, imported_count, exports, start_funcidx,
                 elements, data_count, data>>

parse_section_custom == status = "parsing" /\ UNCHANGED vars

----------------------------------------------------------------------------
(***************************************************************************)
(* Types, imports and the entities that the module defines.                *)
(***************************************************************************)
\* Whether parse_limits takes the limits, and what it makes of them.
LimitsOk(l, cap) ==
  /\ l.flag \in {0, 1}
  /\ l.flag = 1 => l.max <= cap
  /\ l.min <= IF l.flag = 1 THEN l.max ELSE cap

parse_limits(l, cap) ==
  [min |-> l.min, max |-> IF l.flag = 1 THEN l.max ELSE cap]

Cap(kind) == IF kind = "memory" THEN MEM_CAP ELSE U32_MAX

parse_section_type ==
  /\ Section("type")
  /\ CanReserve(func_types)
  /\ \E s \in Lists(Types) :
       func_types' = vec_push_all(ReserveFixed(func_types, Len(s)), s)
  /\ UNCHANGED <<ents, imported_count, exports, start_funcidx, elements,
                 data_count, data>>

\* The entities of a kind that the bytes can describe.  An imported function
\* has no locals, not even its parameters.
Described(kind, imported) ==
  CASE kind = "func" ->
         {Entity(imported, t, NoLim, IF imported THEN 0 ELSE func_types.data[t].params) :
            t \in DOMAIN func_types.data}
    [] kind = "global" -> {Entity(imported, 0, NoLim, 0)}
    [] OTHER -> {Entity(imported, 0, parse_limits(l, Cap(kind)), 0) :
                   l \in {x \in Limits : LimitsOk(x, Cap(kind))}}

\* One import after the other, in any mixture of kinds; here one list for each.
parse_section_import ==
  /\ Section("import")
  /\ \E kind \in Kinds : \E s \in Lists(Described(kind, TRUE)) :
       /\ imported_count[kind] + Len(s) <= MaxImports
       /\ CanPush(ents[kind], s)
       /\ ents' = [ents EXCEPT ![kind] = vec_push_all(@, s)]
       /\ imported_count' = [imported_count EXCEPT ![kind] = @ + Len(s)]
  /\ UNCHANGED <<func_types, exports, start_funcidx, elements, data_count, data>>

\* What the four sections of definitions have in common.
Define(name, kind) ==
  /\ Section(name)
  /\ CanReserve(ents[kind])
  /\ \E s \in Lists(Described(kind, FALSE)) :
       ents' = [ents EXCEPT ![kind] =
                  vec_push_all(ReserveFixed(@, Len(s) + Len(@.data)), s)]
  /\ UNCHANGED <<func_types, imported_count, exports, start_funcidx, elements,
                 data_count, data>>

parse_section_function == Define("function", "func")
parse_section_table    == Define("table", "table")
parse_section_memory   == Define("memory", "memory")
parse_section_global   == Define("global", "global")

----------------------------------------------------------------------------
(***************************************************************************)
(* Sections that refer to entities.  Indices start at 1 here.              *)
(***************************************************************************)
\* Mutant: one index too many, of memories.
InRangeOrNext(kind, i) ==
  IF kind = "memory" THEN i <= Len(ents[kind].data) + 1 ELSE i <= Len(ents[kind].data)

InRange(kind, i) == i <= Len(ents[kind].data)

\* The indices that the bytes may name.
Named == 1..(MaxImports + MaxList + 1)

parse_section_export ==
  /\ Section("export")
  /\ CanReserve(exports)
  /\ \E s \in Lists([kind : Kinds, at : Named]) :
       /\ \A i \in DOMAIN s : InRange(s[i].kind, s[i].at)
       /\ exports' = vec_push_all(ReserveFixed(exports, Len(s)), s)
       /\ ents' = [k \in Kinds |-> WithData(ents[k],
            [j \in DOMAIN ents[k].data |-> [ents[k].data[j] EXCEPT !.exported =
               @ \/ \E i \in DOMAIN s : s[i] = [kind |-> k, at |-> j]]])]
  /\ UNCHANGED <<func_types, imported_count, start_funcidx, elements, data_count,
                 data>>

parse_section_start ==
  /\ Section("start")
  /\ \E i \in Named :
       /\ InRange("func", i)
       /\ func_types.data[ents["func"].data[i].type] = [params |-> 0, results |-> 0]
       /\ start_funcidx' = i
  /\ UNCHANGED <<func_types, ents, imported_count, exports, elements, data_count,
                 data>>

(***************************************************************************)
(* An element has one vector for function indices and one for expressions, *)
(* and the bits of its kind say which one is read.  A new element is all   *)
(* zeros.                                                                  *)
(***************************************************************************)
NewElement == [mode |-> "active", data_len |-> 0, v_funcidx |-> EmptyVec,
               v_expr |-> EmptyVec]

ElemMode(kind) == IF kind % 2 = 0 THEN "active"
                  ELSE IF kind % 4 = 3 THEN "declarative" ELSE "passive"
IsExpr(kind) == kind >= 4

\* An entry of the section; expressions are all one item.
Entries == [kind : 0..3, items : Lists(Named)] \cup [kind : 4..7, items : Lists({1})]

\* Mutant: what vec_reserve returns is not looked at.
CanReadAgain(el, entry) ==
  IsExpr(entry.kind) \/ \A i \in DOMAIN entry.items : InRange("func", entry.items[i])

\* The entry read into element el.
CanRead(el, entry) ==
  IF IsExpr(entry.kind) THEN CanReserve(el.v_expr)
  ELSE /\ CanReserve(el.v_funcidx)
       /\ \A i \in DOMAIN entry.items : InRange("func", entry.items[i])

ReadElement(el, entry) ==
  LET read(v) == vec_push_all(ReserveFixed(v, Len(entry.items)), entry.items)
  IN  [el EXCEPT !.mode = ElemMode(entry.kind), !.data_len = Len(entry.items),
                 !.v_expr    = IF IsExpr(entry.kind) THEN read(@) ELSE @,
                 !.v_funcidx = IF IsExpr(entry.kind) THEN @ ELSE read(@)]

parse_section_element ==
  /\ Section("element")
  /\ \E s \in Lists(Entries) :
       LET sized == vec_resize(elements, Len(s), NewElement)
       IN  /\ CanResize(elements, Len(s))
           /\ \A i \in DOMAIN s : CanRead(sized.data[i], s[i])
           /\ elements' = Vector([i \in DOMAIN s |-> ReadElement(sized.data[i], s[i])],
                                 sized.capacity, TRUE)
  /\ UNCHANGED <<func_types, ents, imported_count, exports, start_funcidx,
                 data_count, data>>

----------------------------------------------------------------------------
(***************************************************************************)
(* Code and data.                                                          *)
(***************************************************************************)
\* A body that declares n locals, no more than U32_MAX.  They are added one by one
\* to local_count, a u32 that starts with the parameters.
WithBody(f, n) ==
  [f EXCEPT !.code = TRUE, !.declared = n, !.locals = (@ + n) % (U32_MAX + 1)]

\* One body for each function that is not imported.  The vector of a function's
\* locals is fixed behind it, which makes a second body fail.
parse_section_code ==
  /\ Section("code")
  /\ LET fs  == ents["func"].data
         own == (imported_count["func"] + 1)..Len(fs)
     IN  /\ \A i \in own : ~fs[i].code
         /\ \E declared \in [own -> 0..U32_MAX] :
              ents' = [ents EXCEPT !["func"] = WithData(@,
                [i \in DOMAIN fs |->
                   IF i \in own THEN WithBody(fs[i], declared[i]) ELSE fs[i]])]
  /\ UNCHANGED <<func_types, imported_count, exports, start_funcidx, elements,
                 data_count, data>>

parse_section_data_count ==
  /\ Section("data_count")
  /\ data_count' \in 0..MaxList
  /\ UNCHANGED <<func_types, ents, imported_count, exports, start_funcidx,
                 elements, data>>

\* Mutant: the number that was announced is not looked at.
CountOkAny(n) == TRUE

CountOk(n) == data_count \in {-1, n}

parse_section_data ==
  /\ Section("data")
  /\ CanReserve(data)
  /\ \E s \in Lists(BOOLEAN) :
       /\ CountOk(Len(s))
       /\ data_count' = IF data_count = -1 THEN Len(s) ELSE data_count
       /\ data' = vec_push_all(ReserveFixed(data, Len(s)), s)
  /\ UNCHANGED <<func_types, ents, imported_count, exports, start_funcidx, elements>>

----------------------------------------------------------------------------
\* The end of the bytes between two sections, and everything that fails.
Accept ==
  /\ status = "parsing"
  /\ status' = "ok"
  /\ UNCHANGED <<current_order_idx, func_types, ents, imported_count, exports,
                 start_funcidx, elements, data_count, data>>

Reject ==
  /\ status = "parsing"
  /\ status' = "err"
  /\ UNCHANGED <<current_order_idx, func_types, ents, imported_count, exports,
                 start_funcidx, elements, data_count, data>>

Ended == status # "parsing" /\ UNCHANGED vars

Init ==
  /\ status = "parsing"
  /\ current_order_idx = 1
  /\ func_types = EmptyVec
  /\ ents = [k \in Kinds |-> EmptyVec]
  /\ imported_count = [k \in Kinds |-> 0]
  /\ exports = EmptyVec
  /\ start_funcidx = 0
  /\ elements = EmptyVec
  /\ data_count = -1
  /\ data = EmptyVec

Next ==
  \/ EmptySection \/ parse_section_custom \/ parse_section_type
  \/ parse_section_import \/ parse_section_function \/ parse_section_table
  \/ parse_section_memory \/ parse_section_global \/ parse_section_export
  \/ parse_section_start \/ parse_section_element \/ parse_section_data_count
  \/ parse_section_code \/ parse_section_data \/ Accept \/ Reject \/ Ended

Spec == Init /\ [][Next]_vars

----------------------------------------------------------------------------
EntityRecords ==
  [imported : BOOLEAN, exported : BOOLEAN, type : Nat,
   lim : [min : Nat, max : Nat], locals : Nat, declared : Nat, code : BOOLEAN]
ElementRecords ==
  [mode : {"active", "passive", "declarative"}, data_len : Nat,
   v_funcidx : Vecs(Nat), v_expr : Vecs(Nat)]

\* Every vector holds elements of its type and has room for what it holds.
ParserTypeOK ==
  /\ status \in {"parsing", "ok", "err"}
  /\ current_order_idx \in DOMAIN Order
  /\ func_types \in Vecs(Types)
  /\ ents \in [Kinds -> Vecs(EntityRecords)]
  /\ imported_count \in [Kinds -> Nat]
  /\ exports \in Vecs([kind : Kinds, at : Nat])
  /\ start_funcidx \in Nat
  /\ elements \in Vecs(ElementRecords)
  /\ data_count \in Nat \cup {-1}
  /\ data \in Vecs(BOOLEAN)
  /\ HasRoom(func_types) /\ HasRoom(exports) /\ HasRoom(elements) /\ HasRoom(data)
  /\ \A k \in Kinds : HasRoom(ents[k])

\* In every index space the imported entities come first and are counted:
\* linking, module_inst_new and parse_section_code tell imports and definitions
\* apart by comparing an index with the count.  No check says so; it is the
\* order of the sections that keeps it, since vectors have room left over when
\* the definitions have been read.
ImportsFirst ==
  \A k \in Kinds : \A i \in DOMAIN ents[k].data :
    ents[k].data[i].imported <=> i <= imported_count[k]

\* Parameters and declared locals are counted, where a u32 holds their number.
LocalsCounted(f) ==
  LET n == func_types.data[f.type].params + f.declared
  IN  n <= U32_MAX => f.locals = n

\* An accepted module is closed: every index in it names something, a function
\* has a type, its own functions have all a body or none, limits are in order, and
\* exactly the exported entities are marked.  The locals of its own functions are
\* counted, parameters included, where their number fits the u32 that counts them;
\* where it does not, the counter has wrapped around and validate_func's assertion on
\* it fails (validator.c:199).  Apart from that it is what validation, linking and
\* instantiation assume of a module.
ModuleClosed ==
  status = "ok" =>
    LET fs == ents["func"].data
    IN  /\ \A i \in DOMAIN fs :
             /\ fs[i].type \in DOMAIN func_types.data
             /\ ~fs[i].imported => LocalsCounted(fs[i])
        /\ \A i, j \in DOMAIN fs :
             ~fs[i].imported /\ ~fs[j].imported => fs[i].code = fs[j].code
        /\ \A k \in Kinds : \A j \in DOMAIN ents[k].data :
             /\ ents[k].data[j].lim.min <= ents[k].data[j].lim.max
             /\ ents[k].data[j].exported <=>
                  \E i \in DOMAIN exports.data : exports.data[i] = [kind |-> k, at |-> j]
        /\ \A i \in DOMAIN exports.data :
             exports.data[i].at \in DOMAIN ents[exports.data[i].kind].data
        /\ start_funcidx # 0 =>
             /\ start_funcidx \in DOMAIN fs
             /\ func_types.data[fs[start_funcidx].type] = [params |-> 0, results |-> 0]
        /\ \A e \in DOMAIN elements.data :
             \A i \in DOMAIN elements.data[e].v_funcidx.data :
               elements.data[e].v_funcidx.data[i] \in DOMAIN fs

\* Once the data section has been read there are as many segments as the module
\* announces, whether a count came before it or not, and nothing changes that.
DataCounted == data.fixed => data_count = Len(data.data)

\* A fixed vector is never allocated anew, so that pointers into it stay good,
\* and it is never released, through any sequence of repeated sections.
FixedStays ==
  /\ \A k \in Kinds : ents[k].fixed =>
       ents'[k].fixed /\ ents'[k].capacity = ents[k].capacity
  /\ func_types.fixed =>
       func_types'.fixed /\ func_types'.capacity = func_types.capacity
  /\ elements.fixed => elements'.fixed /\ elements'.capacity = elements.capacity

Pinned == [][FixedStays]_vars

\* vm.c asserts of an element what it reads it by ("assert(elem->data_len ==
\* vec_size_u32(&elem->v_funcidx));"): the length that was read last is that of
\* the vector that was filled, through repeated sections that reuse elements.
\* Left aside are elements of which both vectors were read, by a section with
\* indices and a second one with expressions: of those the assertion may fail.
ElementShape ==
  status = "ok" =>
    \A i \in DOMAIN elements.data :
      LET el == elements.data[i]
      IN  ~(el.v_funcidx.fixed /\ el.v_expr.fixed) =>
            el.data_len = Len(el.v_funcidx.data) + Len(el.v_expr.data)
=============================================================================
