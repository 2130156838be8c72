---------------------------- MODULE ParserProofs ----------------------------
(***************************************************************************)
(* The parser, for all types, limits and bounds: imported entities come    *)
(* first in every index space, vectors have room for what they hold, a     *)
(* module that is accepted is closed, and fixed vectors stay where they    *)
(* are.                                                                    *)
(***************************************************************************)
EXTENDS Parser, WellFoundedInduction, NaturalsInduction, TLAPS

ImportOrder == 3

\* The entities of each kind are records, and their number is at least that of
\* the imports.
Shape ==
  /\ current_order_idx \in 1..13
  /\ func_types.data \in Seq(Types)
  /\ ents = [k \in Kinds |-> ents[k]]
  /\ imported_count \in [Kinds -> Nat]
  /\ \A k \in Kinds : ents[k].data \in Seq(EntityRecords)
  /\ \A k \in Kinds : imported_count[k] <= Len(ents[k].data)

\* Whoever has definitions is behind the import section.
DefinitionsBehindImports ==
  \A k \in Kinds :
    imported_count[k] < Len(ents[k].data) => current_order_idx > ImportOrder

PInv == Shape /\ ImportsFirst /\ DefinitionsBehindImports

\* The search for a section moves to its place and never back.
LEMMA Forward ==
  ASSUME current_order_idx \in 1..13, NEW name, Section(name)
  PROVE  /\ current_order_idx' \in 1..13
         /\ current_order_idx' >= current_order_idx
         /\ Order[current_order_idx'] = name
<1> DEFINE S == {i \in DOMAIN Order : i >= current_order_idx /\ Order[i] = name}
<1>1. DOMAIN Order = 1..13  BY DEF Order
<1>2. S # {} /\ current_order_idx' = Min(S)
  BY DEF Section, NextOrder
<1>3. S \subseteq Int  BY <1>1
<1>4. PICK i \in S : i = Min(S)
  <2>1. PICK n \in S : \A m \in S : n <= m
    BY <1>1, <1>2 DEF Order
  <2> QED  BY <2>1, <1>3 DEF Min
<1> QED  BY <1>1, <1>2, <1>4

\* A list of entries is a sequence.
LEMMA ListsAreSequences ==
  ASSUME NEW S, NEW s \in Lists(S)
  PROVE  s \in Seq(S)
<1>1. PICK n \in 0..MaxList : s \in [1..n -> S]
  BY DEF Lists
<1>2. MaxList \in Nat  BY ParserAssumption
<1> QED  BY <1>1, <1>2

\* The record that Entity makes.
LEMMA EntityRecord ==
  ASSUME NEW b \in BOOLEAN, NEW t \in Nat, NEW l \in [min : Nat, max : Nat],
         NEW n \in Nat
  PROVE  Entity(b, t, l, n) \in EntityRecords /\ Entity(b, t, l, n).imported = b
BY DEF Entity, EntityRecords

\* What the bytes describe is an entity record, imported or not as asked.
LEMMA DescribedRecords ==
  ASSUME func_types.data \in Seq(Types), NEW k \in Kinds, NEW b \in BOOLEAN,
         NEW e \in Described(k, b)
  PROVE  e \in EntityRecords /\ e.imported = b
<1>1. CASE k = "func"
  <2> DEFINE n(t) == IF b THEN 0 ELSE func_types.data[t].params
  <2>1. PICK t \in DOMAIN func_types.data : e = Entity(b, t, NoLim, n(t))
    BY <1>1 DEF Described
  <2>2. t \in Nat /\ n(t) \in Nat
    <3>1. t \in Nat /\ func_types.data[t] \in Types  OBVIOUS
    <3>2. func_types.data[t].params \in Nat  BY <3>1, ParserAssumption
    <3> QED  BY <3>1, <3>2
  <2>3. NoLim \in [min : Nat, max : Nat]  BY DEF NoLim
  <2> HIDE DEF n
  <2> QED  BY <2>1, <2>2, <2>3, EntityRecord, Zenon
<1>2. CASE k = "global"
  <2>1. e = Entity(b, 0, NoLim, 0)  BY <1>2 DEF Described
  <2>2. NoLim \in [min : Nat, max : Nat]  BY DEF NoLim
  <2>3. 0 \in Nat  OBVIOUS
  <2>4. Entity(b, 0, NoLim, 0) \in EntityRecords /\ Entity(b, 0, NoLim, 0).imported = b
    BY <2>2, <2>3, EntityRecord, ZenonT(30)
  <2> QED  BY <2>1, <2>4, Zenon
<1>3. CASE k \notin {"func", "global"}
  <2>1. PICK l \in Limits : e = Entity(b, 0, parse_limits(l, Cap(k)), 0)
    BY <1>3 DEF Described
  <2>2. Cap(k) \in Nat  BY ParserAssumption DEF Cap
  <2>3. l.min \in Nat /\ l.max \in Nat  BY ParserAssumption
  <2>4. parse_limits(l, Cap(k)) \in [min : Nat, max : Nat]
    BY <2>2, <2>3 DEF parse_limits
  <2> QED  BY <2>1, <2>4, EntityRecord
<1> QED  BY <1>1, <1>2, <1>3

\* A kind that gets more entities keeps its shape when they are all imports and
\* there were no definitions, or all definitions.
LEMMA PushKeepsImportsFirst ==
  ASSUME Shape, ImportsFirst, NEW kind \in Kinds, NEW b \in BOOLEAN, NEW v,
         NEW s \in Lists(Described(kind, b)),
         v.data = ents[kind].data,
         ents' = [ents EXCEPT ![kind] = vec_push_all(v, s)],
         imported_count' =
           [imported_count EXCEPT ![kind] = IF b THEN @ + Len(s) ELSE @],
         b => imported_count[kind] = Len(ents[kind].data),
         current_order_idx' \in 1..13, func_types' = func_types
  PROVE  Shape' /\ ImportsFirst'
<1> DEFINE w == vec_push_all(v, s)
<1>1. s \in Seq(EntityRecords) /\ \A i \in 1..Len(s) : s[i].imported = b
  <2>1. s \in Seq(Described(kind, b))  BY ListsAreSequences
  <2>2. \A e \in Described(kind, b) : e \in EntityRecords /\ e.imported = b
    BY DescribedRecords DEF Shape
  <2> QED  BY <2>1, <2>2
<1>2. v.data \in Seq(EntityRecords)  BY DEF Shape
<1>3. /\ w.data \in Seq(EntityRecords)
      /\ Len(w.data) = Len(v.data) + Len(s)
      /\ \A i \in 1..Len(v.data) : w.data[i] = v.data[i]
      /\ \A i \in 1..Len(s) : w.data[Len(v.data) + i] = s[i]
  <2>1. w.data = v.data \o s  BY DEF vec_push_all, Vector
  <2> HIDE DEF w
  <2>2. w.data \in Seq(EntityRecords) /\ Len(w.data) = Len(v.data) + Len(s)
    BY <2>1, <1>1, <1>2
  <2>3. \A i \in 1..Len(v.data) : w.data[i] = v.data[i]  BY <2>1, <1>1, <1>2
  <2>4. \A i \in 1..Len(s) : w.data[Len(v.data) + i] = s[i]
    <3> TAKE i \in 1..Len(s)
    <3> QED  BY <2>1, <1>1, <1>2
  <2> QED  BY <2>2, <2>3, <2>4
<1> HIDE DEF w
<1>4. /\ ents' = [k \in Kinds |-> IF k = kind THEN w ELSE ents[k]]
      /\ \A k \in Kinds \ {kind} : ents'[k] = ents[k]
      /\ ents'[kind] = w
  BY DEF Shape, w
<1>5. /\ imported_count' \in [Kinds -> Nat]
      /\ \A k \in Kinds \ {kind} : imported_count'[k] = imported_count[k]
      /\ imported_count'[kind] =
           IF b THEN imported_count[kind] + Len(s) ELSE imported_count[kind]
  BY <1>1 DEF Shape
<1>6. Shape'
  <2>1. ents' = [k \in Kinds |-> ents'[k]]  BY <1>4
  <2>2. ASSUME NEW k \in Kinds
        PROVE  ents'[k].data \in Seq(EntityRecords)
               /\ imported_count'[k] <= Len(ents'[k].data)
    <3>1. CASE k = kind  BY <3>1, <1>1, <1>2, <1>3, <1>4, <1>5 DEF Shape
    <3>2. CASE k # kind  BY <3>2, <1>4, <1>5 DEF Shape
    <3> QED  BY <3>1, <3>2
  <2> QED  BY <2>1, <2>2, <1>5 DEF Shape
<1>7. ASSUME NEW k \in Kinds, NEW i \in DOMAIN ents'[k].data
      PROVE  ents'[k].data[i].imported <=> i <= imported_count'[k]
  <2>1. CASE k # kind  BY <2>1, <1>4, <1>5 DEF ImportsFirst
  <2>2. CASE k = kind /\ i <= Len(v.data)
    <3>1. i \in DOMAIN ents[kind].data /\ w.data[i] = ents[kind].data[i]
      BY <2>2, <1>2, <1>3, <1>4
    <3>2. w.data[i].imported <=> i <= imported_count[kind]
      BY <3>1 DEF ImportsFirst
    <3>3. i <= imported_count[kind] <=> i <= imported_count'[kind]
      BY <2>2, <1>1, <1>2, <1>3, <1>4, <1>5 DEF Shape
    <3> QED  BY <3>2, <3>3, <2>2, <1>4
  <2>3. CASE k = kind /\ ~(i <= Len(v.data))
    <3>1. PICK j \in 1..Len(s) : i = Len(v.data) + j
      <4>1. i \in 1..(Len(v.data) + Len(s))  BY <2>3, <1>3, <1>4
      <4>2. i - Len(v.data) \in 1..Len(s)  BY <4>1, <2>3, <1>1, <1>2
      <4> QED  BY <4>1, <4>2, <1>2
    <3>2. w.data[i].imported = b  BY <3>1, <1>1, <1>3
    <3>3. b <=> i <= imported_count'[kind]
      BY <3>1, <1>1, <1>2, <1>5 DEF Shape
    <3> QED  BY <3>2, <3>3, <2>3, <1>4
  <2> QED  BY <2>1, <2>2, <2>3
<1> QED  BY <1>6, <1>7 DEF ImportsFirst

\* Nothing is lost when the entities keep their number and their marks.
LEMMA MarksKept ==
  ASSUME PInv, current_order_idx' \in 1..13, current_order_idx' >= current_order_idx,
         func_types'.data \in Seq(Types),
         imported_count' = imported_count,
         ents' = [k \in Kinds |-> ents'[k]],
         \A k \in Kinds :
           /\ ents'[k].data \in Seq(EntityRecords)
           /\ Len(ents'[k].data) = Len(ents[k].data)
           /\ \A i \in DOMAIN ents[k].data :
                ents'[k].data[i].imported = ents[k].data[i].imported
  PROVE  PInv'
<1>1. Shape'  BY DEF PInv, Shape
<1>2. DefinitionsBehindImports'
  <2>1. ASSUME NEW k \in Kinds, imported_count'[k] < Len(ents'[k].data)
        PROVE  current_order_idx' > 3
    <3>1. imported_count[k] < Len(ents[k].data)  BY <2>1
    <3>2. current_order_idx > 3 /\ current_order_idx \in 1..13
      BY <3>1 DEF PInv, Shape, DefinitionsBehindImports, ImportOrder
    <3> QED  BY <3>2
  <2> QED  BY <2>1 DEF DefinitionsBehindImports, ImportOrder
<1>3. ASSUME NEW k \in Kinds, NEW i \in DOMAIN ents'[k].data
      PROVE  ents'[k].data[i].imported <=> i <= imported_count'[k]
  <2>1. i \in DOMAIN ents[k].data  BY DEF PInv, Shape
  <2> QED  BY <2>1 DEF PInv, ImportsFirst
<1> QED  BY <1>1, <1>2, <1>3 DEF PInv, ImportsFirst

\* Sections that leave the entities alone.
LEMMA EntitiesKept ==
  ASSUME PInv, NEW name, Section(name), func_types'.data \in Seq(Types),
         UNCHANGED <<ents, imported_count>>
  PROVE  PInv'
<1>1. current_order_idx' \in 1..13 /\ current_order_idx' >= current_order_idx
  BY Forward DEF PInv, Shape
<1>2. ents' = [k \in Kinds |-> ents'[k]] /\ \A k \in Kinds :
           /\ ents'[k].data \in Seq(EntityRecords)
           /\ Len(ents'[k].data) = Len(ents[k].data)
           /\ \A i \in DOMAIN ents[k].data :
                ents'[k].data[i].imported = ents[k].data[i].imported
  BY DEF PInv, Shape
<1> QED  BY <1>1, <1>2, MarksKept

\* The type section describes no entity.
LEMMA TypeStep == PInv /\ parse_section_type => PInv'
<1> SUFFICES ASSUME PInv, parse_section_type PROVE PInv'
  OBVIOUS
<1>1. PICK s \in Lists(Types) :
        func_types' = vec_push_all(ReserveFixed(func_types, Len(s)), s)
  BY DEF parse_section_type
<1>2. func_types'.data = func_types.data \o s
  BY <1>1 DEF vec_push_all, ReserveFixed, Vector
<1>3. func_types'.data \in Seq(Types)
  <2>1. s \in Seq(Types)  BY ListsAreSequences
  <2> QED  BY <2>1, <1>2 DEF PInv, Shape
<1> QED  BY <1>3, EntitiesKept DEF parse_section_type

\* The import section comes before every definition.
LEMMA ImportStep == PInv /\ parse_section_import => PInv'
<1> SUFFICES ASSUME PInv, parse_section_import PROVE PInv'
  OBVIOUS
<1>1. /\ current_order_idx' \in 1..13
      /\ current_order_idx' >= current_order_idx
      /\ Order[current_order_idx'] = "import"
  BY Forward DEF PInv, Shape, parse_section_import
<1>2. current_order_idx <= ImportOrder
  BY <1>1 DEF Order, ImportOrder, PInv, Shape
<1>0. PICK kind \in Kinds : \E s \in Lists(Described(kind, TRUE)) :
        /\ ents' = [ents EXCEPT ![kind] = vec_push_all(@, s)]
        /\ imported_count' = [imported_count EXCEPT ![kind] = @ + Len(s)]
  BY DEF parse_section_import
<1>3. PICK s \in Lists(Described(kind, TRUE)) :
        /\ ents' = [ents EXCEPT ![kind] = vec_push_all(@, s)]
        /\ imported_count' = [imported_count EXCEPT ![kind] = @ + Len(s)]
  BY <1>0
<1>4. \A k \in Kinds : imported_count[k] = Len(ents[k].data)
  BY <1>2 DEF PInv, Shape, DefinitionsBehindImports, ImportOrder
<1>5. ents' = [ents EXCEPT ![kind] = vec_push_all(ents[kind], s)]
  BY <1>3 DEF PInv, Shape
<1>6. imported_count' =
        [imported_count EXCEPT ![kind] = IF TRUE THEN @ + Len(s) ELSE @]
  BY <1>3
<1>7. func_types' = func_types  BY DEF parse_section_import
<1>8. Shape' /\ ImportsFirst'
  BY <1>1, <1>4, <1>5, <1>6, <1>7, PushKeepsImportsFirst DEF PInv
<1>9. DefinitionsBehindImports'
  <2>1. s \in Seq(Described(kind, TRUE))  BY ListsAreSequences
  <2>2. vec_push_all(ents[kind], s).data = ents[kind].data \o s
    BY DEF vec_push_all, Vector
  <2>3. ASSUME NEW k \in Kinds
        PROVE  ~(imported_count'[k] < Len(ents'[k].data))
    <3>1. CASE k = kind
      <4>1. ents'[k].data = ents[k].data \o s  BY <3>1, <1>5, <2>2 DEF PInv, Shape
      <4>2. imported_count'[k] = imported_count[k] + Len(s)
        BY <3>1, <1>3 DEF PInv, Shape
      <4> QED  BY <4>1, <4>2, <3>1, <1>4, <2>1 DEF PInv, Shape
    <3>2. CASE k # kind
      <4>1. ents'[k] = ents[k]  BY <3>2, <1>5 DEF PInv, Shape
      <4>2. imported_count'[k] = imported_count[k]  BY <3>2, <1>3 DEF PInv, Shape
      <4> QED  BY <4>1, <4>2, <1>4 DEF PInv, Shape
    <3> QED  BY <3>1, <3>2
  <2> QED  BY <2>3 DEF DefinitionsBehindImports
<1> QED  BY <1>8, <1>9 DEF PInv

\* The four sections of definitions.
LEMMA DefineStep ==
  ASSUME PInv, NEW kind \in Kinds,
         NEW name \in {"function", "table", "memory", "global"}, Define(name, kind)
  PROVE  PInv'
<1>1. /\ current_order_idx' \in 1..13
      /\ current_order_idx' >= current_order_idx
      /\ Order[current_order_idx'] = name
  BY Forward DEF PInv, Shape, Define
<1>2. current_order_idx' > ImportOrder
  BY <1>1 DEF Order, ImportOrder
<1>3. PICK s \in Lists(Described(kind, FALSE)) :
        ents' = [ents EXCEPT ![kind] =
                   vec_push_all(ReserveFixed(@, Len(s) + Len(@.data)), s)]
  BY DEF Define
<1> DEFINE v == ReserveFixed(ents[kind], Len(s) + Len(ents[kind].data))
<1>4. v.data = ents[kind].data  BY DEF ReserveFixed, Vector
<1>5. ents' = [ents EXCEPT ![kind] = vec_push_all(v, s)]
  BY <1>3 DEF PInv, Shape
<1>6. imported_count' =
        [imported_count EXCEPT ![kind] = IF FALSE THEN @ + Len(s) ELSE @]
  BY DEF Define, PInv, Shape
<1>7. func_types' = func_types  BY DEF Define
<1> HIDE DEF v
<1>8. Shape' /\ ImportsFirst'
  BY <1>1, <1>4, <1>5, <1>6, <1>7, PushKeepsImportsFirst DEF PInv
<1> QED  BY <1>2, <1>8 DEF PInv, DefinitionsBehindImports

\* Changing a mark, or code and locals, leaves an entity record.
LEMMA Exported ==
  ASSUME NEW e \in EntityRecords, NEW b \in BOOLEAN
  PROVE  /\ [e EXCEPT !.exported = b] \in EntityRecords
         /\ [e EXCEPT !.exported = b].imported = e.imported
<1>1. [e EXCEPT !.exported = b].imported = e.imported  BY Zenon DEF EntityRecords
<1>2. [e EXCEPT !.exported = b] \in EntityRecords  BY Zenon DEF EntityRecords
<1> QED  BY <1>1, <1>2

\* A body changes neither the kind of a function nor where it comes from.
LEMMA Given ==
  ASSUME NEW e \in EntityRecords, NEW n \in Nat
  PROVE  /\ WithBody(e, n) \in EntityRecords
         /\ WithBody(e, n).imported = e.imported
         /\ WithBody(e, n).type = e.type /\ WithBody(e, n).lim = e.lim
         /\ WithBody(e, n).exported = e.exported
         /\ WithBody(e, n).code = TRUE /\ WithBody(e, n).declared = n
         /\ WithBody(e, n).locals = (e.locals + n) % (U32_MAX + 1)
<1> DEFINE m == (e.locals + n) % (U32_MAX + 1)
           y == [e EXCEPT !.code = TRUE, !.declared = n, !.locals = m]
<1>1. WithBody(e, n) = y  BY Zenon DEF WithBody
<1>2. m \in Nat  BY ParserAssumption DEF EntityRecords
<1> HIDE DEF m
<1>3. y \in EntityRecords  BY <1>2, Zenon DEF EntityRecords
<1>4. y.imported = e.imported /\ y.type = e.type /\ y.lim = e.lim
      /\ y.exported = e.exported /\ y.code = TRUE /\ y.declared = n /\ y.locals = m
  BY Zenon DEF EntityRecords
<1> QED  BY <1>1, <1>3, <1>4 DEF m

\* Exports mark entities, and nothing else about them changes.
LEMMA ExportStep == PInv /\ parse_section_export => PInv'
<1> SUFFICES ASSUME PInv, parse_section_export PROVE PInv'
  OBVIOUS
<1>1. current_order_idx' \in 1..13 /\ current_order_idx' >= current_order_idx
  BY Forward DEF PInv, Shape, parse_section_export
<1>2. PICK s \in Lists([kind : Kinds, at : Named]) :
        ents' = [k \in Kinds |-> WithData(ents[k],
            [j \in DOMAIN ents[k].data |-> [ents[k].data[j] EXCEPT !.exported =
               @ \/ \E i \in DOMAIN s : s[i] = [kind |-> k, at |-> j]]])]
  BY DEF parse_section_export
<1>3. UNCHANGED <<imported_count, func_types>>  BY DEF parse_section_export
<1>4. ASSUME NEW k \in Kinds
      PROVE  /\ ents'[k].data \in Seq(EntityRecords)
             /\ Len(ents'[k].data) = Len(ents[k].data)
             /\ \A i \in DOMAIN ents[k].data :
                  ents'[k].data[i].imported = ents[k].data[i].imported
  <2> DEFINE d == ents[k].data
             x(j) == d[j].exported \/ \E i \in DOMAIN s : s[i] = [kind |-> k, at |-> j]
             d2 == [j \in DOMAIN d |-> [d[j] EXCEPT !.exported = x(j)]]
  <2>1. ents'[k].data = d2  BY <1>2 DEF WithData, Vector
  <2>2. d \in Seq(EntityRecords)  BY DEF PInv, Shape
  <2>3. \A j \in DOMAIN d : x(j) \in BOOLEAN  OBVIOUS
  <2> HIDE DEF d, x
  <2>4. ASSUME NEW j \in DOMAIN d
        PROVE  d2[j] \in EntityRecords /\ d2[j].imported = d[j].imported
    <3>1. d[j] \in EntityRecords /\ x(j) \in BOOLEAN  BY <2>2, <2>3
    <3>2. d2[j] = [d[j] EXCEPT !.exported = x(j)]  BY Zenon
    <3> HIDE DEF d2
    <3> QED  BY <3>1, <3>2, Exported, Zenon
  <2>5. d2 \in Seq(EntityRecords) /\ Len(d2) = Len(d)
    <3>1. DOMAIN d = 1..Len(d) /\ Len(d) \in Nat  BY <2>2
    <3>2. DOMAIN d2 = 1..Len(d) /\ \A j \in 1..Len(d) : d2[j] \in EntityRecords
      BY <3>1, <2>4
    <3>3. d2 \in [1..Len(d) -> EntityRecords]
      <4>1. d2 = [j \in 1..Len(d) |-> d2[j]]  BY <3>1
      <4> HIDE DEF d2
      <4> QED  BY <4>1, <3>2
    <3> HIDE DEF d2
    <3> QED  BY <3>1, <3>3
  <2> QED  BY <2>1, <2>4, <2>5 DEF d
<1>5. ents' = [k \in Kinds |-> ents'[k]]  BY <1>2
<1>6. func_types'.data \in Seq(Types)  BY <1>3 DEF PInv, Shape
<1> QED  BY <1>1, <1>3, <1>4, <1>5, <1>6, MarksKept

\* Bodies give the functions code and locals.
LEMMA CodeStep == PInv /\ parse_section_code => PInv'
<1> SUFFICES ASSUME PInv, parse_section_code PROVE PInv'
  OBVIOUS
<1> DEFINE fs == ents["func"].data
           own == (imported_count["func"] + 1)..Len(fs)
<1>1. current_order_idx' \in 1..13 /\ current_order_idx' >= current_order_idx
  BY Forward DEF PInv, Shape, parse_section_code
<1>2. PICK declared \in [own -> 0..U32_MAX] :
        ents' = [ents EXCEPT !["func"] = WithData(@,
          [i \in DOMAIN fs |->
             IF i \in own THEN WithBody(fs[i], declared[i]) ELSE fs[i]])]
  BY DEF parse_section_code
<1>3. UNCHANGED <<imported_count, func_types>>  BY DEF parse_section_code
<1> DEFINE d2 == [i \in DOMAIN fs |->
             IF i \in own THEN WithBody(fs[i], declared[i]) ELSE fs[i]]
<1>4. "func" \in Kinds  BY DEF Kinds
<1>5. ents'["func"].data = d2 /\ \A k \in Kinds \ {"func"} : ents'[k] = ents[k]
  BY <1>2, <1>4 DEF WithData, Vector, PInv, Shape
<1>6. fs \in Seq(EntityRecords)  BY <1>4 DEF PInv, Shape
<1>7. \A i \in own : declared[i] \in 0..U32_MAX /\ declared[i] \in Nat
  BY ParserAssumption
<1> HIDE DEF own, fs
<1>8. ASSUME NEW j \in DOMAIN fs
      PROVE  d2[j] \in EntityRecords /\ d2[j].imported = fs[j].imported
  <2>1. fs[j] \in EntityRecords  BY <1>6
  <2>2. CASE j \in own
    <3>1. declared[j] \in Nat  BY <2>2, <1>7
    <3>2. d2[j] = WithBody(fs[j], declared[j])  BY <2>2, Zenon
    <3> HIDE DEF d2
    <3>3. /\ WithBody(fs[j], declared[j]) \in EntityRecords
          /\ WithBody(fs[j], declared[j]).imported = fs[j].imported
      BY <3>1, <2>1, Given, ZenonT(30)
    <3> QED  BY <3>2, <3>3, Zenon
  <2>3. CASE j \notin own
    <3>1. d2[j] = fs[j]  BY <2>3, Zenon
    <3> QED  BY <3>1, <2>1, Zenon
  <2> QED  BY <2>2, <2>3
<1>9. d2 \in Seq(EntityRecords) /\ Len(d2) = Len(fs)
  <2>1. DOMAIN fs = 1..Len(fs) /\ Len(fs) \in Nat  BY <1>6
  <2>2. d2 = [j \in 1..Len(fs) |-> d2[j]] /\ \A j \in 1..Len(fs) : d2[j] \in EntityRecords
    BY <2>1, <1>8
  <2> HIDE DEF d2
  <2>3. d2 \in [1..Len(fs) -> EntityRecords]  BY <2>2
  <2> QED  BY <2>1, <2>3
<1> HIDE DEF d2
<1>10. ASSUME NEW k \in Kinds
       PROVE  /\ ents'[k].data \in Seq(EntityRecords)
              /\ Len(ents'[k].data) = Len(ents[k].data)
              /\ \A i \in DOMAIN ents[k].data :
                   ents'[k].data[i].imported = ents[k].data[i].imported
  <2>1. CASE k = "func"  BY <2>1, <1>5, <1>8, <1>9 DEF fs
  <2>2. CASE k # "func"  BY <2>2, <1>5 DEF PInv, Shape
  <2> QED  BY <2>1, <2>2
<1>11. ents' = [k \in Kinds |-> ents'[k]]  BY <1>2 DEF PInv, Shape
<1>12. func_types'.data \in Seq(Types)  BY <1>3 DEF PInv, Shape
<1> QED  BY <1>1, <1>3, <1>10, <1>11, <1>12, MarksKept

\* Every step of the parser.
LEMMA StepKeeps == PInv /\ [Next]_vars => PInv'
<1> SUFFICES ASSUME PInv, [Next]_vars PROVE PInv'
  OBVIOUS
<1> USE DEF vars
<1>0. ASSUME UNCHANGED <<ents, imported_count, func_types, current_order_idx>>
      PROVE  PInv'
  BY <1>0 DEF PInv, Shape, ImportsFirst, DefinitionsBehindImports
<1>k. ASSUME NEW name, Section(name), UNCHANGED <<ents, imported_count, func_types>>
      PROVE  PInv'
  <2>1. func_types'.data \in Seq(Types)  BY <1>k DEF PInv, Shape
  <2> QED  BY <1>k, <2>1, EntitiesKept
<1>1. CASE EmptySection  BY <1>1, <1>k DEF EmptySection
<1>2. CASE parse_section_custom \/ Ended  BY <1>2, <1>0 DEF parse_section_custom, Ended
<1>3. CASE parse_section_type  BY <1>3, TypeStep
<1>4. CASE parse_section_import  BY <1>4, ImportStep
<1>5. CASE parse_section_function \/ parse_section_table \/ parse_section_memory
           \/ parse_section_global
  BY <1>5, DefineStep
     DEF parse_section_function, parse_section_table, parse_section_memory,
         parse_section_global, Kinds
<1>6. CASE parse_section_export  BY <1>6, ExportStep
<1>7. CASE parse_section_start  BY <1>7, <1>k DEF parse_section_start
<1>8. CASE parse_section_element  BY <1>8, <1>k DEF parse_section_element
<1>9. CASE parse_section_data_count  BY <1>9, <1>k DEF parse_section_data_count
<1>10. CASE parse_section_code  BY <1>10, CodeStep
<1>11. CASE parse_section_data  BY <1>11, <1>k DEF parse_section_data
<1>12. CASE Accept \/ Reject  BY <1>12, <1>0 DEF Accept, Reject
<1>13. CASE UNCHANGED vars  BY <1>13, <1>0
<1> QED  BY <1>1, <1>2, <1>3, <1>4, <1>5, <1>6, <1>7, <1>8, <1>9, <1>10, <1>11,
            <1>12, <1>13 DEF Next

\* At first there are neither imports nor definitions.
LEMMA InitPInv == Init => PInv
<1> SUFFICES ASSUME Init PROVE PInv
  OBVIOUS
<1>1. \A k \in Kinds : ents[k].data = << >> /\ imported_count[k] = 0
  BY DEF Init, EmptyVec, Vector
<1>2. Shape
  <2>1. ents = [k \in Kinds |-> ents[k]]  BY DEF Init
  <2>2. imported_count \in [Kinds -> Nat]  BY DEF Init
  <2>3. func_types.data = << >>  BY DEF Init, EmptyVec, Vector
  <2>4. current_order_idx = 1  BY DEF Init
  <2>5. << >> \in Seq(Types) /\ << >> \in Seq(EntityRecords) /\ Len(<< >>) = 0
    OBVIOUS
  <2>6. current_order_idx \in 1..13  BY <2>4
  <2>7. \A k \in Kinds : ents[k].data \in Seq(EntityRecords)
                           /\ imported_count[k] <= Len(ents[k].data)
    <3> TAKE k \in Kinds
    <3>1. ents[k].data \in Seq(EntityRecords) /\ Len(ents[k].data) = 0
      BY <1>1, <2>5, Zenon
    <3> QED  BY <3>1, <1>1
  <2> QED  BY <2>1, <2>2, <2>3, <2>5, <2>6, <2>7, Zenon DEF Shape
<1>3. ImportsFirst  BY <1>1 DEF ImportsFirst
<1>4. DefinitionsBehindImports  BY <1>1 DEF DefinitionsBehindImports
<1> QED  BY <1>2, <1>3, <1>4 DEF PInv

\* In every module that the parser accepts, rejects or is in the middle of, the
\* imports of each kind are exactly the first entities, as many as the parser
\* counted: linking and parse_section_code tell imports apart by that count.
THEOREM ImportsComeFirst == Spec => []ImportsFirst
<1>1. Init => PInv  BY InitPInv
<1>2. PInv => ImportsFirst  BY DEF PInv
<1> QED  BY <1>1, <1>2, StepKeeps, PTL DEF Spec

----------------------------------------------------------------------------
(***************************************************************************)
(* The invariant of the whole module record.                               *)
(***************************************************************************)
\* A vector of elements of S with room for them, as every operation on vectors
\* expects it, and a vector that is empty until a section fixes it.
VecOk(v, S) == v \in Vecs(S) /\ HasRoom(v)
Fresh(v) == ~v.fixed => v.data = << >>

\* Types, exports, segments and what an element lists come from the one section
\* that fixes their vector.
FilledOnce ==
  /\ Fresh(func_types) /\ Fresh(exports) /\ Fresh(data)
  /\ \A i \in DOMAIN elements.data :
       Fresh(elements.data[i].v_funcidx) /\ Fresh(elements.data[i].v_expr)

\* Only the section that fixes its vector defines entities of a kind.
OwnersFixed ==
  \A k \in Kinds : imported_count[k] < Len(ents[k].data) => ents[k].fixed

\* Segments have been read only by the last section of the order.
DataLast == data.fixed => current_order_idx = 13

\* ElementShape of every module, accepted or not.
Shaped ==
  \A i \in DOMAIN elements.data :
    LET el == elements.data[i]
    IN  ~(el.v_funcidx.fixed /\ el.v_expr.fixed) =>
          el.data_len = Len(el.v_funcidx.data) + Len(el.v_expr.data)

(***************************************************************************)
(* The parts of ModuleClosed, of every module, accepted or not.            *)
(***************************************************************************)
\* A function has a type, and its locals are counted; before it has a body they
\* are its parameters.
Typed ==
  \A i \in DOMAIN ents["func"].data :
    LET f == ents["func"].data[i]
    IN  /\ f.type \in DOMAIN func_types.data
        /\ ~f.imported => LocalsCounted(f)
        /\ ~f.imported /\ ~f.code => f.locals = func_types.data[f.type].params

\* The functions of the module itself have all a body or none.
OneBody ==
  \A i, j \in DOMAIN ents["func"].data :
    ~ents["func"].data[i].imported /\ ~ents["func"].data[j].imported
      => ents["func"].data[i].code = ents["func"].data[j].code

Limited ==
  \A k \in Kinds : \A j \in DOMAIN ents[k].data :
    ents[k].data[j].lim.min <= ents[k].data[j].lim.max

\* Exactly the exported entities are marked, and an export names an entity.
Marked ==
  \A k \in Kinds : \A j \in DOMAIN ents[k].data :
    ents[k].data[j].exported <=>
      \E i \in DOMAIN exports.data : exports.data[i] = [kind |-> k, at |-> j]

ExportsName ==
  \A i \in DOMAIN exports.data :
    exports.data[i].at \in DOMAIN ents[exports.data[i].kind].data

Startable ==
  start_funcidx # 0 =>
    /\ start_funcidx \in DOMAIN ents["func"].data
    /\ func_types.data[ents["func"].data[start_funcidx].type]
         = [params |-> 0, results |-> 0]

ItemsName ==
  \A e \in DOMAIN elements.data : \A i \in DOMAIN elements.data[e].v_funcidx.data :
    elements.data[e].v_funcidx.data[i] \in DOMAIN ents["func"].data

Closed ==
  Typed /\ OneBody /\ Limited /\ Marked /\ ExportsName /\ Startable /\ ItemsName

ExportRecords == [kind : Kinds, at : Nat]

\* ParserTypeOK, by vectors.
TypeParts ==
  /\ status \in {"parsing", "ok", "err"} /\ current_order_idx \in 1..13
  /\ imported_count \in [Kinds -> Nat]
  /\ start_funcidx \in Nat /\ data_count \in Nat \cup {-1}
  /\ VecOk(func_types, Types) /\ VecOk(exports, ExportRecords)
  /\ VecOk(elements, ElementRecords) /\ VecOk(data, BOOLEAN)
  /\ ents = [k \in Kinds |-> ents[k]]
  /\ \A k \in Kinds : VecOk(ents[k], EntityRecords)

Filled ==
  TypeParts /\ FilledOnce /\ OwnersFixed /\ DataLast /\ DataCounted /\ Shaped /\ Closed

ModuleInv == PInv /\ Filled

----------------------------------------------------------------------------
(***************************************************************************)
(* Vectors.  What vec_push_all makes of the capacity is a recursive        *)
(* function of the number of elements; facts about it are proved by taking *)
(* the least number for which they would fail.                             *)
(***************************************************************************)
\* A set of numbers has a least one.
LEMMA LeastNumber ==
  ASSUME NEW S \in SUBSET Nat, S # {}
  PROVE  \E x \in S : \A y \in S : x <= y
<1>1. PICK R : R = {ss \in Nat \X Nat : ss[1] < ss[2]}
  OBVIOUS
<1>2. IsWellFoundedOn(R, Nat)
  BY <1>1, NatLessThanWellFounded DEF OpToRel
<1>3. PICK x \in S : \A y \in S : ~(<<y, x>> \in R)
  BY <1>2, WFMin
<1>4. \A y \in S : x <= y
  <2> SUFFICES ASSUME NEW y \in S, y < x PROVE FALSE
    OBVIOUS
  <2>1. <<y, x>> \in Nat \X Nat /\ <<y, x>>[1] < <<y, x>>[2]
    OBVIOUS
  <2>2. <<y, x>> \in R
    BY <1>1, <2>1
  <2> QED BY <1>3, <2>2
<1> QED BY <1>4

\* What f has to be to be the capacities of Growth.
IsGrowth(f, c, m, n) ==
  f = [i \in 0..n |-> IF i = 0 THEN c ELSE Grown(f[i - 1], m + i - 1)]

\* The capacities while n elements are pushed exist for every n.
LEMMA GrowthExists ==
  ASSUME NEW c, NEW m, NEW n \in Nat
  PROVE  \E f : IsGrowth(f, c, m, n)
<1> DEFINE Is(f, k) ==
      f = [i \in 0..k |-> IF i = 0 THEN c ELSE Grown(f[i - 1], m + i - 1)]
<1>1. SUFFICES ASSUME ~\E f : Is(f, n) PROVE FALSE
  BY DEF IsGrowth
<1> DEFINE Bad == {k \in Nat : ~\E f : Is(f, k)}
<1>2. PICK x \in Bad : \A y \in Bad : x <= y
  <2>1. n \in Bad /\ Bad \in SUBSET Nat  BY <1>1
  <2> HIDE DEF Bad
  <2> QED  BY <2>1, LeastNumber
<1>3. CASE x = 0
  <2> DEFINE f == [i \in 0..0 |-> c]
  <2>1. Is(f, 0)  OBVIOUS
  <2> QED  BY <2>1, <1>3, <1>2
<1>4. CASE x # 0
  <2>1. x - 1 \in Nat /\ ~(x - 1 \in Bad)
    <3>1. x \in Nat /\ ~(x <= x - 1)  OBVIOUS
    <3> HIDE DEF Bad
    <3> QED  BY <3>1, <1>2, <1>4
  <2>2. PICK f : Is(f, x - 1)  BY <2>1
  <2> DEFINE g == [i \in 0..x |-> IF i = x THEN Grown(f[x - 1], m + x - 1) ELSE f[i]]
  <2>3. \A i \in 0..(x - 1) : g[i] = f[i]  BY <1>4
  <2>4. ASSUME NEW i \in 0..x
        PROVE  g[i] = IF i = 0 THEN c ELSE Grown(g[i - 1], m + i - 1)
    <3>1. CASE i = x  BY <3>1, <2>3, <1>4
    <3>2. CASE i # x
      <4>1. i \in 0..(x - 1) /\ (i # 0 => i - 1 \in 0..(x - 1))  BY <3>2
      <4>2. f[i] = IF i = 0 THEN c ELSE Grown(f[i - 1], m + i - 1)  BY <4>1, <2>2
      <4> HIDE DEF g
      <4> QED  BY <4>1, <4>2, <2>3
    <3> QED  BY <3>1, <3>2
  <2>5. g = [i \in 0..x |-> g[i]]  OBVIOUS
  <2> HIDE DEF g
  <2>6. Is(g, x)  BY <2>4, <2>5
  <2> QED  BY <2>6, <1>2
<1> QED  BY <1>3, <1>4

\* Growth takes one push after the other.
LEMMA GrowthSteps ==
  ASSUME NEW c, NEW m, NEW n \in Nat
  PROVE  /\ Growth(c, m, n)[0] = c
         /\ \A i \in 1..n :
              Growth(c, m, n)[i] = Grown(Growth(c, m, n)[i - 1], m + i - 1)
<1>1. Growth(c, m, n) = CHOOSE f : IsGrowth(f, c, m, n)  BY DEF Growth, IsGrowth
<1>2. \E f : IsGrowth(f, c, m, n)  BY GrowthExists
<1>3. IsGrowth(Growth(c, m, n), c, m, n)  BY <1>1, <1>2, Zenon
<1> QED  BY <1>3 DEF IsGrowth

\* One push: a vector with room keeps its capacity, a full one gets more room.
LEMMA GrownRoom ==
  ASSUME NEW c \in Nat, NEW m \in Nat, m <= c
  PROVE  /\ Grown(c, m) \in Nat
         /\ m + 1 <= Grown(c, m)
         /\ m < c => Grown(c, m) = c
<1>1. VEC_DEFAULT_CAPACITY \in Nat /\ VEC_DEFAULT_CAPACITY >= 1
  BY CapacityAssumption
<1>2. (c * 3) \div 2 \in Nat /\ (c * 3) \div 2 >= c  OBVIOUS
<1> QED  BY <1>1, <1>2 DEF Grown

\* Pushing keeps room for the elements, and leaves a capacity alone that was
\* enough for all of them.
LEMMA GrowthRoom ==
  ASSUME NEW c \in Nat, NEW m \in Nat, NEW n \in Nat, m <= c
  PROVE  /\ Growth(c, m, n)[n] \in Nat
         /\ m + n <= Growth(c, m, n)[n]
         /\ m + n <= c => Growth(c, m, n)[n] = c
<1> DEFINE g == Growth(c, m, n)
           P(i) == /\ g[i] \in Nat /\ m + i <= g[i]
                   /\ m + n <= c => g[i] = c
<1>1. g[0] = c /\ \A i \in 1..n : g[i] = Grown(g[i - 1], m + i - 1)
  BY GrowthSteps
<1> HIDE DEF g
<1>2. SUFFICES ASSUME ~P(n) PROVE FALSE
  BY DEF g
<1> DEFINE Bad == {k \in 0..n : ~P(k)}
<1>3. PICK x \in Bad : \A y \in Bad : x <= y
  <2>1. n \in Bad /\ Bad \in SUBSET Nat  BY <1>2
  <2> HIDE DEF Bad
  <2> QED  BY <2>1, LeastNumber
<1>4. x \in 0..n /\ ~P(x)  OBVIOUS
<1>5. x # 0  BY <1>4, <1>1
<1>6. P(x - 1)
  <2>1. x - 1 \in 0..n /\ ~(x <= x - 1)  BY <1>4, <1>5
  <2>2. ~(x - 1 \in Bad)
    <3> HIDE DEF Bad
    <3> QED  BY <2>1, <1>3
  <2> QED  BY <2>1, <2>2
<1>7. g[x] = Grown(g[x - 1], m + x - 1) /\ m + x - 1 \in Nat  BY <1>1, <1>4, <1>5
<1>8. /\ Grown(g[x - 1], m + x - 1) \in Nat
      /\ m + x - 1 + 1 <= Grown(g[x - 1], m + x - 1)
      /\ m + x - 1 < g[x - 1] => Grown(g[x - 1], m + x - 1) = g[x - 1]
  <2>1. g[x - 1] \in Nat /\ m + x - 1 \in Nat /\ m + x - 1 <= g[x - 1]
    BY <1>4, <1>5, <1>6, <1>7
  <2> QED  BY <2>1, GrownRoom
<1>9. P(x)
  <2>1. m + n <= c => m + x - 1 < g[x - 1]  BY <1>4, <1>6
  <2> QED  BY <2>1, <1>4, <1>5, <1>6, <1>7, <1>8
<1> QED  BY <1>4, <1>9

\* Pushing onto a vector.
LEMMA PushOk ==
  ASSUME NEW S, NEW v, VecOk(v, S), NEW s \in Seq(S)
  PROVE  /\ VecOk(vec_push_all(v, s), S)
         /\ vec_push_all(v, s).data = v.data \o s
         /\ vec_push_all(v, s).fixed = v.fixed
         /\ Len(v.data) + Len(s) <= v.capacity =>
              vec_push_all(v, s).capacity = v.capacity
<1> DEFINE c == v.capacity
           m == Len(v.data)
           n == Len(s)
           g == Growth(c, m, n)[n]
           w == vec_push_all(v, s)
<1>1. /\ v.data \in Seq(S) /\ v.capacity \in Nat /\ v.fixed \in BOOLEAN
      /\ Len(v.data) \in Nat /\ Len(v.data) <= v.capacity /\ Len(s) \in Nat
  BY DEF VecOk, Vecs, HasRoom
<1>2. /\ g \in Nat /\ m + n <= g
      /\ m + n <= c => g = c
  <2>1. c \in Nat /\ m \in Nat /\ n \in Nat /\ m <= c  BY <1>1
  <2> HIDE DEF c, m, n
  <2> QED  BY <2>1, GrowthRoom
<1>3. w = [data |-> v.data \o s, capacity |-> g, fixed |-> v.fixed]
  BY DEF vec_push_all, Vector
<1> HIDE DEF g, w
<1>4. v.data \o s \in Seq(S) /\ Len(v.data \o s) = Len(v.data) + Len(s)  BY <1>1
<1>5. w.data = v.data \o s /\ w.capacity = g /\ w.fixed = v.fixed  BY <1>3
<1>6. w \in Vecs(S)  BY <1>1, <1>2, <1>3, <1>4 DEF Vecs
<1>7. HasRoom(w)  BY <1>2, <1>4, <1>5 DEF HasRoom
<1> QED  BY <1>2, <1>5, <1>6, <1>7 DEF VecOk, w

\* The greater of two numbers.
LEMMA MaxOfTwo ==
  ASSUME NEW a \in Nat, NEW b \in Nat
  PROVE  /\ Max({a, b}) \in Nat /\ Max({a, b}) >= a /\ Max({a, b}) >= b
         /\ b <= a => Max({a, b}) = a
<1>1. \E x \in {a, b} : \A y \in {a, b} : x >= y  OBVIOUS
<1>2. Max({a, b}) \in {a, b} /\ \A y \in {a, b} : Max({a, b}) >= y
  BY <1>1 DEF Max
<1> QED  BY <1>2

\* Reserving keeps the elements.
LEMMA ReserveOk ==
  ASSUME NEW S, NEW v, VecOk(v, S), NEW n \in Nat
  PROVE  /\ VecOk(ReserveFixed(v, n), S)
         /\ ReserveFixed(v, n).data = v.data
         /\ ReserveFixed(v, n).fixed = TRUE
         /\ ReserveFixed(v, n).capacity >= n
<1> DEFINE g == Max({v.capacity, n})
           w == ReserveFixed(v, n)
<1>1. /\ v.data \in Seq(S) /\ v.capacity \in Nat /\ Len(v.data) \in Nat
      /\ Len(v.data) <= v.capacity
  BY DEF VecOk, Vecs, HasRoom
<1>2. g \in Nat /\ g >= v.capacity /\ g >= n  BY <1>1, MaxOfTwo
<1>3. w = [data |-> v.data, capacity |-> g, fixed |-> TRUE]
  BY DEF ReserveFixed, Vector
<1> HIDE DEF g, w
<1>4. w.data = v.data /\ w.capacity = g /\ w.fixed = TRUE  BY <1>3
<1>5. w \in Vecs(S)  BY <1>1, <1>2, <1>3 DEF Vecs
<1>6. HasRoom(w)  BY <1>1, <1>2, <1>4 DEF HasRoom
<1> QED  BY <1>2, <1>4, <1>5, <1>6 DEF VecOk, w

\* A vector that a section reserves and fills.
LEMMA FillOk ==
  ASSUME NEW S, NEW v, VecOk(v, S), NEW s \in Seq(S), NEW n \in Nat
  PROVE  LET w == vec_push_all(ReserveFixed(v, n), s)
         IN  VecOk(w, S) /\ w.data = v.data \o s /\ w.fixed = TRUE
<1> DEFINE u == ReserveFixed(v, n)
<1>1. VecOk(u, S) /\ u.data = v.data /\ u.fixed = TRUE  BY ReserveOk
<1> HIDE DEF u
<1>2. /\ VecOk(vec_push_all(u, s), S)
      /\ vec_push_all(u, s).data = u.data \o s
      /\ vec_push_all(u, s).fixed = u.fixed
  BY <1>1, PushOk
<1> QED  BY <1>1, <1>2 DEF u

\* Other elements in the same place.
LEMMA WithDataOk ==
  ASSUME NEW S, NEW v, VecOk(v, S), NEW d \in Seq(S), Len(d) = Len(v.data)
  PROVE  /\ VecOk(WithData(v, d), S)
         /\ WithData(v, d).data = d
         /\ WithData(v, d).fixed = v.fixed
         /\ WithData(v, d).capacity = v.capacity
<1> DEFINE w == WithData(v, d)
<1>1. /\ v.capacity \in Nat /\ v.fixed \in BOOLEAN
      /\ Len(d) \in Nat /\ Len(d) <= v.capacity
  BY DEF VecOk, Vecs, HasRoom
<1>2. w = [data |-> d, capacity |-> v.capacity, fixed |-> v.fixed]
  BY DEF WithData, Vector
<1> HIDE DEF w
<1>3. w.data = d /\ w.capacity = v.capacity /\ w.fixed = v.fixed  BY <1>2
<1>4. w \in Vecs(S)  BY <1>1, <1>2 DEF Vecs
<1>5. HasRoom(w)  BY <1>1, <1>3 DEF HasRoom
<1> QED  BY <1>3, <1>4, <1>5 DEF VecOk, w

\* Appending a sequence keeps the elements and their places, and adds its own.
LEMMA Appended ==
  ASSUME NEW S, NEW a \in Seq(S), NEW b \in Seq(S)
  PROVE  /\ a \o b \in Seq(S)
         /\ Len(a \o b) = Len(a) + Len(b)
         /\ DOMAIN a \subseteq DOMAIN (a \o b)
         /\ \A i \in DOMAIN a : (a \o b)[i] = a[i]
         /\ \A i \in DOMAIN (a \o b) :
              i \notin DOMAIN a => \E j \in DOMAIN b : (a \o b)[i] = b[j]
<1>1. a \o b \in Seq(S) /\ Len(a \o b) = Len(a) + Len(b)  OBVIOUS
<1>2. \A i \in DOMAIN a : i \in DOMAIN (a \o b) /\ (a \o b)[i] = a[i]  OBVIOUS
<1>3. ASSUME NEW i \in DOMAIN (a \o b), i \notin DOMAIN a
      PROVE  \E j \in DOMAIN b : (a \o b)[i] = b[j]
  <2>1. i \in 1..(Len(a) + Len(b)) /\ i > Len(a)  BY <1>1, <1>3
  <2>2. i - Len(a) \in DOMAIN b /\ (a \o b)[i] = b[i - Len(a)]  BY <2>1
  <2> QED  BY <2>2
<1> QED  BY <1>1, <1>2, <1>3

----------------------------------------------------------------------------
(***************************************************************************)
(* What the sections make of the module.                                   *)
(***************************************************************************)
\* ParserTypeOK is what TypeParts says.
LEMMA TypedParts == TypeParts => ParserTypeOK
<1> SUFFICES ASSUME TypeParts PROVE ParserTypeOK
  OBVIOUS
<1>1. DOMAIN Order = 1..13  BY DEF Order
<1>2. ents \in [Kinds -> Vecs(EntityRecords)]  BY DEF TypeParts, VecOk
<1> QED  BY <1>1, <1>2 DEF TypeParts, ParserTypeOK, VecOk, ExportRecords

\* A section moves forward in the order and is read while parsing.
LEMMA SectionMoves ==
  ASSUME TypeParts, NEW name, Section(name)
  PROVE  /\ status' = status
         /\ current_order_idx' \in 1..13
         /\ current_order_idx' >= current_order_idx
         /\ Order[current_order_idx'] = name
<1>1. current_order_idx \in 1..13  BY DEF TypeParts
<1> QED  BY <1>1, Forward DEF Section

\* Segments stay behind everything else while the order moves on.
LEMMA DataStaysLast ==
  ASSUME TypeParts, DataLast, NEW name, Section(name), data' = data
  PROVE  DataLast'
<1>1. current_order_idx' \in 1..13 /\ current_order_idx' >= current_order_idx
  BY SectionMoves
<1> QED  BY <1>1 DEF DataLast

\* What the bytes describe has neither mark nor body, limits in order, and, for
\* a function, a type and room for its parameters.
LEMMA DescribedFresh ==
  ASSUME func_types.data \in Seq(Types), NEW k \in Kinds, NEW b \in BOOLEAN,
         NEW e \in Described(k, b)
  PROVE  /\ e.exported = FALSE /\ e.code = FALSE /\ e.declared = 0
         /\ e.lim.min <= e.lim.max
         /\ k = "func" =>
              /\ e.type \in DOMAIN func_types.data
              /\ ~b => e.locals = func_types.data[e.type].params
<1>1. CASE k = "func"
  <2>1. PICK t \in DOMAIN func_types.data :
          e = Entity(b, t, NoLim, IF b THEN 0 ELSE func_types.data[t].params)
    BY <1>1 DEF Described
  <2> QED  BY <1>1, <2>1 DEF Entity, NoLim
<1>2. CASE k = "global"
  <2>1. e = Entity(b, 0, NoLim, 0)  BY <1>2 DEF Described
  <2> QED  BY <1>2, <2>1 DEF Entity, NoLim
<1>3. CASE k \notin {"func", "global"}
  <2>1. PICK l \in Limits :
          LimitsOk(l, Cap(k)) /\ e = Entity(b, 0, parse_limits(l, Cap(k)), 0)
    BY <1>3 DEF Described
  <2>2. Cap(k) \in Nat  BY ParserAssumption DEF Cap
  <2>3. l.min \in Nat /\ l.max \in Nat  BY ParserAssumption
  <2>4. parse_limits(l, Cap(k)).min <= parse_limits(l, Cap(k)).max
    BY <2>1, <2>2, <2>3 DEF parse_limits, LimitsOk
  <2> QED  BY <1>3, <2>1, <2>4 DEF Entity
<1> QED  BY <1>1, <1>2, <1>3

\* What stays of types and entities while sections are read.
Keeping ==
  /\ \A t \in DOMAIN func_types.data :
       t \in DOMAIN func_types'.data /\ func_types'.data[t] = func_types.data[t]
  /\ \A k \in Kinds : \A i \in DOMAIN ents[k].data :
       /\ i \in DOMAIN ents'[k].data
       /\ ents'[k].data[i].type = ents[k].data[i].type

\* Whatever named an entity still names it.
LEMMA NamesKept ==
  ASSUME TypeParts, Keeping, Closed
  PROVE  /\ exports' = exports => ExportsName'
         /\ start_funcidx' = start_funcidx => Startable'
         /\ elements' = elements => ItemsName'
<1>0. "func" \in Kinds  BY DEF Kinds
<1>1. ASSUME exports' = exports
      PROVE  ExportsName'
  <2>1. \A i \in DOMAIN exports.data : exports.data[i].kind \in Kinds
    <3>1. exports.data \in Seq(ExportRecords)  BY DEF TypeParts, VecOk, Vecs
    <3>2. \A i \in DOMAIN exports.data : exports.data[i] \in ExportRecords  BY <3>1
    <3>3. \A x \in ExportRecords : x.kind \in Kinds  BY DEF ExportRecords
    <3> QED  BY <3>2, <3>3
  <2> QED  BY <1>1, <2>1 DEF Keeping, Closed, ExportsName
<1>2. ASSUME start_funcidx' = start_funcidx
      PROVE  Startable'
  <2> SUFFICES ASSUME start_funcidx # 0
               PROVE  /\ start_funcidx \in DOMAIN ents'["func"].data
                      /\ func_types'.data[ents'["func"].data[start_funcidx].type]
                           = [params |-> 0, results |-> 0]
    BY <1>2 DEF Startable
  <2>1. /\ start_funcidx \in DOMAIN ents["func"].data
        /\ func_types.data[ents["func"].data[start_funcidx].type]
             = [params |-> 0, results |-> 0]
        /\ ents["func"].data[start_funcidx].type \in DOMAIN func_types.data
    BY DEF Closed, Startable, Typed
  <2> QED  BY <2>1, <1>0 DEF Keeping
<1>3. ASSUME elements' = elements
      PROVE  ItemsName'
  BY <1>0, <1>3 DEF Keeping, Closed, ItemsName
<1> QED  BY <1>1, <1>2, <1>3

\* A kind that gets more entities: they are described by the bytes, and those
\* that are not imported come together.
LEMMA PushCloses ==
  ASSUME TypeParts, Closed, NEW kind \in Kinds, NEW b \in BOOLEAN, NEW w,
         NEW s \in Seq(Described(kind, b)),
         VecOk(w, EntityRecords), w.data = ents[kind].data \o s,
         ents' = [ents EXCEPT ![kind] = w],
         b \/ \A i \in DOMAIN ents[kind].data : ents[kind].data[i].imported,
         UNCHANGED <<func_types, exports, start_funcidx, elements>>
  PROVE  /\ ents' = [k \in Kinds |-> ents'[k]]
         /\ \A k \in Kinds : VecOk(ents'[k], EntityRecords)
         /\ Closed'
<1>1. ents'[kind] = w /\ \A k \in Kinds \ {kind} : ents'[k] = ents[k]
  BY DEF TypeParts
<1>2. ents' = [k \in Kinds |-> ents'[k]]  BY DEF TypeParts
<1>3. \A k \in Kinds : VecOk(ents'[k], EntityRecords)
  BY <1>1 DEF TypeParts
<1>4. func_types.data \in Seq(Types)  BY DEF TypeParts, VecOk, Vecs
<1> DEFINE old == ents[kind].data
<1>5. old \in Seq(EntityRecords)  BY DEF TypeParts, VecOk, Vecs
<1>6. \A e \in Described(kind, b) : /\ e \in EntityRecords /\ e.imported = b
                                    /\ e.exported = FALSE /\ e.code = FALSE
                                    /\ e.declared = 0
                                    /\ e.lim.min <= e.lim.max
                                    /\ kind = "func" =>
                                         /\ e.type \in DOMAIN func_types.data
                                         /\ ~b => e.locals = func_types.data[e.type].params
  BY <1>4, DescribedRecords, DescribedFresh
<1>7. s \in Seq(EntityRecords)  BY <1>6
<1> HIDE DEF old
<1>8. /\ \A i \in DOMAIN old : i \in DOMAIN w.data /\ w.data[i] = old[i]
      /\ \A i \in DOMAIN w.data : i \notin DOMAIN old => w.data[i] \in Described(kind, b)
  <2>1. w.data = old \o s  BY DEF old
  <2>2. /\ DOMAIN old \subseteq DOMAIN (old \o s)
        /\ \A i \in DOMAIN old : (old \o s)[i] = old[i]
        /\ \A i \in DOMAIN (old \o s) :
             i \notin DOMAIN old => \E j \in DOMAIN s : (old \o s)[i] = s[j]
    BY <1>5, <1>7, Appended
  <2>3. \A j \in DOMAIN s : s[j] \in Described(kind, b)  OBVIOUS
  <2> QED  BY <2>1, <2>2, <2>3
<1>9. Keeping
  <2>1. ASSUME NEW k \in Kinds, NEW i \in DOMAIN ents[k].data
        PROVE  i \in DOMAIN ents'[k].data
               /\ ents'[k].data[i].type = ents[k].data[i].type
    BY <1>1, <1>8 DEF old
  <2> QED  BY <2>1 DEF Keeping
<1>10. ExportsName' /\ Startable' /\ ItemsName'  BY <1>9, NamesKept
<1>11. Typed'
  <2> SUFFICES ASSUME NEW i \in DOMAIN ents'["func"].data
               PROVE  LET f == ents'["func"].data[i]
                      IN  /\ f.type \in DOMAIN func_types.data
                          /\ ~f.imported =>
                               LET n == func_types.data[f.type].params + f.declared
                               IN  n <= U32_MAX => f.locals = n
                          /\ ~f.imported /\ ~f.code =>
                               f.locals = func_types.data[f.type].params
    BY DEF Typed, LocalsCounted
  <2>1. CASE kind # "func"
    <3>1. ents'["func"] = ents["func"]  BY <2>1, <1>1 DEF Kinds
    <3> QED  BY <3>1 DEF Closed, Typed, LocalsCounted
  <2>2. CASE kind = "func" /\ i \in DOMAIN old
    <3>1. ents'["func"].data[i] = ents["func"].data[i] /\ i \in DOMAIN ents["func"].data
      BY <2>2, <1>1, <1>8 DEF old
    <3> QED  BY <3>1 DEF Closed, Typed, LocalsCounted
  <2>3. CASE kind = "func" /\ i \notin DOMAIN old
    <3>1. ents'["func"].data[i] \in Described(kind, b)  BY <2>3, <1>1, <1>8
    <3>2. func_types.data[ents'["func"].data[i].type].params \in Nat
      <4>1. func_types.data[ents'["func"].data[i].type] \in Types
        BY <3>1, <1>6, <1>4, <2>3
      <4> QED  BY <4>1, ParserAssumption
    <3> QED  BY <3>1, <3>2, <1>6, <2>3
  <2> QED  BY <2>1, <2>2, <2>3
<1>12. OneBody'
  <2> SUFFICES ASSUME NEW i \in DOMAIN ents'["func"].data,
                      NEW j \in DOMAIN ents'["func"].data,
                      ~ents'["func"].data[i].imported, ~ents'["func"].data[j].imported
               PROVE  ents'["func"].data[i].code = ents'["func"].data[j].code
    BY DEF OneBody
  <2>1. CASE kind # "func"
    <3>1. ents'["func"] = ents["func"]  BY <2>1, <1>1 DEF Kinds
    <3> QED  BY <3>1 DEF Closed, OneBody
  <2>2. CASE kind = "func" /\ b
    <3>1. i \in DOMAIN old /\ j \in DOMAIN old  BY <2>2, <1>1, <1>6, <1>8
    <3>2. /\ ents'["func"].data[i] = ents["func"].data[i] /\ i \in DOMAIN ents["func"].data
          /\ ents'["func"].data[j] = ents["func"].data[j] /\ j \in DOMAIN ents["func"].data
      BY <3>1, <2>2, <1>1, <1>8 DEF old
    <3> QED  BY <3>2 DEF Closed, OneBody
  <2>3. CASE kind = "func" /\ ~b
    <3>1. \A m \in DOMAIN old : old[m].imported  BY <2>3 DEF old
    <3>2. i \notin DOMAIN old /\ j \notin DOMAIN old
      BY <3>1, <2>3, <1>1, <1>8, ZenonT(60)
    <3>3. \A m \in {i, j} : ents'["func"].data[m] \in Described(kind, b)
      BY <3>2, <2>3, <1>1, <1>8
    <3> QED  BY <3>3, <1>6
  <2> QED  BY <2>1, <2>2, <2>3
<1>13. Limited'
  <2> SUFFICES ASSUME NEW k \in Kinds, NEW j \in DOMAIN ents'[k].data
               PROVE  ents'[k].data[j].lim.min <= ents'[k].data[j].lim.max
    BY DEF Limited
  <2>1. CASE k # kind  BY <2>1, <1>1 DEF Closed, Limited
  <2>2. CASE k = kind /\ j \in DOMAIN old
    <3>1. ents'[k].data[j] = ents[k].data[j] /\ j \in DOMAIN ents[k].data
      BY <2>2, <1>1, <1>8 DEF old
    <3> QED  BY <3>1 DEF Closed, Limited
  <2>3. CASE k = kind /\ j \notin DOMAIN old  BY <2>3, <1>1, <1>6, <1>8
  <2> QED  BY <2>1, <2>2, <2>3
<1>14. Marked'
  <2> SUFFICES ASSUME NEW k \in Kinds, NEW j \in DOMAIN ents'[k].data
               PROVE  ents'[k].data[j].exported <=>
                        \E i \in DOMAIN exports.data :
                          exports.data[i] = [kind |-> k, at |-> j]
    BY DEF Marked
  <2>1. CASE k # kind  BY <2>1, <1>1 DEF Closed, Marked
  <2>2. CASE k = kind /\ j \in DOMAIN old
    <3>1. ents'[k].data[j] = ents[k].data[j] /\ j \in DOMAIN ents[k].data
      BY <2>2, <1>1, <1>8 DEF old
    <3> QED  BY <3>1 DEF Closed, Marked
  <2>3. CASE k = kind /\ j \notin DOMAIN old
    <3>1. ents'[k].data[j].exported = FALSE  BY <2>3, <1>1, <1>6, <1>8
    <3>2. ASSUME NEW i \in DOMAIN exports.data, exports.data[i] = [kind |-> k, at |-> j]
          PROVE  FALSE
      <4>1. exports.data[i].kind = k /\ exports.data[i].at = j  BY <3>2
      <4>2. j \in DOMAIN ents[k].data  BY <4>1 DEF Closed, ExportsName
      <4> QED  BY <4>2, <2>3 DEF old
    <3> QED  BY <3>1, <3>2
  <2> QED  BY <2>1, <2>2, <2>3
<1> QED  BY <1>2, <1>3, <1>10, <1>11, <1>12, <1>13, <1>14 DEF Closed

\* Sections that read neither entities nor vectors.
LEMMA NothingFilled ==
  ASSUME ModuleInv, TypeParts',
         UNCHANGED <<func_types, ents, imported_count, exports, start_funcidx, elements,
                     data_count, data>>,
         DataLast'
  PROVE  Filled' /\ FixedStays
<1>1. FilledOnce' /\ OwnersFixed' /\ DataCounted' /\ Shaped'
  BY DEF ModuleInv, Filled, FilledOnce, OwnersFixed, DataCounted, Shaped, Fresh
<1>2. Closed'
  BY DEF ModuleInv, Filled, Closed, Typed, LocalsCounted, OneBody, Limited, Marked, ExportsName,
         Startable, ItemsName
<1>3. FixedStays  BY DEF FixedStays
<1> QED  BY <1>1, <1>2, <1>3 DEF Filled

\* The type section fills the types, once.
LEMMA TypeFills ==
  ASSUME ModuleInv, parse_section_type
  PROVE  Filled' /\ FixedStays
<1>1. PICK s \in Lists(Types) :
        func_types' = vec_push_all(ReserveFixed(func_types, Len(s)), s)
  BY DEF parse_section_type
<1>2. s \in Seq(Types) /\ Len(s) \in Nat  BY ListsAreSequences
<1>3. ~func_types.fixed  BY DEF parse_section_type, CanReserve
<1>4. VecOk(func_types, Types)  BY DEF ModuleInv, Filled, TypeParts
<1>5. /\ VecOk(func_types', Types) /\ func_types'.data = func_types.data \o s
      /\ func_types'.fixed = TRUE
  BY <1>1, <1>2, <1>4, FillOk
<1>6. /\ status' = status /\ current_order_idx' \in 1..13 /\ DataLast'
  BY SectionMoves, DataStaysLast DEF ModuleInv, Filled, parse_section_type
<1>7. TypeParts'
  BY <1>5, <1>6 DEF ModuleInv, Filled, TypeParts, parse_section_type
<1>8. FilledOnce' /\ OwnersFixed' /\ DataCounted' /\ Shaped'
  BY <1>5 DEF ModuleInv, Filled, FilledOnce, OwnersFixed, DataCounted, Shaped, Fresh,
              parse_section_type
<1>9. Keeping
  <2>1. func_types.data \in Seq(Types)  BY <1>4 DEF VecOk, Vecs
  <2>2. \A t \in DOMAIN func_types.data :
          t \in DOMAIN func_types'.data /\ func_types'.data[t] = func_types.data[t]
    BY <2>1, <1>2, <1>5, Appended
  <2> QED  BY <2>2 DEF Keeping, parse_section_type
<1>10. Closed'
  <2>1. ExportsName' /\ Startable' /\ ItemsName'
    BY <1>9, NamesKept DEF ModuleInv, Filled, parse_section_type
  <2>2. OneBody' /\ Limited' /\ Marked'
    BY DEF ModuleInv, Filled, Closed, OneBody, Limited, Marked, parse_section_type
  <2>3. Typed'
    <3> SUFFICES ASSUME NEW i \in DOMAIN ents["func"].data
                 PROVE  LET f == ents["func"].data[i]
                        IN  /\ f.type \in DOMAIN func_types'.data
                            /\ ~f.imported =>
                                 LET n == func_types'.data[f.type].params + f.declared
                                 IN  n <= U32_MAX => f.locals = n
                            /\ ~f.imported /\ ~f.code =>
                                 f.locals = func_types'.data[f.type].params
      BY DEF Typed, LocalsCounted, parse_section_type
    <3> QED  BY <1>9 DEF Keeping, ModuleInv, Filled, Closed, Typed, LocalsCounted
  <2> QED  BY <2>1, <2>2, <2>3 DEF Closed
<1>11. FixedStays  BY <1>3 DEF FixedStays, parse_section_type
<1> QED  BY <1>6, <1>7, <1>8, <1>10, <1>11 DEF Filled

\* Imports push onto vectors that definitions may have fixed already: then they
\* fit into what was reserved.
LEMMA ImportFills ==
  ASSUME ModuleInv, parse_section_import
  PROVE  Filled' /\ FixedStays
<1>0. PICK kind \in Kinds : \E s \in Lists(Described(kind, TRUE)) :
        /\ CanPush(ents[kind], s)
        /\ ents' = [ents EXCEPT ![kind] = vec_push_all(@, s)]
        /\ imported_count' = [imported_count EXCEPT ![kind] = @ + Len(s)]
  BY DEF parse_section_import
<1>1. PICK s \in Lists(Described(kind, TRUE)) :
        /\ CanPush(ents[kind], s)
        /\ ents' = [ents EXCEPT ![kind] = vec_push_all(@, s)]
        /\ imported_count' = [imported_count EXCEPT ![kind] = @ + Len(s)]
  BY <1>0
<1> DEFINE v == ents[kind]
           w == vec_push_all(v, s)
<1>2. s \in Seq(Described(kind, TRUE)) /\ Len(s) \in Nat
  <2> DEFINE D == Described(kind, TRUE)
  <2>1. s \in Lists(D)  OBVIOUS
  <2> HIDE DEF D
  <2>2. s \in Seq(D)  BY <2>1, ListsAreSequences
  <2>3. Len(s) \in Nat  BY <2>2
  <2> QED  BY <2>2, <2>3 DEF D
<1>3. TypeParts /\ Closed /\ VecOk(v, EntityRecords)
  BY DEF ModuleInv, Filled, TypeParts
<1>4. s \in Seq(EntityRecords)
  <2>1. func_types.data \in Seq(Types)  BY <1>3 DEF TypeParts, VecOk, Vecs
  <2> DEFINE D == Described(kind, TRUE)
  <2>2. \A e \in D : e \in EntityRecords
    BY <2>1, DescribedRecords
  <2>3. s \in Seq(D)  BY <1>2
  <2> HIDE DEF D
  <2> QED  BY <2>2, <2>3
<1>5. /\ VecOk(w, EntityRecords) /\ w.data = v.data \o s /\ w.fixed = v.fixed
      /\ Len(v.data) + Len(s) <= v.capacity => w.capacity = v.capacity
  <2> HIDE DEF v
  <2> QED  BY <1>3, <1>4, PushOk
<1>6. ents' = [ents EXCEPT ![kind] = w]
  BY <1>1 DEF ModuleInv, Filled, TypeParts
<1> HIDE DEF w
<1>7. /\ ents' = [k \in Kinds |-> ents'[k]]
      /\ \A k \in Kinds : VecOk(ents'[k], EntityRecords)
      /\ Closed'
  <2>1. UNCHANGED <<func_types, exports, start_funcidx, elements>>
    BY DEF parse_section_import
  <2> QED  BY <1>2, <1>3, <1>5, <1>6, <2>1, PushCloses
<1>8. /\ status' = status /\ current_order_idx' \in 1..13 /\ DataLast'
  BY SectionMoves, DataStaysLast DEF ModuleInv, Filled, parse_section_import
<1>9. /\ imported_count' \in [Kinds -> Nat]
      /\ imported_count'[kind] = imported_count[kind] + Len(s)
      /\ \A k \in Kinds \ {kind} : imported_count'[k] = imported_count[k]
  BY <1>1, <1>2, <1>3 DEF TypeParts
<1>10. ents'[kind] = w /\ \A k \in Kinds \ {kind} : ents'[k] = ents[k]
  BY <1>3, <1>6 DEF TypeParts
<1>11. TypeParts'
  BY <1>3, <1>7, <1>8, <1>9 DEF TypeParts, parse_section_import
<1>12. FilledOnce' /\ DataCounted' /\ Shaped'
  BY DEF ModuleInv, Filled, FilledOnce, DataCounted, Shaped, Fresh, parse_section_import
<1>13. OwnersFixed'
  <2> SUFFICES ASSUME NEW k \in Kinds, imported_count'[k] < Len(ents'[k].data)
               PROVE  ents'[k].fixed
    BY DEF OwnersFixed
  <2>1. CASE k # kind  BY <2>1, <1>9, <1>10 DEF ModuleInv, Filled, OwnersFixed
  <2>2. CASE k = kind
    <3>1. Len(w.data) = Len(v.data) + Len(s)
      BY <1>3, <1>4, <1>5, Appended DEF VecOk, Vecs
    <3>2. Len(v.data) \in Nat /\ imported_count[kind] \in Nat
      BY <1>3 DEF VecOk, Vecs, TypeParts
    <3>3. imported_count[kind] < Len(ents[kind].data)
      BY <3>1, <3>2, <2>2, <1>2, <1>9, <1>10
    <3> QED  BY <3>3, <2>2, <1>5, <1>10 DEF ModuleInv, Filled, OwnersFixed
  <2> QED  BY <2>1, <2>2
<1>14. FixedStays
  <2>1. ASSUME NEW k \in Kinds, ents[k].fixed
        PROVE  ents'[k].fixed /\ ents'[k].capacity = ents[k].capacity
    <3>1. CASE k # kind  BY <2>1, <3>1, <1>10
    <3>2. CASE k = kind
      <4>1. Len(v.data) + Len(s) <= v.capacity  BY <2>1, <3>2, <1>1 DEF CanPush
      <4> QED  BY <4>1, <2>1, <3>2, <1>5, <1>10
    <3> QED  BY <3>1, <3>2
  <2> QED  BY <2>1 DEF FixedStays, parse_section_import
<1> QED  BY <1>7, <1>8, <1>11, <1>12, <1>13, <1>14 DEF Filled

\* The four sections of definitions fix the vector of their kind.
LEMMA DefineFills ==
  ASSUME ModuleInv, NEW kind \in Kinds, NEW name, Define(name, kind)
  PROVE  Filled' /\ FixedStays
<1>1. PICK s \in Lists(Described(kind, FALSE)) :
        ents' = [ents EXCEPT ![kind] =
                   vec_push_all(ReserveFixed(@, Len(s) + Len(@.data)), s)]
  BY DEF Define
<1> DEFINE v == ents[kind]
           n == Len(s) + Len(v.data)
           w == vec_push_all(ReserveFixed(v, n), s)
<1>2. s \in Seq(Described(kind, FALSE)) /\ Len(s) \in Nat
  <2> DEFINE D == Described(kind, FALSE)
  <2>1. s \in Lists(D)  OBVIOUS
  <2> HIDE DEF D
  <2>2. s \in Seq(D)  BY <2>1, ListsAreSequences
  <2>3. Len(s) \in Nat  BY <2>2
  <2> QED  BY <2>2, <2>3 DEF D
<1>3. TypeParts /\ Closed /\ VecOk(v, EntityRecords) /\ Len(v.data) \in Nat
  BY DEF ModuleInv, Filled, TypeParts, VecOk, Vecs
<1>4. s \in Seq(EntityRecords)
  <2>1. func_types.data \in Seq(Types)  BY <1>3 DEF TypeParts, VecOk, Vecs
  <2> DEFINE D == Described(kind, FALSE)
  <2>2. \A e \in D : e \in EntityRecords
    BY <2>1, DescribedRecords
  <2>3. s \in Seq(D)  BY <1>2
  <2> HIDE DEF D
  <2> QED  BY <2>2, <2>3
<1>5. VecOk(w, EntityRecords) /\ w.data = v.data \o s /\ w.fixed = TRUE
  <2>1. n \in Nat  BY <1>2, <1>3
  <2> HIDE DEF v, n
  <2> QED  BY <2>1, <1>3, <1>4, FillOk
<1>6. ents' = [ents EXCEPT ![kind] = w]
  BY <1>1 DEF ModuleInv, Filled, TypeParts
<1> HIDE DEF w
<1>7. ~ents[kind].fixed  BY DEF Define, CanReserve
<1>8. \A i \in DOMAIN ents[kind].data : ents[kind].data[i].imported
  <2>1. imported_count[kind] \in Nat /\ ~(imported_count[kind] < Len(ents[kind].data))
    BY <1>3, <1>7 DEF ModuleInv, Filled, OwnersFixed, TypeParts
  <2>2. \A i \in DOMAIN ents[kind].data : i \in 1..Len(ents[kind].data)
    BY <1>3 DEF VecOk, Vecs
  <2>3. \A i \in DOMAIN ents[kind].data : i <= imported_count[kind]
    BY <2>1, <2>2, <1>3
  <2> QED  BY <2>3 DEF ModuleInv, PInv, ImportsFirst
<1>9. /\ ents' = [k \in Kinds |-> ents'[k]]
      /\ \A k \in Kinds : VecOk(ents'[k], EntityRecords)
      /\ Closed'
  <2>1. UNCHANGED <<func_types, exports, start_funcidx, elements>>
    BY DEF Define
  <2> QED  BY <1>2, <1>3, <1>5, <1>6, <1>8, <2>1, PushCloses
<1>10. /\ status' = status /\ current_order_idx' \in 1..13 /\ DataLast'
  BY SectionMoves, DataStaysLast DEF ModuleInv, Filled, Define
<1>11. ents'[kind] = w /\ \A k \in Kinds \ {kind} : ents'[k] = ents[k]
  BY <1>3, <1>6 DEF TypeParts
<1>12. TypeParts'
  BY <1>3, <1>9, <1>10 DEF TypeParts, Define
<1>13. FilledOnce' /\ DataCounted' /\ Shaped'
  BY DEF ModuleInv, Filled, FilledOnce, DataCounted, Shaped, Fresh, Define
<1>14. OwnersFixed'
  BY <1>5, <1>11 DEF ModuleInv, Filled, OwnersFixed, Define
<1>15. FixedStays
  <2>1. ASSUME NEW k \in Kinds, ents[k].fixed
        PROVE  ents'[k].fixed /\ ents'[k].capacity = ents[k].capacity
    BY <2>1, <1>7, <1>11
  <2> QED  BY <2>1 DEF FixedStays, Define
<1> QED  BY <1>9, <1>10, <1>12, <1>13, <1>14, <1>15 DEF Filled

\* The start section names a function.
LEMMA StartFills ==
  ASSUME ModuleInv, parse_section_start
  PROVE  Filled' /\ FixedStays
<1>1. /\ status' = status /\ current_order_idx' \in 1..13 /\ DataLast'
  BY SectionMoves, DataStaysLast DEF ModuleInv, Filled, parse_section_start
<1>2. PICK i \in Named :
        /\ InRange("func", i)
        /\ func_types.data[ents["func"].data[i].type] = [params |-> 0, results |-> 0]
        /\ start_funcidx' = i
  BY DEF parse_section_start
<1>3. i \in Nat /\ i >= 1  BY ParserAssumption DEF Named
<1>4. TypeParts'  BY <1>1, <1>2, <1>3 DEF ModuleInv, Filled, TypeParts, parse_section_start
<1>5. FilledOnce' /\ OwnersFixed' /\ DataCounted' /\ Shaped'
  BY DEF ModuleInv, Filled, FilledOnce, OwnersFixed, DataCounted, Shaped, Fresh,
         parse_section_start
<1>6. Typed' /\ OneBody' /\ Limited' /\ Marked' /\ ExportsName' /\ ItemsName'
  BY DEF ModuleInv, Filled, Closed, Typed, LocalsCounted, OneBody, Limited, Marked, ExportsName,
         ItemsName, parse_section_start
<1>7. Startable'
  <2>1. ents["func"].data \in Seq(EntityRecords)
    BY DEF ModuleInv, Filled, TypeParts, VecOk, Vecs, Kinds
  <2>2. i \in DOMAIN ents["func"].data  BY <2>1, <1>2, <1>3 DEF InRange
  <2> QED  BY <2>2, <1>2 DEF Startable, parse_section_start
<1>8. FixedStays  BY DEF FixedStays, parse_section_start
<1> QED  BY <1>1, <1>4, <1>5, <1>6, <1>7, <1>8 DEF Filled, Closed

\* The data count comes before the segments.
LEMMA DataCountFills ==
  ASSUME ModuleInv, parse_section_data_count
  PROVE  Filled' /\ FixedStays
<1>1. /\ status' = status /\ current_order_idx' \in 1..13 /\ DataLast'
      /\ current_order_idx' >= current_order_idx
      /\ Order[current_order_idx'] = "data_count"
  BY SectionMoves, DataStaysLast DEF ModuleInv, Filled, parse_section_data_count
<1>2. ~data.fixed
  <2>1. current_order_idx' # 13  BY <1>1 DEF Order
  <2>2. current_order_idx \in 1..13  BY DEF ModuleInv, Filled, TypeParts
  <2>3. current_order_idx # 13  BY <2>1, <2>2, <1>1
  <2> QED  BY <2>3 DEF ModuleInv, Filled, DataLast
<1>3. data_count' \in Nat  BY ParserAssumption DEF parse_section_data_count
<1>4. TypeParts'
  BY <1>1, <1>3 DEF ModuleInv, Filled, TypeParts, parse_section_data_count
<1>5. FilledOnce' /\ OwnersFixed' /\ Shaped'
  BY DEF ModuleInv, Filled, FilledOnce, OwnersFixed, Shaped, Fresh,
         parse_section_data_count
<1>6. DataCounted'  BY <1>2 DEF DataCounted, parse_section_data_count
<1>7. Closed'
  BY DEF ModuleInv, Filled, Closed, Typed, LocalsCounted, OneBody, Limited, Marked, ExportsName,
         Startable, ItemsName, parse_section_data_count
<1>8. FixedStays  BY DEF FixedStays, parse_section_data_count
<1> QED  BY <1>1, <1>4, <1>5, <1>6, <1>7, <1>8 DEF Filled

\* The segments are as many as were announced.
LEMMA DataFills ==
  ASSUME ModuleInv, parse_section_data
  PROVE  Filled' /\ FixedStays
<1>1. /\ status' = status /\ current_order_idx' \in 1..13
      /\ Order[current_order_idx'] = "data"
  BY SectionMoves DEF ModuleInv, Filled, parse_section_data
<1>2. PICK s \in Lists(BOOLEAN) :
        /\ CountOk(Len(s))
        /\ data_count' = IF data_count = -1 THEN Len(s) ELSE data_count
        /\ data' = vec_push_all(ReserveFixed(data, Len(s)), s)
  BY DEF parse_section_data
<1>3. s \in Seq(BOOLEAN) /\ Len(s) \in Nat  BY ListsAreSequences
<1>4. VecOk(data, BOOLEAN)  BY DEF ModuleInv, Filled, TypeParts
<1>5. VecOk(data', BOOLEAN) /\ data'.data = data.data \o s /\ data'.fixed = TRUE
  BY <1>2, <1>3, <1>4, FillOk
<1>6. data.data = << >>
  BY DEF ModuleInv, Filled, FilledOnce, Fresh, parse_section_data, CanReserve
<1>7. Len(data'.data) = Len(s)  BY <1>3, <1>5, <1>6
<1>8. data_count' = Len(s)  BY <1>2, <1>3 DEF CountOk
<1>9. DataLast'  BY <1>1 DEF DataLast, Order
<1>10. TypeParts'
  BY <1>1, <1>3, <1>5, <1>8 DEF ModuleInv, Filled, TypeParts, parse_section_data
<1>11. FilledOnce' /\ OwnersFixed' /\ Shaped'
  BY <1>5 DEF ModuleInv, Filled, FilledOnce, OwnersFixed, Shaped, Fresh,
              parse_section_data
<1>12. DataCounted'  BY <1>7, <1>8 DEF DataCounted
<1>13. Closed'
  BY DEF ModuleInv, Filled, Closed, Typed, LocalsCounted, OneBody, Limited, Marked, ExportsName,
         Startable, ItemsName, parse_section_data
<1>14. FixedStays  BY DEF FixedStays, parse_section_data
<1> QED  BY <1>9, <1>10, <1>11, <1>12, <1>13, <1>14 DEF Filled

\* A mark, or a body, is all that changes of an entity.
LEMMA OnlyMarked ==
  ASSUME NEW e \in EntityRecords, NEW b \in BOOLEAN, NEW x, x = [e EXCEPT !.exported = b]
  PROVE  /\ x \in EntityRecords /\ x.exported = b
         /\ x.imported = e.imported /\ x.type = e.type /\ x.lim = e.lim
         /\ x.locals = e.locals /\ x.declared = e.declared /\ x.code = e.code
<1>1. x \in EntityRecords  BY Exported
<1> QED  BY <1>1, Zenon DEF EntityRecords

\* Locals are counted.
LEMMA LocalsNumber == \A e \in EntityRecords : e.locals \in Nat
BY DEF EntityRecords

\* A sequence with other elements in the same places.
LEMMA SamePlaces ==
  ASSUME NEW S, NEW d \in Seq(S), NEW e, e = [i \in DOMAIN d |-> e[i]],
         \A i \in DOMAIN d : e[i] \in S
  PROVE  e \in Seq(S) /\ Len(e) = Len(d) /\ DOMAIN e = DOMAIN d
<1>1. DOMAIN d = 1..Len(d) /\ Len(d) \in Nat  OBVIOUS
<1>2. e \in [1..Len(d) -> S]  BY <1>1
<1> QED  BY <1>1, <1>2

\* Exports are read once, and mark what they name.
LEMMA ExportFills ==
  ASSUME ModuleInv, parse_section_export
  PROVE  Filled' /\ FixedStays
<1>1. PICK s \in Lists([kind : Kinds, at : Named]) :
       /\ \A i \in DOMAIN s : InRange(s[i].kind, s[i].at)
       /\ exports' = vec_push_all(ReserveFixed(exports, Len(s)), s)
       /\ ents' = [k \in Kinds |-> WithData(ents[k],
            [j \in DOMAIN ents[k].data |-> [ents[k].data[j] EXCEPT !.exported =
               @ \/ \E i \in DOMAIN s : s[i] = [kind |-> k, at |-> j]]])]
  BY DEF parse_section_export
<1>2. /\ status' = status /\ current_order_idx' \in 1..13 /\ DataLast'
  BY SectionMoves, DataStaysLast DEF ModuleInv, Filled, parse_section_export
<1>3. TypeParts /\ Closed  BY DEF ModuleInv, Filled
<1>4. s \in Seq(ExportRecords) /\ Len(s) \in Nat
      /\ \A i \in DOMAIN s : s[i].kind \in Kinds /\ s[i].at \in Nat /\ s[i].at >= 1
  <2> DEFINE E == [kind : Kinds, at : Named]
  <2>1. s \in Seq(E)  BY ListsAreSequences
  <2>2. \A e \in E : e \in ExportRecords /\ e.kind \in Kinds /\ e.at \in Nat /\ e.at >= 1
    BY ParserAssumption DEF ExportRecords, Named
  <2> HIDE DEF E
  <2>3. \A i \in DOMAIN s : s[i] \in E  BY <2>1
  <2>4. s \in Seq(ExportRecords) /\ Len(s) \in Nat  BY <2>1, <2>2
  <2> QED  BY <2>2, <2>3, <2>4
<1>5. /\ VecOk(exports', ExportRecords) /\ exports'.data = s /\ exports'.fixed = TRUE
      /\ exports.data = << >>
  <2>1. VecOk(exports, ExportRecords)  BY <1>3 DEF TypeParts
  <2>2. VecOk(exports', ExportRecords) /\ exports'.data = exports.data \o s
        /\ exports'.fixed = TRUE
    BY <1>1, <1>4, <2>1, FillOk
  <2>3. exports.data = << >>
    BY DEF ModuleInv, Filled, FilledOnce, Fresh, parse_section_export, CanReserve
  <2> QED  BY <2>2, <2>3, <1>4
<1> DEFINE x(k, j) == ents[k].data[j].exported
                        \/ \E i \in DOMAIN s : s[i] = [kind |-> k, at |-> j]
           d(k) == [j \in DOMAIN ents[k].data |->
                      [ents[k].data[j] EXCEPT !.exported = x(k, j)]]
<1>6. \A k \in Kinds : ents'[k] = WithData(ents[k], d(k))  BY <1>1
<1>7. ASSUME NEW k \in Kinds, NEW j \in DOMAIN ents[k].data
      PROVE  ents[k].data[j] \in EntityRecords
             /\ d(k)[j] = [ents[k].data[j] EXCEPT !.exported = x(k, j)]
             /\ x(k, j) \in BOOLEAN
  <2>1. ents[k].data \in Seq(EntityRecords)  BY <1>3 DEF TypeParts, VecOk, Vecs
  <2>2. ents[k].data[j] \in EntityRecords  BY <2>1
  <2>3. d(k)[j] = [ents[k].data[j] EXCEPT !.exported = x(k, j)]  BY Zenon
  <2> QED  BY <2>2, <2>3
<1>8. ASSUME NEW k \in Kinds
      PROVE  d(k) = [j \in DOMAIN ents[k].data |-> d(k)[j]]
  BY Zenon
<1>9. ents' = [k \in Kinds |-> ents'[k]]  BY <1>1
<1>x. \A k \in Kinds : \A j \in DOMAIN ents[k].data :
        x(k, j) <=> \E i \in DOMAIN s : s[i] = [kind |-> k, at |-> j]
  BY <1>3, <1>5 DEF Closed, Marked
<1> HIDE DEF d, x
<1>10. ASSUME NEW k \in Kinds, NEW j \in DOMAIN ents[k].data
       PROVE  /\ d(k)[j] \in EntityRecords /\ d(k)[j].exported = x(k, j)
              /\ d(k)[j].imported = ents[k].data[j].imported
              /\ d(k)[j].type = ents[k].data[j].type
              /\ d(k)[j].lim = ents[k].data[j].lim
              /\ d(k)[j].locals = ents[k].data[j].locals
              /\ d(k)[j].declared = ents[k].data[j].declared
              /\ d(k)[j].code = ents[k].data[j].code
  <2> DEFINE e == ents[k].data[j]
             b == x(k, j)
  <2>1. e \in EntityRecords /\ b \in BOOLEAN /\ d(k)[j] = [e EXCEPT !.exported = b]
    BY <1>7
  <2> DEFINE y == d(k)[j]
  <2>2. y = [e EXCEPT !.exported = b]  BY <2>1
  <2> HIDE DEF e, b, y
  <2>3. /\ y \in EntityRecords /\ y.exported = b
        /\ y.imported = e.imported /\ y.type = e.type
        /\ y.lim = e.lim /\ y.locals = e.locals /\ y.declared = e.declared
        /\ y.code = e.code
    BY <2>1, <2>2, OnlyMarked
  <2> QED  BY <2>3 DEF e, b, y
<1>11. ASSUME NEW k \in Kinds
       PROVE  /\ VecOk(ents'[k], EntityRecords) /\ ents'[k].data = d(k)
              /\ ents'[k].fixed = ents[k].fixed /\ ents'[k].capacity = ents[k].capacity
              /\ Len(d(k)) = Len(ents[k].data) /\ DOMAIN d(k) = DOMAIN ents[k].data
  <2>1. VecOk(ents[k], EntityRecords) /\ ents[k].data \in Seq(EntityRecords)
    BY <1>3 DEF TypeParts, VecOk, Vecs
  <2>2. /\ d(k) \in Seq(EntityRecords) /\ Len(d(k)) = Len(ents[k].data)
        /\ DOMAIN d(k) = DOMAIN ents[k].data
    <3> DEFINE a == ents[k].data
               c == d(k)
    <3>1. a \in Seq(EntityRecords) /\ c = [i \in DOMAIN a |-> c[i]]
          /\ \A i \in DOMAIN a : c[i] \in EntityRecords
      BY <2>1, <1>8, <1>10
    <3> HIDE DEF a, c
    <3>2. c \in Seq(EntityRecords) /\ Len(c) = Len(a) /\ DOMAIN c = DOMAIN a
      BY <3>1, SamePlaces
    <3> QED  BY <3>2 DEF a, c
  <2>3. ents'[k] = WithData(ents[k], d(k))  BY <1>6
  <2> QED  BY <2>1, <2>2, <2>3, WithDataOk
<1>12. TypeParts'
  BY <1>2, <1>3, <1>5, <1>9, <1>11 DEF TypeParts, parse_section_export
<1>13. FilledOnce' /\ OwnersFixed' /\ DataCounted' /\ Shaped'
  <2>1. FilledOnce' /\ DataCounted' /\ Shaped'
    BY <1>5 DEF ModuleInv, Filled, FilledOnce, DataCounted, Shaped, Fresh,
                parse_section_export
  <2>2. OwnersFixed'  BY <1>11 DEF ModuleInv, Filled, OwnersFixed, parse_section_export
  <2> QED  BY <2>1, <2>2
<1>14. Keeping  BY <1>10, <1>11 DEF Keeping, parse_section_export
<1>15. Startable' /\ ItemsName'
  BY <1>3, <1>14, NamesKept DEF parse_section_export
<1>16. "func" \in Kinds  BY DEF Kinds
<1>17. Typed'
  <2> SUFFICES ASSUME NEW i \in DOMAIN ents'["func"].data
               PROVE  LET f == ents'["func"].data[i]
                      IN  /\ f.type \in DOMAIN func_types.data
                          /\ ~f.imported =>
                               LET n == func_types.data[f.type].params + f.declared
                               IN  n <= U32_MAX => f.locals = n
                          /\ ~f.imported /\ ~f.code =>
                               f.locals = func_types.data[f.type].params
    BY DEF Typed, LocalsCounted, parse_section_export
  <2> QED  BY <1>3, <1>10, <1>11, <1>16 DEF Closed, Typed, LocalsCounted
<1>18. OneBody'
  BY <1>3, <1>10, <1>11, <1>16 DEF Closed, OneBody
<1>19. Limited'  BY <1>3, <1>10, <1>11 DEF Closed, Limited
<1>20. Marked'  BY <1>5, <1>x, <1>10, <1>11 DEF Marked
<1>21. ExportsName'
  <2> SUFFICES ASSUME NEW i \in DOMAIN s
               PROVE  s[i].at \in DOMAIN ents'[s[i].kind].data
    BY <1>5 DEF ExportsName
  <2>1. s[i].kind \in Kinds /\ s[i].at \in Nat /\ s[i].at >= 1
        /\ s[i].at <= Len(ents[s[i].kind].data)
    BY <1>1, <1>4 DEF InRange
  <2>2. ents[s[i].kind].data \in Seq(EntityRecords)
    BY <2>1, <1>3 DEF TypeParts, VecOk, Vecs
  <2>3. s[i].at \in DOMAIN ents[s[i].kind].data  BY <2>1, <2>2
  <2> QED  BY <2>1, <2>3, <1>11
<1>22. FixedStays  BY <1>11 DEF FixedStays, parse_section_export
<1> QED  BY <1>2, <1>12, <1>13, <1>15, <1>17, <1>18, <1>19, <1>20, <1>21, <1>22
         DEF Filled, Closed

\* Bodies are read for all functions of the module at once.
LEMMA CodeFills ==
  ASSUME ModuleInv, parse_section_code
  PROVE  Filled' /\ FixedStays
<1> DEFINE fs == ents["func"].data
           own == (imported_count["func"] + 1)..Len(fs)
<1>1. PICK declared \in [own -> 0..U32_MAX] :
        ents' = [ents EXCEPT !["func"] = WithData(@,
          [i \in DOMAIN fs |->
             IF i \in own THEN WithBody(fs[i], declared[i]) ELSE fs[i]])]
  BY DEF parse_section_code
<1>2. /\ status' = status /\ current_order_idx' \in 1..13 /\ DataLast'
  BY SectionMoves, DataStaysLast DEF ModuleInv, Filled, parse_section_code
<1>3. TypeParts /\ Closed  BY DEF ModuleInv, Filled
<1>4. "func" \in Kinds  BY DEF Kinds
<1>5. VecOk(ents["func"], EntityRecords) /\ fs \in Seq(EntityRecords)
  BY <1>3, <1>4 DEF TypeParts, VecOk, Vecs
<1> DEFINE d == [i \in DOMAIN fs |->
             IF i \in own THEN WithBody(fs[i], declared[i]) ELSE fs[i]]
<1>6. /\ ents'["func"] = WithData(ents["func"], d)
      /\ \A k \in Kinds \ {"func"} : ents'[k] = ents[k]
      /\ ents' = [k \in Kinds |-> ents'[k]]
  BY <1>1, <1>3, <1>4 DEF TypeParts
<1>7. \A i \in own : declared[i] \in 0..U32_MAX /\ declared[i] \in Nat
  BY ParserAssumption
<1>8. \A i \in DOMAIN fs : ~fs[i].imported => i \in own
  <2>1. imported_count["func"] \in Nat  BY <1>3, <1>4 DEF TypeParts
  <2>2. \A i \in DOMAIN fs : i \in 1..Len(fs)  BY <1>5
  <2>3. \A i \in DOMAIN fs : ~fs[i].imported => ~(i <= imported_count["func"])
    BY <1>4 DEF ModuleInv, PInv, ImportsFirst
  <2>4. \A i \in DOMAIN fs : ~fs[i].imported => i \in own
    <3> TAKE i \in DOMAIN fs
    <3> HAVE ~fs[i].imported
    <3> QED  BY <2>1, <2>2, <2>3, <1>5
  <2> QED  BY <2>4
<1> HIDE DEF own, fs
<1>9. ASSUME NEW j \in DOMAIN fs
      PROVE  /\ d[j] \in EntityRecords /\ d[j].imported = fs[j].imported
             /\ d[j].type = fs[j].type /\ d[j].lim = fs[j].lim
             /\ d[j].exported = fs[j].exported
             /\ ~fs[j].imported =>
                  /\ d[j].code = TRUE /\ d[j].declared = declared[j]
                  /\ d[j].locals = (fs[j].locals + declared[j]) % (U32_MAX + 1)
  <2>1. fs[j] \in EntityRecords /\ fs[j].locals \in Nat  BY <1>5, LocalsNumber
  <2>2. CASE j \in own
    <3>1. declared[j] \in Nat  BY <2>2, <1>7
    <3>2. d[j] = WithBody(fs[j], declared[j])  BY <2>2, Zenon
    <3> DEFINE y == d[j]
               e == fs[j]
               n == declared[j]
    <3>3. y = WithBody(e, n) /\ e \in EntityRecords /\ n \in Nat  BY <3>1, <3>2, <2>1
    <3> HIDE DEF d, e, n, y
    <3>4. /\ y \in EntityRecords /\ y.imported = e.imported /\ y.type = e.type
          /\ y.lim = e.lim /\ y.exported = e.exported /\ y.code = TRUE
          /\ y.declared = n /\ y.locals = (e.locals + n) % (U32_MAX + 1)
      BY <3>3, Given, ZenonT(30)
    <3> QED  BY <3>4 DEF e, n, y
  <2>3. CASE j \notin own
    <3>1. d[j] = fs[j] /\ fs[j].imported \in BOOLEAN  BY <2>1, <2>3 DEF EntityRecords
    <3>2. fs[j].imported  BY <2>3, <1>8
    <3> HIDE DEF d
    <3> QED  BY <3>1, <3>2, <2>1
  <2> QED  BY <2>2, <2>3
<1>10. d = [i \in DOMAIN fs |-> d[i]]  BY Zenon
<1> HIDE DEF d
<1>11. d \in Seq(EntityRecords) /\ Len(d) = Len(fs) /\ DOMAIN d = DOMAIN fs
  BY <1>5, <1>9, <1>10, SamePlaces
<1>12. /\ VecOk(ents'["func"], EntityRecords) /\ ents'["func"].data = d
       /\ ents'["func"].fixed = ents["func"].fixed
       /\ ents'["func"].capacity = ents["func"].capacity
  BY <1>5, <1>6, <1>11, WithDataOk DEF fs
<1>13. \A k \in Kinds : VecOk(ents'[k], EntityRecords)  BY <1>3, <1>6, <1>12 DEF TypeParts
<1>14. TypeParts'
  BY <1>2, <1>3, <1>6, <1>13 DEF TypeParts, parse_section_code
<1>15. FilledOnce' /\ DataCounted' /\ Shaped'
  BY DEF ModuleInv, Filled, FilledOnce, DataCounted, Shaped, Fresh, parse_section_code
<1>16. OwnersFixed'
  <2> SUFFICES ASSUME NEW k \in Kinds, imported_count'[k] < Len(ents'[k].data)
               PROVE  ents'[k].fixed
    BY DEF OwnersFixed
  <2>1. Len(ents'[k].data) = Len(ents[k].data) /\ ents'[k].fixed = ents[k].fixed
    BY <1>6, <1>11, <1>12 DEF fs
  <2> QED  BY <2>1 DEF ModuleInv, Filled, OwnersFixed, parse_section_code
<1>17. Keeping  BY <1>6, <1>9, <1>11, <1>12 DEF Keeping, parse_section_code, fs
<1>18. ExportsName' /\ Startable' /\ ItemsName'
  BY <1>3, <1>17, NamesKept DEF parse_section_code
<1>19. Typed'
  <2> SUFFICES ASSUME NEW i \in DOMAIN fs
               PROVE  /\ d[i].type \in DOMAIN func_types.data
                      /\ ~d[i].imported =>
                           LET n == func_types.data[d[i].type].params + d[i].declared
                           IN  n <= U32_MAX => d[i].locals = n
                      /\ ~d[i].imported /\ ~d[i].code =>
                           d[i].locals = func_types.data[d[i].type].params
    BY <1>11, <1>12 DEF Typed, LocalsCounted, parse_section_code
  <2>1. /\ fs[i].type \in DOMAIN func_types.data
        /\ ~fs[i].imported /\ ~fs[i].code =>
             fs[i].locals = func_types.data[fs[i].type].params
    BY <1>3 DEF Closed, Typed, fs
  <2>2. func_types.data[fs[i].type].params \in Nat
    <3>1. func_types.data \in Seq(Types)  BY <1>3 DEF TypeParts, VecOk, Vecs
    <3>2. func_types.data[fs[i].type] \in Types  BY <2>1, <3>1
    <3> QED  BY <3>2, ParserAssumption
  <2>3. d[i].type = fs[i].type /\ d[i].imported = fs[i].imported  BY <1>9
  <2>4. ASSUME ~fs[i].imported
        PROVE  /\ d[i].code /\ fs[i].locals = func_types.data[fs[i].type].params
               /\ d[i].declared = declared[i] /\ declared[i] \in Nat
               /\ d[i].locals = (fs[i].locals + declared[i]) % (U32_MAX + 1)
    <3>1. i \in own  BY <2>4, <1>8
    <3>2. ~fs[i].code  BY <3>1 DEF parse_section_code, own, fs
    <3> QED  BY <3>1, <3>2, <2>1, <2>4, <1>7, <1>9
  <2>5. U32_MAX \in Nat  BY ParserAssumption
  <2>6. \A n \in 0..U32_MAX : n % (U32_MAX + 1) = n  BY <2>5
  <2>7. CASE fs[i].imported  BY <2>1, <2>3, <2>7
  <2>8. CASE ~fs[i].imported
    <3> DEFINE n == func_types.data[fs[i].type].params + declared[i]
    <3>1. n \in Nat  BY <2>2, <2>4, <2>8
    <3>2. n <= U32_MAX => n % (U32_MAX + 1) = n  BY <3>1, <2>5, <2>6
    <3> QED  BY <3>2, <2>1, <2>3, <2>4, <2>8
  <2> QED  BY <2>7, <2>8
<1>20. OneBody'  BY <1>9, <1>11, <1>12 DEF OneBody
<1>21. Limited'
  <2> SUFFICES ASSUME NEW k \in Kinds, NEW j \in DOMAIN ents'[k].data
               PROVE  ents'[k].data[j].lim.min <= ents'[k].data[j].lim.max
    BY DEF Limited
  <2>1. j \in DOMAIN ents[k].data /\ ents'[k].data[j].lim = ents[k].data[j].lim
    BY <1>6, <1>9, <1>11, <1>12 DEF fs
  <2> QED  BY <2>1, <1>3 DEF Closed, Limited
<1>22. Marked'
  <2> SUFFICES ASSUME NEW k \in Kinds, NEW j \in DOMAIN ents'[k].data
               PROVE  ents'[k].data[j].exported <=>
                        \E i \in DOMAIN exports.data :
                          exports.data[i] = [kind |-> k, at |-> j]
    BY DEF Marked, parse_section_code
  <2>1. j \in DOMAIN ents[k].data /\ ents'[k].data[j].exported = ents[k].data[j].exported
    BY <1>6, <1>9, <1>11, <1>12 DEF fs
  <2> QED  BY <2>1, <1>3 DEF Closed, Marked
<1>23. FixedStays  BY <1>6, <1>12 DEF FixedStays, parse_section_code
<1> QED  BY <1>2, <1>14, <1>15, <1>16, <1>18, <1>19, <1>20, <1>21, <1>22, <1>23
         DEF Filled, Closed

\* An element that was read: all its fields are written.
Written(el, m, n, x, y) ==
  [el EXCEPT !.mode = m, !.data_len = n, !.v_expr = x, !.v_funcidx = y]

\* The record that Written makes.
LEMMA WrittenRecord ==
  ASSUME NEW el \in ElementRecords, NEW m \in {"active", "passive", "declarative"},
         NEW n \in Nat, NEW x \in Vecs(Nat), NEW y \in Vecs(Nat)
  PROVE  LET r == Written(el, m, n, x, y)
         IN  /\ r.mode = m /\ r.data_len = n /\ r.v_funcidx = y /\ r.v_expr = x
             /\ r \in ElementRecords
<1> DEFINE r == Written(el, m, n, x, y)
<1>1. r.mode = m /\ r.data_len = n  BY Zenon DEF ElementRecords, Written
<1>2. r.v_funcidx = y /\ r.v_expr = x  BY Zenon DEF ElementRecords, Written
<1>3. r \in ElementRecords  BY Zenon DEF ElementRecords, Written
<1> QED  BY <1>1, <1>2, <1>3

\* What is true of every element: each of its vectors is empty until it is fixed,
\* the length is that of the one vector that was read, and indices name functions
\* of F.
ElementGood(el, F) ==
  /\ el \in ElementRecords /\ Fresh(el.v_funcidx) /\ Fresh(el.v_expr)
  /\ ~(el.v_funcidx.fixed /\ el.v_expr.fixed) =>
       el.data_len = Len(el.v_funcidx.data) + Len(el.v_expr.data)
  /\ \A i \in DOMAIN el.v_funcidx.data : el.v_funcidx.data[i] \in F

\* A new element is good.
LEMMA NewElementGood == ASSUME NEW F PROVE ElementGood(NewElement, F)
<1>1. << >> \in Seq(Nat) /\ Len(<< >>) = 0 /\ DOMAIN << >> = {}  OBVIOUS
<1>2. EmptyVec \in Vecs(Nat) /\ EmptyVec.data = << >> /\ ~EmptyVec.fixed
  BY DEF EmptyVec, Vector, Vecs
<1>3. NewElement \in ElementRecords  BY <1>2 DEF NewElement, ElementRecords
<1>4. NewElement.v_funcidx = EmptyVec /\ NewElement.v_expr = EmptyVec
      /\ NewElement.data_len = 0
  BY DEF NewElement
<1> QED  BY <1>1, <1>2, <1>3, <1>4 DEF ElementGood, Fresh

\* Reading an empty vector of an element.
LEMMA ReadFills ==
  ASSUME NEW v \in Vecs(Nat), Fresh(v), CanReserve(v), NEW s \in Seq(Nat)
  PROVE  LET w == vec_push_all(ReserveFixed(v, Len(s)), s)
         IN  w \in Vecs(Nat) /\ w.data = s /\ w.fixed = TRUE /\ v.data = << >>
<1>1. v.data = << >> /\ v.capacity \in Nat  BY DEF Fresh, CanReserve, Vecs
<1>2. VecOk(v, Nat)  BY <1>1 DEF VecOk, HasRoom
<1>3. Len(s) \in Nat  OBVIOUS
<1> DEFINE w == vec_push_all(ReserveFixed(v, Len(s)), s)
<1>4. VecOk(w, Nat) /\ w.data = v.data \o s /\ w.fixed = TRUE
  BY <1>2, <1>3, FillOk
<1> HIDE DEF w
<1>5. w.data = s  BY <1>1, <1>4
<1> QED  BY <1>1, <1>4, <1>5 DEF VecOk, w

\* The entries of the element section.
LEMMA EntryItems ==
  ASSUME NEW entry \in Entries
  PROVE  /\ entry.items \in Seq(Nat) /\ entry.kind \in 0..7
         /\ \A i \in DOMAIN entry.items : entry.items[i] \in Nat /\ entry.items[i] >= 1
<1>1. Named \subseteq Nat \ {0} /\ {1} \subseteq Nat \ {0}
  BY ParserAssumption DEF Named
<1>2. PICK S \in {Named, {1}} : entry.items \in Lists(S) /\ entry.kind \in 0..7
  BY DEF Entries
<1>3. S \subseteq Nat \ {0}  BY <1>1, <1>2
<1>4. entry.items \in Seq(S)  BY <1>2, ListsAreSequences
<1>5. entry.items \in Seq(Nat) /\ \A i \in DOMAIN entry.items : entry.items[i] \in S
  <2> DEFINE t == entry.items
  <2>1. t \in Seq(S)  BY <1>4
  <2> HIDE DEF t
  <2>2. \A z \in S : z \in Nat  BY <1>3
  <2>3. t \in Seq(Nat)  BY <2>1, <2>2
  <2>4. \A i \in DOMAIN t : t[i] \in S  BY <2>1
  <2> QED  BY <2>3, <2>4 DEF t
<1> QED  BY <1>2, <1>3, <1>5

\* Reading an entry leaves a good element.
LEMMA ReadGood ==
  ASSUME TypeParts, NEW entry \in Entries, NEW el,
         ElementGood(el, DOMAIN ents["func"].data), CanRead(el, entry)
  PROVE  ElementGood(ReadElement(el, entry), DOMAIN ents["func"].data)
<1> DEFINE F == DOMAIN ents["func"].data
           read(v) == vec_push_all(ReserveFixed(v, Len(entry.items)), entry.items)
           x == IF IsExpr(entry.kind) THEN read(el.v_expr) ELSE el.v_expr
           y == IF IsExpr(entry.kind) THEN el.v_funcidx ELSE read(el.v_funcidx)
           m == ElemMode(entry.kind)
           n == Len(entry.items)
           r == ReadElement(el, entry)
<1>1. /\ entry.items \in Seq(Nat) /\ n \in Nat
      /\ \A i \in DOMAIN entry.items : entry.items[i] \in Nat /\ entry.items[i] >= 1
  BY EntryItems
<1>2. m \in {"active", "passive", "declarative"}  BY DEF ElemMode
<1>3. /\ el \in ElementRecords /\ el.v_expr \in Vecs(Nat) /\ el.v_funcidx \in Vecs(Nat)
      /\ Fresh(el.v_funcidx) /\ Fresh(el.v_expr)
  BY DEF ElementGood, ElementRecords
<1>4. r = Written(el, m, n, x, y)  BY <1>3 DEF ReadElement, Written
<1>5. CASE IsExpr(entry.kind)
  <2>1. CanReserve(el.v_expr)  BY <1>5 DEF CanRead
  <2>2. x \in Vecs(Nat) /\ x.data = entry.items /\ x.fixed = TRUE
    BY <1>1, <1>3, <1>5, <2>1, ReadFills
  <2>3. y = el.v_funcidx  BY <1>5
  <2> HIDE DEF x, y, m, n, r
  <2>4. x \in Vecs(Nat) /\ y \in Vecs(Nat)  BY <1>3, <2>2, <2>3
  <2>5. /\ r.mode = m /\ r.data_len = n /\ r.v_funcidx = y /\ r.v_expr = x
        /\ r \in ElementRecords
    <3>1. n \in Nat /\ el \in ElementRecords  BY <1>1, <1>3
    <3> QED  BY <3>1, <1>2, <1>4, <2>4, WrittenRecord
  <2>6. ~y.fixed => Len(y.data) = 0  BY <1>3, <2>3 DEF Fresh
  <2>7. \A i \in DOMAIN y.data : y.data[i] \in F  BY <2>3 DEF ElementGood
  <2>8. Fresh(x) /\ Fresh(y)  BY <1>3, <2>2, <2>3 DEF Fresh
  <2>9. ~(y.fixed /\ x.fixed) => n = Len(y.data) + Len(x.data)
    <3>1. ASSUME ~y.fixed PROVE n = Len(y.data) + Len(x.data)
      <4>1. Len(y.data) = 0  BY <3>1, <2>6
      <4>2. Len(x.data) = n /\ n \in Nat  BY <1>1, <2>2 DEF n
      <4> QED  BY <4>1, <4>2
    <3> QED  BY <3>1, <2>2
  <2> QED  BY <2>5, <2>7, <2>8, <2>9 DEF ElementGood, r
<1>6. CASE ~IsExpr(entry.kind)
  <2>1. /\ CanReserve(el.v_funcidx)
        /\ \A i \in DOMAIN entry.items : InRange("func", entry.items[i])
    BY <1>6 DEF CanRead
  <2>2. y \in Vecs(Nat) /\ y.data = entry.items /\ y.fixed = TRUE
    BY <1>1, <1>3, <1>6, <2>1, ReadFills
  <2>3. x = el.v_expr  BY <1>6
  <2> HIDE DEF x, y, m, n, r
  <2>4. x \in Vecs(Nat) /\ y \in Vecs(Nat)  BY <1>3, <2>2, <2>3
  <2>5. /\ r.mode = m /\ r.data_len = n /\ r.v_funcidx = y /\ r.v_expr = x
        /\ r \in ElementRecords
    <3>1. n \in Nat /\ el \in ElementRecords  BY <1>1, <1>3
    <3> QED  BY <3>1, <1>2, <1>4, <2>4, WrittenRecord
  <2>6. ~x.fixed => Len(x.data) = 0  BY <1>3, <2>3 DEF Fresh
  <2>7. \A i \in DOMAIN y.data : y.data[i] \in F
    <3>1. ents["func"].data \in Seq(EntityRecords)
      BY DEF TypeParts, VecOk, Vecs, Kinds
    <3> QED  BY <3>1, <1>1, <2>1, <2>2 DEF InRange
  <2>8. Fresh(x) /\ Fresh(y)  BY <1>3, <2>2, <2>3 DEF Fresh
  <2>9. ~(y.fixed /\ x.fixed) => n = Len(y.data) + Len(x.data)
    <3>1. ASSUME ~x.fixed PROVE n = Len(y.data) + Len(x.data)
      <4>1. Len(x.data) = 0  BY <3>1, <2>6
      <4>2. Len(y.data) = n /\ n \in Nat  BY <1>1, <2>2 DEF n
      <4> QED  BY <4>1, <4>2
    <3> QED  BY <3>1, <2>2
  <2> QED  BY <2>5, <2>7, <2>8, <2>9 DEF ElementGood, r
<1> QED  BY <1>5, <1>6

\* Elements are read into the places of earlier ones, and into new ones.
LEMMA ElementFills ==
  ASSUME ModuleInv, parse_section_element
  PROVE  Filled' /\ FixedStays
<1> DEFINE F == DOMAIN ents["func"].data
           sized(s) == vec_resize(elements, Len(s), NewElement)
<1>1. PICK s \in Lists(Entries) :
       /\ CanResize(elements, Len(s))
       /\ \A i \in DOMAIN s : CanRead(sized(s).data[i], s[i])
       /\ elements' = Vector([i \in DOMAIN s |-> ReadElement(sized(s).data[i], s[i])],
                             sized(s).capacity, TRUE)
  BY DEF parse_section_element
<1>2. /\ status' = status /\ current_order_idx' \in 1..13 /\ DataLast'
  BY SectionMoves, DataStaysLast DEF ModuleInv, Filled, parse_section_element
<1>3. TypeParts /\ Closed  BY DEF ModuleInv, Filled
<1>4. s \in Seq(Entries) /\ Len(s) \in Nat /\ DOMAIN s = 1..Len(s)
  <2>1. s \in Seq(Entries)  BY ListsAreSequences
  <2> QED  BY <2>1
<1>5. /\ elements.data \in Seq(ElementRecords) /\ elements.capacity \in Nat
      /\ Len(elements.data) <= elements.capacity
  BY <1>3 DEF TypeParts, VecOk, Vecs, HasRoom
<1> DEFINE was == sized(s).data
           c == sized(s).capacity
           now == [i \in DOMAIN s |-> ReadElement(was[i], s[i])]
<1>6. \A i \in DOMAIN s :
        was[i] = IF i \in DOMAIN elements.data THEN elements.data[i] ELSE NewElement
  BY <1>4 DEF vec_resize, Vector
<1>7. c = Max({elements.capacity, Len(s)})  BY DEF vec_resize, Vector
<1>8. /\ c \in Nat /\ c >= Len(s)
      /\ elements.fixed => c = elements.capacity
  <2>1. c \in Nat /\ c >= Len(s)  BY <1>4, <1>5, <1>7, MaxOfTwo
  <2>2. ASSUME elements.fixed PROVE c = elements.capacity
    <3>1. Len(s) <= elements.capacity  BY <1>1, <2>2 DEF CanResize
    <3> QED  BY <3>1, <1>4, <1>5, <1>7, MaxOfTwo
  <2> QED  BY <2>1, <2>2
<1>9. elements' = Vector(now, c, TRUE)  BY <1>1
<1>10. ASSUME NEW i \in DOMAIN s
       PROVE  CanRead(was[i], s[i]) /\ s[i] \in Entries
  BY <1>1, <1>4
<1> HIDE DEF sized, was, c
<1>11. ASSUME NEW i \in DOMAIN s
       PROVE  ElementGood(was[i], F)
  <2>1. CASE i \in DOMAIN elements.data
    <3>1. was[i] = elements.data[i] /\ elements.data[i] \in ElementRecords
      BY <2>1, <1>5, <1>6
    <3>2. Fresh(elements.data[i].v_funcidx) /\ Fresh(elements.data[i].v_expr)
      BY <2>1 DEF ModuleInv, Filled, FilledOnce
    <3>3. LET el == elements.data[i]
          IN  ~(el.v_funcidx.fixed /\ el.v_expr.fixed) =>
                el.data_len = Len(el.v_funcidx.data) + Len(el.v_expr.data)
      BY <2>1 DEF ModuleInv, Filled, Shaped
    <3>4. \A j \in DOMAIN elements.data[i].v_funcidx.data :
            elements.data[i].v_funcidx.data[j] \in F
      BY <2>1, <1>3 DEF Closed, ItemsName
    <3> QED  BY <3>1, <3>2, <3>3, <3>4 DEF ElementGood
  <2>2. CASE i \notin DOMAIN elements.data
    <3>1. was[i] = NewElement  BY <2>2, <1>6
    <3> QED  BY <3>1, NewElementGood
  <2> QED  BY <2>1, <2>2
<1>12. \A i \in DOMAIN s : now[i] = ReadElement(was[i], s[i])  OBVIOUS
<1>13. now = [i \in DOMAIN s |-> now[i]]  OBVIOUS
<1> HIDE DEF now
<1>14. ASSUME NEW i \in DOMAIN s
       PROVE  ElementGood(now[i], F) /\ now[i] \in ElementRecords
  <2>1. ElementGood(ReadElement(was[i], s[i]), F)
    BY <1>3, <1>10, <1>11, ReadGood
  <2>2. ElementGood(now[i], F)  BY <2>1, <1>12
  <2> QED  BY <2>2 DEF ElementGood
<1>15. now \in Seq(ElementRecords) /\ Len(now) = Len(s) /\ DOMAIN now = DOMAIN s
  <2>1. now \in [1..Len(s) -> ElementRecords]  BY <1>4, <1>13, <1>14
  <2> QED  BY <2>1, <1>4
<1>16. elements'.data = now /\ elements'.capacity = c /\ elements'.fixed = TRUE
       /\ VecOk(elements', ElementRecords)
  BY <1>8, <1>9, <1>15 DEF Vector, VecOk, Vecs, HasRoom
<1>17. TypeParts'
  BY <1>2, <1>3, <1>16 DEF TypeParts, parse_section_element
<1>18. FilledOnce'
  <2>1. \A i \in DOMAIN elements'.data : ElementGood(elements'.data[i], F)
    BY <1>14, <1>15, <1>16
  <2> QED  BY <2>1 DEF ModuleInv, Filled, FilledOnce, Fresh, parse_section_element,
                       ElementGood
<1>19. Shaped'  BY <1>14, <1>15, <1>16 DEF Shaped, ElementGood
<1>20. ItemsName'
  BY <1>14, <1>15, <1>16 DEF ItemsName, ElementGood, parse_section_element
<1>21. OwnersFixed' /\ DataCounted'
  BY DEF ModuleInv, Filled, OwnersFixed, DataCounted, parse_section_element
<1>22. Typed' /\ OneBody' /\ Limited' /\ Marked' /\ ExportsName' /\ Startable'
  BY <1>3 DEF Closed, Typed, LocalsCounted, OneBody, Limited, Marked, ExportsName, Startable,
              parse_section_element
<1>23. FixedStays  BY <1>8, <1>16 DEF FixedStays, parse_section_element
<1> QED  BY <1>2, <1>17, <1>18, <1>19, <1>20, <1>21, <1>22, <1>23 DEF Filled, Closed

\* Every step of the parser keeps what the sections filled.
LEMMA StepFills == ModuleInv /\ [Next]_vars => ModuleInv' /\ (FixedStays \/ UNCHANGED vars)
<1> SUFFICES ASSUME ModuleInv, [Next]_vars
             PROVE  ModuleInv' /\ (FixedStays \/ UNCHANGED vars)
  OBVIOUS
<1>0. PInv'  BY StepKeeps DEF ModuleInv
<1>u. ASSUME UNCHANGED vars PROVE Filled'
  <2>1. TypeParts' /\ DataLast'
    BY <1>u DEF vars, ModuleInv, Filled, TypeParts, DataLast
  <2> QED  BY <1>u, <2>1, NothingFilled DEF vars
<1> SUFFICES Filled' /\ (FixedStays \/ UNCHANGED vars)
  BY <1>0 DEF ModuleInv
<1>1. CASE EmptySection
  <2>1. PICK name : Section(name)  BY <1>1 DEF EmptySection
  <2>2. /\ status' = status /\ current_order_idx' \in 1..13 /\ DataLast'
    BY <1>1, <2>1, SectionMoves, DataStaysLast DEF ModuleInv, Filled, EmptySection
  <2>3. TypeParts'  BY <1>1, <2>2 DEF ModuleInv, Filled, TypeParts, EmptySection
  <2> QED  BY <1>1, <2>2, <2>3, NothingFilled DEF EmptySection
<1>2. CASE parse_section_custom \/ Ended
  BY <1>2, <1>u DEF parse_section_custom, Ended
<1>3. CASE parse_section_type  BY <1>3, TypeFills
<1>4. CASE parse_section_import  BY <1>4, ImportFills
<1>5. CASE parse_section_function \/ parse_section_table \/ parse_section_memory
           \/ parse_section_global
  BY <1>5, DefineFills
     DEF parse_section_function, parse_section_table, parse_section_memory,
         parse_section_global, Kinds
<1>6. CASE parse_section_export  BY <1>6, ExportFills
<1>7. CASE parse_section_start  BY <1>7, StartFills
<1>8. CASE parse_section_element  BY <1>8, ElementFills
<1>9. CASE parse_section_data_count  BY <1>9, DataCountFills
<1>10. CASE parse_section_code  BY <1>10, CodeFills
<1>11. CASE parse_section_data  BY <1>11, DataFills
<1>12. CASE Accept \/ Reject
  <2>1. TypeParts' /\ DataLast'
    BY <1>12 DEF ModuleInv, Filled, TypeParts, DataLast, Accept, Reject
  <2> QED  BY <1>12, <2>1, NothingFilled DEF Accept, Reject
<1>13. CASE UNCHANGED vars  BY <1>13, <1>u
<1> QED  BY <1>1, <1>2, <1>3, <1>4, <1>5, <1>6, <1>7, <1>8, <1>9, <1>10, <1>11,
            <1>12, <1>13 DEF Next

\* At first nothing is filled.
LEMMA InitFilled == Init => Filled
<1> SUFFICES ASSUME Init PROVE Filled
  OBVIOUS
<1>1. \A S : << >> \in Seq(S)  OBVIOUS
<1>2. Len(<< >>) = 0 /\ DOMAIN << >> = {}  OBVIOUS
<1>3. EmptyVec.data = << >> /\ ~EmptyVec.fixed
  BY DEF EmptyVec, Vector
<1>4. ASSUME NEW S PROVE VecOk(EmptyVec, S)
  <2>1. << >> \in Seq(S)  BY <1>1
  <2>2. EmptyVec \in Vecs(S)  BY <2>1 DEF EmptyVec, Vector, Vecs
  <2>3. HasRoom(EmptyVec)  BY <1>2 DEF HasRoom, EmptyVec, Vector
  <2> QED  BY <2>2, <2>3 DEF VecOk
<1>5. \A k \in Kinds : ents[k] = EmptyVec  BY DEF Init
<1>6. ents = [k \in Kinds |-> ents[k]]  BY DEF Init
<1>7. TypeParts
  <2>1. /\ VecOk(func_types, Types) /\ VecOk(exports, ExportRecords)
        /\ VecOk(elements, ElementRecords) /\ VecOk(data, BOOLEAN)
    BY <1>4 DEF Init
  <2>2. \A k \in Kinds : VecOk(ents[k], EntityRecords)  BY <1>4, <1>5
  <2>3. /\ status \in {"parsing", "ok", "err"} /\ current_order_idx \in 1..13
        /\ imported_count \in [Kinds -> Nat]
        /\ start_funcidx \in Nat /\ data_count \in Nat \cup {-1}
    BY DEF Init
  <2> QED  BY <2>1, <2>2, <2>3, <1>6 DEF TypeParts
<1>8. FilledOnce  BY <1>2, <1>3 DEF FilledOnce, Fresh, Init
<1>9. OwnersFixed
  <2>1. \A k \in Kinds : Len(ents[k].data) = 0 /\ imported_count[k] = 0
    BY <1>2, <1>3, <1>5 DEF Init
  <2> QED  BY <2>1 DEF OwnersFixed
<1>10. DataLast /\ DataCounted  BY <1>3 DEF DataLast, DataCounted, Init
<1>11. Shaped  BY <1>2, <1>3 DEF Shaped, Init
<1>12. Closed
  <2>1. \A k \in Kinds : DOMAIN ents[k].data = {}  BY <1>2, <1>3, <1>5
  <2>2. DOMAIN exports.data = {} /\ DOMAIN elements.data = {} /\ start_funcidx = 0
    BY <1>2, <1>3 DEF Init
  <2>3. "func" \in Kinds  BY DEF Kinds
  <2> QED  BY <2>1, <2>2, <2>3
       DEF Closed, Typed, OneBody, Limited, Marked, ExportsName, Startable, ItemsName
<1> QED  BY <1>7, <1>8, <1>9, <1>10, <1>11, <1>12 DEF Filled

\* A module that satisfies the invariant is closed.
LEMMA ClosedModule == ModuleInv => ModuleClosed
<1> SUFFICES ASSUME Closed PROVE ModuleClosed
  BY DEF ModuleInv, Filled
<1>1. Typed /\ OneBody /\ Limited /\ Marked /\ ExportsName /\ Startable /\ ItemsName
  BY DEF Closed
<1> QED  BY <1>1 DEF ModuleClosed, Typed, LocalsCounted, OneBody, Limited, Marked,
                     ExportsName, Startable, ItemsName

\* The invariant of the parser, for all types, limits and bounds.
LEMMA ModuleInvHolds == Spec => []ModuleInv
<1>1. Init => PInv  BY InitPInv
<1>2. Init => ModuleInv  BY <1>1, InitFilled DEF ModuleInv
<1>3. ModuleInv /\ [Next]_vars => ModuleInv'  BY StepFills
<1> QED  BY <1>2, <1>3, PTL DEF Spec

\* Every vector of the module record holds elements of its type and has room for
\* them, whatever sections come and however often: vec_is_valid, which every
\* operation of vec_impl.h asserts.
THEOREM VectorsHaveRoom == Spec => []ParserTypeOK
<1>1. ModuleInv => ParserTypeOK  BY TypedParts DEF ModuleInv, Filled
<1> QED  BY <1>1, ModuleInvHolds, PTL

\* A module that the parser accepts is closed: every index in it names something,
\* functions have types, all bodies or none, and as many locals as parameters and
\* declared locals together where a u32 holds that number, limits are in order and
\* exactly the exported entities are marked, which validation, linking and
\* instantiation rely on without looking again.
THEOREM AcceptedModulesClosed == Spec => []ModuleClosed
BY ModuleInvHolds, ClosedModule, PTL

\* After the data section the module has the number of segments that it
\* announces, whatever follows.
THEOREM SegmentsCounted == Spec => []DataCounted
<1>1. ModuleInv => DataCounted  BY DEF ModuleInv, Filled
<1> QED  BY <1>1, ModuleInvHolds, PTL

\* The length of an element is that of the vector it was read into, which vm.c
\* asserts, unless both of its vectors were read.
THEOREM ElementsShaped == Spec => []ElementShape
<1>1. ModuleInv => ElementShape  BY DEF ModuleInv, Filled, Shaped, ElementShape
<1> QED  BY <1>1, ModuleInvHolds, PTL

\* A vector that a section has fixed keeps its allocation, so that pointers into
\* it stay good whatever sections follow.
THEOREM FixedVectorsStay == Spec => Pinned
<1>1. ModuleInv /\ [Next]_vars => [FixedStays]_vars  BY StepFills
<1> QED  BY <1>1, ModuleInvHolds, PTL DEF Spec, Pinned
=============================================================================
