-------------------------- MODULE SoundnessProofs --------------------------
(***************************************************************************)
(* Type soundness: wherever an activation of an accepted function gets to, *)
(* its stack holds the types that the validator saw there.                 *)
(***************************************************************************)
EXTENDS InterpProofs

----------------------------------------------------------------------------
(***************************************************************************)
(* Stacks as sequences.                                                    *)
(***************************************************************************)
\* Two stacks that agree up to a height.
LEMMA SamePrefix ==
  ASSUME NEW S, NEW s \in Seq(S), NEW t \in Seq(S), NEW m \in Nat,
         m <= Len(s), m <= Len(t), \A i \in 1..m : s[i] = t[i]
  PROVE  SubSeq(s, 1, m) = SubSeq(t, 1, m)
  <1>1. m \in 0..Len(s) /\ m \in 0..Len(t)
    OBVIOUS
  <1>2. /\ SubSeq(s, 1, m) \in Seq(S) /\ Len(SubSeq(s, 1, m)) = m
        /\ \A i \in 1..m : SubSeq(s, 1, m)[i] = s[i]
        /\ SubSeq(t, 1, m) \in Seq(S) /\ Len(SubSeq(t, 1, m)) = m
        /\ \A i \in 1..m : SubSeq(t, 1, m)[i] = t[i]
    BY <1>1, Lower
  <1> QED BY <1>2, SeqEqual

\* A stack with u on top, with u taken off and pushed again.
LEMMA Glue ==
  ASSUME NEW S, NEW s \in Seq(S), NEW u \in Seq(S), Len(u) <= Len(s),
         \A i \in 1..Len(u) : s[Len(s) - Len(u) + i] = u[i]
  PROVE  /\ SubSeq(s, 1, Len(s) - Len(u)) \o u = s
         /\ SubSeq(s, Len(s) - Len(u) + 1, Len(s)) = u
  <1> DEFINE n == Len(u)
             m == Len(s) - n
             b == SubSeq(s, 1, m)
             c == SubSeq(s, Len(s) - n + 1, Len(s))
  <1>1. n \in Nat /\ m \in Nat /\ Len(s) = m + n /\ n \in 0..Len(s) /\ m \in 0..Len(s)
    OBVIOUS
  <1>2. b \in Seq(S) /\ Len(b) = m /\ \A i \in 1..m : b[i] = s[i]
    BY <1>1, Lower
  <1>3. c \in Seq(S) /\ Len(c) = n /\ \A i \in 1..n : c[i] = s[Len(s) - n + i]
    BY <1>1, Upper
  <1>4. c = u
    <2>1. \A i \in 1..n : c[i] = u[i]
      BY <1>3
    <2> HIDE DEF c
    <2> QED BY <1>3, <2>1, SeqEqual
  <1>5. b \o u = s
    <2>1. \A i \in 1..n : s[m + i] = u[i]
      OBVIOUS
    <2> HIDE DEF b, m, n
    <2>2. Len(u) = n
      BY DEF n
    <2>3. /\ b \o u \in Seq(S) /\ Len(b \o u) = m + n
          /\ \A i \in 1..(m + n) : (b \o u)[i] = IF i <= m THEN b[i] ELSE u[i - m]
      BY <1>2, <2>2, ConcatProperties
    <2>4. ASSUME NEW i \in 1..(m + n)
          PROVE  (b \o u)[i] = s[i]
      <3>1. CASE i <= m
        BY <1>1, <1>2, <2>3, <3>1
      <3>2. CASE i > m
        <4>1. i - m \in 1..n /\ m + (i - m) = i /\ ~(i <= m)
          BY <1>1, <3>2
        <4> QED BY <2>1, <2>3, <4>1
      <3>3. i \in Int /\ m \in Int
        BY <1>1
      <3>4. i <= m \/ i > m
        BY <3>3
      <3> QED BY <3>1, <3>2, <3>4
    <2> QED BY <1>1, <2>3, <2>4, SeqEqual
  <1> QED BY <1>4, <1>5

Front(T) == SubSeq(T, 1, Len(T) - 1)

----------------------------------------------------------------------------
(***************************************************************************)
(* Popping in reachable code: the operands are there and, where no type is *)
(* unknown, they are what is popped.                                       *)
(***************************************************************************)
LEMMA PopLive ==
  ASSUME NEW vs \in Seq(StackTypes), NEW fr \in Frames, fr.height <= Len(vs),
         ~fr.unreachable, NEW ts \in Seq(Types), CanPop(vs, fr, ts)
  PROVE  /\ Len(ts) <= Len(vs) - fr.height /\ Len(ts) <= Len(vs)
         /\ PopVals(vs, fr, ts) = SubSeq(vs, 1, Len(vs) - Len(ts))
         /\ \A i \in 1..Len(ts) : Matches(vs[Len(vs) - Len(ts) + i], ts[i])
  <1> DEFINE n == Len(vs)
             m == Len(ts)
             h == fr.height
  <1>1. n \in Nat /\ m \in Nat /\ h \in Nat /\ h <= n
    BY DEF Frames
  <1>2. m <= n - h /\ \A i \in 0..(Taken(n - h, m) - 1) : Matches(vs[n - i], ts[m - i])
    BY DEF CanPop
  <1> HIDE DEF n, m, h
  <1>3. Taken(n - h, m) = m
    BY <1>1, <1>2 DEF Taken
  <1>4. ASSUME NEW i \in 1..m
        PROVE  Matches(vs[n - m + i], ts[i])
    <2>1. m - i \in 0..(m - 1) /\ n - (m - i) = n - m + i /\ m - (m - i) = i
      BY <1>1
    <2>2. Matches(vs[n - (m - i)], ts[m - (m - i)])
      BY <1>2, <1>3, <2>1
    <2> QED BY <2>1, <2>2
  <1>5. m <= n
    BY <1>1, <1>2
  <1> QED BY <1>2, <1>3, <1>4, <1>5 DEF PopVals, n, m, h

\* A value type matches itself only.
LEMMA MatchesSame ==
  ASSUME NEW a \in ValTypes, NEW b, b \in ValTypes \/ b = "i32", Matches(a, b)
  PROVE  a = b
  BY DEF Matches, ValTypes, NumTypes, RefTypes

\* On a stack of known types, what is popped is exactly what was asked for.
LEMMA PopExact ==
  ASSUME NEW vs \in Seq(StackTypes), NEW fr \in Frames, fr.height <= Len(vs),
         ~fr.unreachable, NEW ts \in Seq(ValTypes), CanPop(vs, fr, ts),
         \A i \in 1..Len(vs) : vs[i] \in ValTypes
  PROVE  /\ Len(ts) <= Len(vs) - fr.height /\ Len(ts) <= Len(vs)
         /\ PopVals(vs, fr, ts) = SubSeq(vs, 1, Len(vs) - Len(ts))
         /\ PopVals(vs, fr, ts) \o ts = vs
         /\ SubSeq(vs, Len(vs) - Len(ts) + 1, Len(vs)) = ts
  <1>1. ts \in Seq(Types) /\ ts \in Seq(StackTypes)
    BY SeqMonotonic DEF Types, StackTypes
  <1>2. /\ Len(ts) <= Len(vs) - fr.height /\ Len(ts) <= Len(vs)
        /\ PopVals(vs, fr, ts) = SubSeq(vs, 1, Len(vs) - Len(ts))
        /\ \A i \in 1..Len(ts) : Matches(vs[Len(vs) - Len(ts) + i], ts[i])
    BY <1>1, PopLive
  <1>3. ASSUME NEW i \in 1..Len(ts)
        PROVE  vs[Len(vs) - Len(ts) + i] = ts[i]
    <2>1. Len(vs) - Len(ts) + i \in 1..Len(vs) /\ ts[i] \in ValTypes
      BY <1>2
    <2> QED BY <1>2, <2>1, MatchesSame
  <1> QED BY <1>1, <1>2, <1>3, Glue

\* Popping a condition first.
LEMMA PopCondition ==
  ASSUME NEW vs \in Seq(StackTypes), NEW fr \in Frames, fr.height <= Len(vs),
         ~fr.unreachable, NEW ts \in Seq(ValTypes), CanPop(vs, fr, Append(ts, "i32"))
  PROVE  /\ Len(vs) >= 1 /\ Front(vs) \in Seq(StackTypes)
         /\ Len(Front(vs)) = Len(vs) - 1
         /\ \A i \in 1..(Len(vs) - 1) : Front(vs)[i] = vs[i]
         /\ PopVals(vs, fr, <<"i32">>) = Front(vs)
         /\ fr.height <= Len(Front(vs)) /\ CanPop(Front(vs), fr, ts)
         /\ PopVals(vs, fr, Append(ts, "i32")) = PopVals(Front(vs), fr, ts)
  <1> DEFINE n == Len(vs)
             m == Len(ts)
             us == Append(ts, "i32")
             F == Front(vs)
  <1>1. /\ us \in Seq(Types) /\ Len(us) = m + 1 /\ m \in Nat /\ n \in Nat
        /\ \A i \in 1..m : us[i] = ts[i]
    <2>1. ts \in Seq(Types) /\ "i32" \in Types
      BY SeqMonotonic DEF Types, StackTypes, ValTypes, NumTypes
    <2> QED BY <2>1
  <1>2. fr.height \in Nat
    BY DEF Frames
  <1> HIDE DEF us
  <1>3. /\ m + 1 <= n - fr.height /\ m + 1 <= n
        /\ PopVals(vs, fr, us) = SubSeq(vs, 1, n - (m + 1))
        /\ \A i \in 1..(m + 1) : Matches(vs[n - (m + 1) + i], us[i])
    <2>1. CanPop(vs, fr, us)
      BY DEF us
    <2> QED BY <1>1, <2>1, PopLive
  <1>4. F \in Seq(StackTypes) /\ Len(F) = n - 1 /\ \A i \in 1..(n - 1) : F[i] = vs[i]
    <2>1. n - 1 \in 0..Len(vs)
      BY <1>1, <1>3
    <2> QED BY <2>1, Lower DEF Front
  <1>5. PopVals(vs, fr, <<"i32">>) = F
    <2>1. Len(<<"i32">>) = 1 /\ Taken(n - fr.height, 1) = 1
      BY <1>1, <1>2, <1>3 DEF Taken
    <2> QED BY <2>1 DEF PopVals, Front
  <1> HIDE DEF F, n, m
  <1>6. fr.height <= Len(F)
    BY <1>1, <1>2, <1>3, <1>4
  <1>7. CanPop(F, fr, ts)
    <2>1. Len(F) - fr.height = n - 1 - fr.height /\ m <= n - 1 - fr.height
      BY <1>1, <1>2, <1>3, <1>4
    <2>2. Taken(n - 1 - fr.height, m) = m
      BY <2>1 DEF Taken
    <2>3. ASSUME NEW i \in 0..(m - 1)
          PROVE  Matches(F[Len(F) - i], ts[m - i])
      <3>1. m - i \in 1..m /\ n - 1 - i \in 1..(n - 1) /\ m - i \in 1..(m + 1)
        BY <1>1, <1>2, <1>3
      <3>2. n - (m + 1) + (m - i) = n - 1 - i
        BY <1>1
      <3>3. Matches(vs[n - 1 - i], us[m - i])
        BY <1>3, <3>1, <3>2
      <3> QED BY <1>1, <1>4, <3>1, <3>3
    <2> QED BY <2>1, <2>2, <2>3 DEF CanPop, m
  <1>8. PopVals(vs, fr, us) = PopVals(F, fr, ts)
    <2>1. /\ n - (m + 1) = (n - 1) - m /\ (n - 1) - m \in Nat
          /\ (n - 1) - m <= n /\ (n - 1) - m <= n - 1
      BY <1>1, <1>3
    <2>2. Taken(Len(F) - fr.height, m) = m
      BY <1>1, <1>2, <1>3, <1>4 DEF Taken
    <2>3. PopVals(F, fr, ts) = SubSeq(F, 1, (n - 1) - m)
      BY <1>4, <2>2 DEF PopVals, m
    <2>4. SubSeq(vs, 1, (n - 1) - m) = SubSeq(F, 1, (n - 1) - m)
      <3>1. \A i \in 1..((n - 1) - m) : i \in 1..(n - 1)
        BY <1>1
      <3>2. Len(vs) = n
        BY DEF n
      <3> QED BY <1>4, <2>1, <3>1, <3>2, SamePrefix
    <2> QED BY <1>3, <2>1, <2>3, <2>4
  <1> QED BY <1>1, <1>3, <1>4, <1>5, <1>6, <1>7, <1>8 DEF F, n, us

\* Taking nothing off a stack and pushing nothing.
LEMMA NoChange ==
  ASSUME NEW S, NEW s \in Seq(S)
  PROVE  /\ SubSeq(s, 1, Len(s) - 0) \o << >> = s /\ s \o << >> = s
         /\ SubSeq(s, 1, Len(s) - 0) = s
  <1>1. << >> \in Seq(S) /\ Len(<< >>) = 0 /\ Len(s) \in Nat
    OBVIOUS
  <1>2. SubSeq(s, 1, Len(s) - 0) \o << >> = s
    BY <1>1, Glue
  <1>3. SubSeq(s, 1, Len(s) - 0) \in Seq(S)
    BY <1>1, Lower
  <1> QED BY <1>2, <1>3, ConcatEmptySeq

----------------------------------------------------------------------------
(***************************************************************************)
(* How the types on the stack flow through the code: how many values an    *)
(* instruction reads, the types it leaves instead, and what the stack then *)
(* holds if it goes on behind it.                                          *)
(***************************************************************************)
Needs(ins) ==
  CASE ins.op \in {"if", "br_if", "br_table", "local_set", "local_tee"} -> 1
    [] ins.op \in {"select", "select_t"} -> 3
    [] ins.op = "call"   -> Len(Callees[ins.fn + 1].type.params)
    [] ins.op = "return" -> Len(f.type.results)
    [] ins.op \in DataOps \ {"select", "select_t"} -> DataEffect(ins).pop
    [] OTHER -> 0

Leaves(ins, T) ==
  CASE ins.op \in {"local_get", "local_tee"} -> <<LocalTypes[ins.idx + 1]>>
    [] ins.op \in {"select", "select_t"} -> <<T[Len(T) - 1]>>
    [] ins.op = "call" -> Callees[ins.fn + 1].type.results
    [] ins.op \in DataOps \ {"select", "select_t"} -> DataEffect(ins).push
    [] OTHER -> << >>

After(ins, T) == SubSeq(T, 1, Len(T) - Needs(ins)) \o Leaves(ins, T)

\* The operands of ins are on a stack of types T, and there is room for a call.
Takes(ins, T, room) ==
  LET n == Len(T)
  IN  /\ n >= Needs(ins)
      /\ ins.op = "return" => SubSeq(T, n - Needs(ins) + 1, n) = f.type.results
      /\ ins.op \in {"local_set", "local_tee"} => T[n] = LocalTypes[ins.idx + 1]
      /\ ins.op \in {"select", "select_t"} => T[n - 1] = T[n - 2]
      /\ ins.op = "call" =>
           n - Needs(ins) + DeclaredLocals(Callees[ins.fn + 1]) <= room

NoFall == {"unreachable", "else", "br", "br_table", "return"}

\* Needs and Leaves, class by class.
LEMMA NeedsIs ==
  ASSUME NEW ins, NEW T
  PROVE  /\ ins.op \in {"if", "br_if"} => Needs(ins) = 1 /\ Leaves(ins, T) = << >>
         /\ ins.op = "br_table" => Needs(ins) = 1
         /\ ins.op = "local_get" =>
              Needs(ins) = 0 /\ Leaves(ins, T) = <<LocalTypes[ins.idx + 1]>>
         /\ ins.op = "local_set" => Needs(ins) = 1 /\ Leaves(ins, T) = << >>
         /\ ins.op = "local_tee" =>
              Needs(ins) = 1 /\ Leaves(ins, T) = <<LocalTypes[ins.idx + 1]>>
         /\ ins.op \in {"select", "select_t"} =>
              Needs(ins) = 3 /\ Leaves(ins, T) = <<T[Len(T) - 1]>>
         /\ ins.op = "call" =>
              /\ Needs(ins) = Len(Callees[ins.fn + 1].type.params)
              /\ Leaves(ins, T) = Callees[ins.fn + 1].type.results
         /\ ins.op = "return" => Needs(ins) = Len(f.type.results)
         /\ ins.op \in {"unreachable", "nop", "block", "loop", "else", "end", "br"} =>
              Needs(ins) = 0 /\ Leaves(ins, T) = << >>
         /\ ins.op \in DataOps \ {"select", "select_t"} =>
              Needs(ins) = DataEffect(ins).pop /\ Leaves(ins, T) = DataEffect(ins).push
  <1> DEFINE op == ins.op
             a == Len(Callees[ins.fn + 1].type.params)
             b == Len(f.type.results)
             d == DataEffect(ins).pop
             l == <<LocalTypes[ins.idx + 1]>>
             t == <<T[Len(T) - 1]>>
             r == Callees[ins.fn + 1].type.results
             e == DataEffect(ins).push
  <1>1. Needs(ins) =
          CASE op \in {"if", "br_if", "br_table", "local_set", "local_tee"} -> 1
            [] op \in {"select", "select_t"} -> 3
            [] op = "call"   -> a
            [] op = "return" -> b
            [] op \in DataOps \ {"select", "select_t"} -> d
            [] OTHER -> 0
    BY DEF Needs
  <1>2. Leaves(ins, T) =
          CASE op \in {"local_get", "local_tee"} -> l
            [] op \in {"select", "select_t"} -> t
            [] op = "call" -> r
            [] op \in DataOps \ {"select", "select_t"} -> e
            [] OTHER -> << >>
    BY DEF Leaves
  <1> HIDE DEF op, a, b, d, l, t, r, e
  <1>3. /\ op \in {"if", "br_if"} => Needs(ins) = 1 /\ Leaves(ins, T) = << >>
        /\ op = "br_table" => Needs(ins) = 1
        /\ op = "local_get" => Needs(ins) = 0 /\ Leaves(ins, T) = l
        /\ op = "local_set" => Needs(ins) = 1 /\ Leaves(ins, T) = << >>
        /\ op = "local_tee" => Needs(ins) = 1 /\ Leaves(ins, T) = l
        /\ op \in {"select", "select_t"} => Needs(ins) = 3 /\ Leaves(ins, T) = t
        /\ op = "call" => Needs(ins) = a /\ Leaves(ins, T) = r
        /\ op = "return" => Needs(ins) = b
        /\ op \in {"unreachable", "nop", "block", "loop", "else", "end", "br"} =>
             Needs(ins) = 0 /\ Leaves(ins, T) = << >>
        /\ op \in DataOps \ {"select", "select_t"} =>
             Needs(ins) = d /\ Leaves(ins, T) = e
    BY <1>1, <1>2 DEF DataOps
  <1> QED BY <1>3 DEF op, a, b, d, l, t, r, e

\* The handlers of the data instructions take as many values as the callbacks
\* pop, and leave the types that they push.
LEMMA SigEffect ==
  ASSUME NEW ins \in Instrs, ins.op \in DataOps \ {"select", "select_t"}
  PROVE  DataEffect(ins).pop = Len(Sig(ins).pop) /\ DataEffect(ins).push = Sig(ins).push
  <1> DEFINE Plain == {"drop", "const", "unop", "binop", "testop", "relop", "convertop",
                       "load", "store", "memory_size", "memory_grow"}
             Refs == {"global_get", "global_set", "table_get", "table_set", "ref_null",
                      "ref_is_null", "ref_func", "bulk", "seg_drop", "table_grow",
                      "table_size", "table_fill"}
  <1>1. CASE ins.op \in Plain
    BY <1>1 DEF DataEffect, Sig, Effect
  <1>2. CASE ins.op \in Refs
    <2>1. DataEffect(ins) = RefEffect(ins) /\ Sig(ins) = RefSig(ins)
      BY <1>2 DEF DataEffect, Sig
    <2>2. RefEffect(ins).pop = Len(RefSig(ins).pop) /\ RefEffect(ins).push = RefSig(ins).push
      BY <1>2 DEF RefEffect, RefSig, Effect
    <2> QED BY <2>1, <2>2
  <1>3. CASE ins.op = "call_indirect"
    <2>1. DataEffect(ins) = RefEffect(ins) /\ Sig(ins) = RefSig(ins)
      BY <1>3 DEF DataEffect, Sig
    <2>2. /\ RefEffect(ins) = Effect(Len(ins.type.params) + 1, ins.type.results, TRUE)
          /\ RefSig(ins) = [pop |-> Append(ins.type.params, "i32"),
                            push |-> ins.type.results]
      BY <1>3 DEF RefEffect, RefSig
    <2>3. ins.type.params \in Seq(ValTypes)
      BY <1>3, InstrsAssumption DEF FuncTypes
    <2>4. Len(Append(ins.type.params, "i32")) = Len(ins.type.params) + 1
      BY <2>3
    <2> QED BY <2>1, <2>2, <2>4 DEF Effect
  <1> QED BY <1>1, <1>2, <1>3 DEF DataOps

----------------------------------------------------------------------------
(***************************************************************************)
(* In reachable code every callback finds the operands that the handler of *)
(* the same instruction takes, and goes on with the types that it leaves.  *)
(***************************************************************************)
LiveCode ==
  /\ ctrl_stack # << >> /\ ~InDeadCode
  /\ \A i \in 1..Len(val_stack) : val_stack[i] \in ValTypes

Carries(ins) ==
  /\ Takes(ins, val_stack, stack_size_max')
  /\ ins.op \notin NoFall => val_stack' = After(ins, val_stack)

\* The innermost frame is reachable.
LEMMA LiveTop ==
  ASSUME TInv, LiveCode
  PROVE  /\ Top \in Frames /\ ~Top.unreachable /\ Top.height \in Nat
         /\ Top.height <= Len(val_stack) /\ Len(val_stack) \in Nat
         /\ val_stack \in Seq(StackTypes)
         /\ Len(ctrl_stack) \in 1..Len(ctrl_stack)
  <1>1. /\ Len(ctrl_stack) \in 1..Len(ctrl_stack) /\ Top \in Frames
        /\ Top.height \in 0..Len(val_stack)
    BY TopFrame DEF LiveCode
  <1>2. ~Top.unreachable
    BY <1>1 DEF LiveCode, InDeadCode, Top
  <1>3. val_stack \in Seq(StackTypes)
    BY DEF TInv, TypeOK
  <1> QED BY <1>1, <1>2, <1>3

\* Popping the operands there.
LEMMA AfterLive ==
  ASSUME TInv, LiveCode, NEW ins \in Instrs, Decode(ins)
  PROVE  LET ts == Operands(ins)
             n  == Len(val_stack)
         IN  /\ ts \in Seq(Types) /\ Len(ts) \in Nat
             /\ Len(ts) <= n - Top.height /\ Len(ts) <= n
             /\ AfterOperands(ins) = SubSeq(val_stack, 1, n - Len(ts))
             /\ \A i \in 1..Len(ts) : Matches(val_stack[n - Len(ts) + i], ts[i])
             /\ ts # << >> => CanPop(val_stack, Top, ts)
  <1> DEFINE ts == Operands(ins)
             n  == Len(val_stack)
  <1>1. /\ Top \in Frames /\ ~Top.unreachable /\ Top.height \in Nat /\ Top.height <= n
        /\ n \in Nat /\ val_stack \in Seq(StackTypes)
    BY LiveTop
  <1>2. IndexOk(ins) /\ Valid(ins) /\ ts \in Seq(Types)
    BY DecodeType, OperandsType
  <1>3. CASE ts = << >>
    <2>1. Len(ts) = 0
      BY <1>3
    <2>2. AfterOperands(ins) = val_stack
      BY <1>3 DEF AfterOperands
    <2>3. SubSeq(val_stack, 1, n - Len(ts)) = val_stack
      BY <1>1, <2>1, NoChange
    <2> QED BY <1>1, <1>2, <1>3, <2>1, <2>2, <2>3
  <1>4. CASE ts # << >>
    <2>1. CanPop(val_stack, Top, ts)
      BY <1>2, <1>4 DEF Valid
    <2>2. AfterOperands(ins) = PopVals(val_stack, Top, ts)
      BY <1>4 DEF AfterOperands
    <2> HIDE DEF ts
    <2>3. /\ Len(ts) <= n - Top.height /\ Len(ts) <= n
          /\ PopVals(val_stack, Top, ts) = SubSeq(val_stack, 1, n - Len(ts))
          /\ \A i \in 1..Len(ts) : Matches(val_stack[n - Len(ts) + i], ts[i])
      BY <1>1, <1>2, <2>1, PopLive
    <2>4. Len(ts) \in Nat
      BY <1>2
    <2> QED BY <1>2, <2>1, <2>2, <2>3, <2>4 DEF ts
  <1> QED BY <1>3, <1>4

\* The function's own block.
FirstFrame ==
  ctrl_stack # << >> => /\ ctrl_stack[1].height = 0
                        /\ ctrl_stack[1].end_types = f.type.results

\* unreachable, nop, else, end and return.
LEMMA ControlCarries ==
  ASSUME TInv, LiveCode, FirstFrame, NEW ins \in Instrs,
         \/ on_unreachable(ins) \/ on_nop(ins) \/ on_else(ins) \/ on_end(ins)
         \/ on_return(ins)
  PROVE  Carries(ins)
  <1> DEFINE T == val_stack
  <1>1. /\ Top \in Frames /\ ~Top.unreachable /\ Top.height \in Nat /\ Top.height <= Len(T)
        /\ Len(T) \in Nat /\ T \in Seq(StackTypes) /\ ctrl_stack # << >>
    BY LiveTop DEF LiveCode
  <1>2. Decode(ins) /\ ins.op \in {"unreachable", "nop", "else", "end", "return"}
    BY DEF on_unreachable, on_nop, on_else, on_end, on_return
  <1>3. Valid(ins)
    BY <1>2, DecodeType
  <1>4. CASE ins.op # "return"
    <2>1. Needs(ins) = 0 /\ Leaves(ins, T) = << >>
      BY <1>2, <1>4, NeedsIs
    <2>2. After(ins, T) = T
      BY <1>1, <2>1, NoChange DEF After
    <2>3. Takes(ins, T, stack_size_max')
      BY <1>1, <1>2, <1>4, <2>1 DEF Takes
    <2>4. ins.op = "nop" => val_stack' = T
      BY DEF on_unreachable, on_nop, on_else, on_end, on_return
    <2>5. ASSUME ins.op = "end"
          PROVE  val_stack' = T
      <3>1. val_stack' = AfterPopCtrl \o Top.end_types
        BY <2>5 DEF on_unreachable, on_nop, on_else, on_end, on_return
      <3>2. CanPop(T, Top, Top.end_types)
        BY <1>3, <2>5 DEF Valid
      <3>3. Top.end_types \in Seq(ValTypes)
        BY <1>1, TopFrame
      <3> QED BY <1>1, <3>1, <3>2, <3>3, PopExact DEF AfterPopCtrl, LiveCode
    <2> QED BY <1>2, <1>4, <2>2, <2>3, <2>4, <2>5 DEF Carries, NoFall
  <1>5. CASE ins.op = "return"
    <2>1. CanPop(T, Top, f.type.results)
      BY <1>1, <1>3, <1>5 DEF Valid, FirstFrame
    <2>2. f.type.results \in Seq(ValTypes)
      BY FunsAssumption DEF TInv, TypeOK, FuncTypes
    <2>3. Needs(ins) = Len(f.type.results)
      BY <1>5, NeedsIs
    <2>4. /\ Len(f.type.results) <= Len(T)
          /\ SubSeq(T, Len(T) - Len(f.type.results) + 1, Len(T)) = f.type.results
      BY <1>1, <2>1, <2>2, PopExact DEF LiveCode
    <2> QED BY <1>1, <1>5, <2>2, <2>3, <2>4 DEF Carries, Takes, NoFall
  <1> QED BY <1>4, <1>5

\* block, loop and if.
LEMMA BlockCarries ==
  ASSUME TInv, LiveCode, NEW ins \in Instrs, on_block(ins)
  PROVE  Carries(ins)
  <1> DEFINE T == val_stack
             ts == ins.type.params
  <1>1. /\ Top \in Frames /\ ~Top.unreachable /\ Top.height \in Nat /\ Top.height <= Len(T)
        /\ Len(T) \in Nat /\ T \in Seq(StackTypes)
    BY LiveTop
  <1>2. /\ Decode(ins) /\ ins.op \in {"block", "loop", "if"}
        /\ val_stack' = AfterOperands(ins) \o ts
    BY DEF on_block
  <1>3. ts \in Seq(ValTypes)
    BY <1>2, InstrsAssumption DEF FuncTypes
  <1>4. \A i \in 1..Len(T) : T[i] \in ValTypes
    BY DEF LiveCode
  <1>5. CASE ins.op \in {"block", "loop"}
    <2>1. Operands(ins) = ts
      BY <1>5 DEF Operands, DataOps
    <2>2. /\ Len(ts) <= Len(T) /\ Len(ts) \in Nat
          /\ AfterOperands(ins) = SubSeq(T, 1, Len(T) - Len(ts))
          /\ \A i \in 1..Len(ts) : Matches(T[Len(T) - Len(ts) + i], ts[i])
      BY <1>2, <2>1, AfterLive
    <2>3. ASSUME NEW i \in 1..Len(ts)
          PROVE  T[Len(T) - Len(ts) + i] = ts[i]
      <3>1. Len(T) - Len(ts) + i \in 1..Len(T) /\ ts[i] \in ValTypes
        BY <1>1, <1>3, <2>2
      <3> QED BY <1>4, <2>2, <3>1, MatchesSame
    <2>4. val_stack' = T
      <3>1. ts \in Seq(StackTypes)
        BY <1>3, SeqMonotonic DEF StackTypes
      <3> QED BY <1>1, <1>2, <2>2, <2>3, <3>1, Glue
    <2>5. Needs(ins) = 0 /\ Leaves(ins, T) = << >>
      BY <1>5, NeedsIs
    <2>6. After(ins, T) = T
      BY <1>1, <2>5, NoChange DEF After
    <2> QED BY <1>1, <1>5, <2>4, <2>5, <2>6 DEF Carries, Takes
  <1>6. CASE ins.op = "if"
    <2>1. Operands(ins) = Append(ts, "i32")
      BY <1>6 DEF Operands, DataOps
    <2>2. Append(ts, "i32") # << >>
      BY <1>3
    <2>3. CanPop(T, Top, Append(ts, "i32"))
      BY <1>2, <2>1, <2>2, AfterLive
    <2>4. /\ Len(T) >= 1 /\ Front(T) \in Seq(StackTypes) /\ Len(Front(T)) = Len(T) - 1
          /\ \A i \in 1..(Len(T) - 1) : Front(T)[i] = T[i]
          /\ Top.height <= Len(Front(T)) /\ CanPop(Front(T), Top, ts)
          /\ PopVals(T, Top, Append(ts, "i32")) = PopVals(Front(T), Top, ts)
      BY <1>1, <1>3, <2>3, PopCondition
    <2>5. \A i \in 1..Len(Front(T)) : Front(T)[i] \in ValTypes
      BY <1>1, <1>4, <2>4
    <2>6. PopVals(Front(T), Top, ts) \o ts = Front(T)
      BY <1>1, <1>3, <2>4, <2>5, PopExact
    <2>7. val_stack' = Front(T)
      BY <1>2, <2>1, <2>2, <2>4, <2>6 DEF AfterOperands
    <2>8. Needs(ins) = 1 /\ Leaves(ins, T) = << >>
      BY <1>6, NeedsIs
    <2>9. After(ins, T) = Front(T)
      BY <2>4, <2>8, NoChange DEF After, Front
    <2> QED BY <1>6, <2>4, <2>7, <2>8, <2>9 DEF Carries, Takes
  <1> QED BY <1>2, <1>5, <1>6

\* The types on the stack as a branch of ins jumps.
Carried(ins, T) == IF ins.op \in {"else", "br"} THEN T ELSE Front(T)

\* br, br_if and br_table carry the types of the label's block.
LEMMA BranchLive ==
  ASSUME TInv, LiveCode, NEW ins \in Instrs, Decode(ins), NEW l \in Nat,
         \/ ins.op \in {"br", "br_if"} /\ l = ins.lth
         \/ ins.op = "br_table" /\ \E i \in 1..Len(ins.ls) : l = ins.ls[i]
  PROVE  LET T  == val_stack
             C  == Carried(ins, T)
             ts == label_types(LabelFrame(l))
         IN  /\ LabelAt(l) \in 1..Len(ctrl_stack) /\ ts \in Seq(ValTypes)
             /\ C \in Seq(StackTypes) /\ Len(C) <= Len(T)
             /\ IF ins.op = "br" THEN C = T
                ELSE /\ Len(T) >= 1 /\ C = Front(T) /\ Len(C) = Len(T) - 1
                     /\ C = PopVals(T, Top, <<"i32">>)
             /\ \A i \in 1..Len(C) : C[i] = T[i]
             /\ Len(ts) <= Len(C) - Top.height /\ Len(ts) <= Len(C)
             /\ PopVals(C, Top, ts) \o ts = C
             /\ PopVals(C, Top, ts) = SubSeq(C, 1, Len(C) - Len(ts))
             /\ SubSeq(C, Len(C) - Len(ts) + 1, Len(C)) = ts
  <1> DEFINE T  == val_stack
             C  == Carried(ins, T)
             ts == label_types(LabelFrame(l))
  <1>1. /\ Top \in Frames /\ ~Top.unreachable /\ Top.height \in Nat /\ Top.height <= Len(T)
        /\ Len(T) \in Nat /\ T \in Seq(StackTypes) /\ ctrl_stack # << >>
    BY LiveTop DEF LiveCode
  <1>2. \A i \in 1..Len(T) : T[i] \in ValTypes
    BY DEF LiveCode
  <1>3. IndexOk(ins) /\ Valid(ins)
    BY DecodeType
  <1>4. l < Len(ctrl_stack)
    BY <1>3 DEF IndexOk
  <1>5. LabelAt(l) \in 1..Len(ctrl_stack) /\ LabelFrame(l) \in Frames
    BY <1>4, LabelType
  <1>6. ts \in Seq(ValTypes)
    BY <1>5 DEF Frames, label_types
  <1>7. CASE ins.op = "br"
    <2>1. C = T
      BY <1>7 DEF Carried
    <2>2. CanPop(T, Top, ts)
      BY <1>3, <1>7 DEF Valid
    <2> HIDE DEF ts, C, T
    <2>3. /\ Len(ts) <= Len(T) - Top.height /\ Len(ts) <= Len(T)
          /\ PopVals(T, Top, ts) = SubSeq(T, 1, Len(T) - Len(ts))
          /\ PopVals(T, Top, ts) \o ts = T
          /\ SubSeq(T, Len(T) - Len(ts) + 1, Len(T)) = ts
      BY <1>1, <1>2, <1>6, <2>2, PopExact
    <2> QED BY <1>1, <1>5, <1>6, <1>7, <2>1, <2>3 DEF ts, C, T
  <1>8. CASE ins.op # "br"
    <2>1. C = Front(T)
      BY <1>8 DEF Carried
    <2>2. /\ Len(T) >= 1 /\ Front(T) \in Seq(StackTypes) /\ Len(Front(T)) = Len(T) - 1
          /\ \A i \in 1..(Len(T) - 1) : Front(T)[i] = T[i]
          /\ PopVals(T, Top, <<"i32">>) = Front(T)
          /\ Top.height <= Len(Front(T)) /\ CanPop(Front(T), Top, ts)
      <3>1. CASE ins.op = "br_if"
        <4>1. CanPop(T, Top, Append(ts, "i32"))
          BY <1>3, <3>1 DEF Valid
        <4> HIDE DEF ts, T, C
        <4> QED BY <1>1, <1>6, <4>1, PopCondition
      <3>2. CASE ins.op = "br_table"
        <4>1. BrTableOk(ins)
          BY <1>3, <3>2 DEF Valid
        <4>2. /\ CanPop(T, Top, <<"i32">>)
              /\ CanPop(PopVals(T, Top, <<"i32">>), Top, ts)
          BY <3>2, <4>1 DEF BrTableOk
        <4>3. Append(<< >>, "i32") = <<"i32">> /\ << >> \in Seq(ValTypes)
          OBVIOUS
        <4> HIDE DEF ts, T, C
        <4>4. CanPop(T, Top, Append(<< >>, "i32"))
          BY <4>2, <4>3
        <4>5. /\ Len(T) >= 1 /\ Front(T) \in Seq(StackTypes) /\ Len(Front(T)) = Len(T) - 1
              /\ \A i \in 1..(Len(T) - 1) : Front(T)[i] = T[i]
              /\ PopVals(T, Top, <<"i32">>) = Front(T)
              /\ Top.height <= Len(Front(T))
          BY <1>1, <4>3, <4>4, PopCondition
        <4> QED BY <4>2, <4>5
      <3> QED BY <1>8, <3>1, <3>2
    <2>3. \A i \in 1..Len(Front(T)) : Front(T)[i] \in ValTypes
      BY <1>1, <1>2, <2>2
    <2> HIDE DEF ts, C, T
    <2> DEFINE F == Front(T)
    <2>4. /\ Len(ts) <= Len(F) - Top.height /\ Len(ts) <= Len(F)
          /\ PopVals(F, Top, ts) = SubSeq(F, 1, Len(F) - Len(ts))
          /\ PopVals(F, Top, ts) \o ts = F
          /\ SubSeq(F, Len(F) - Len(ts) + 1, Len(F)) = ts
      BY <1>1, <1>6, <2>2, <2>3, PopExact
    <2>5. Len(F) <= Len(T)
      BY <1>1, <2>2
    <2> QED BY <1>5, <1>6, <1>8, <2>1, <2>2, <2>4, <2>5 DEF ts, C, T
  <1> QED BY <1>7, <1>8

\* A branch in reachable code finds the values its label takes.
LEMMA BranchCarries ==
  ASSUME TInv, LiveCode, NEW ins \in Instrs, on_br_or_if(ins) \/ on_br_table(ins)
  PROVE  Carries(ins)
  <1> DEFINE T == val_stack
  <1>1. Decode(ins) /\ ins.op \in {"br", "br_if", "br_table"}
    BY DEF on_br_or_if, on_br_table
  <1>2. Len(T) \in Nat /\ T \in Seq(StackTypes)
    BY LiveTop
  <1>3. CASE ins.op = "br"
    <2>1. Needs(ins) = 0
      BY <1>3, NeedsIs
    <2> QED BY <1>2, <1>3, <2>1 DEF Carries, Takes, NoFall
  <1>4. CASE ins.op = "br_table"
    <2>1. ins.ls[1] \in Nat /\ 1 \in 1..Len(ins.ls)
      BY <1>4, InstrsAssumption
    <2>2. Len(T) >= 1
      BY <1>1, <1>4, <2>1, BranchLive
    <2>3. Needs(ins) = 1
      BY <1>4, NeedsIs
    <2> QED BY <1>2, <1>4, <2>2, <2>3 DEF Carries, Takes, NoFall
  <1>5. CASE ins.op = "br_if"
    <2> DEFINE ts == label_types(LabelFrame(ins.lth))
    <2>1. ins.lth \in Nat
      BY <1>5, InstrsAssumption
    <2>2. /\ Len(T) >= 1 /\ Front(T) = PopVals(T, Top, <<"i32">>)
          /\ PopVals(Front(T), Top, ts) \o ts = Front(T)
          /\ Front(T) \in Seq(StackTypes)
      BY <1>1, <1>5, <2>1, BranchLive DEF Carried
    <2>3. val_stack' = PopVals(PopVals(T, Top, <<"i32">>), Top, ts) \o ts
      BY <1>5 DEF on_br_or_if, on_br_table
    <2>4. Needs(ins) = 1 /\ Leaves(ins, T) = << >>
      BY <1>5, NeedsIs
    <2> HIDE DEF ts
    <2>5. After(ins, T) = Front(T)
      BY <2>2, <2>4, NoChange DEF After, Front
    <2>6. val_stack' = Front(T)
      BY <2>2, <2>3
    <2> QED BY <1>2, <1>5, <2>2, <2>4, <2>5, <2>6 DEF Carries, Takes
  <1> QED BY <1>1, <1>3, <1>4, <1>5

\* A call in reachable code finds its arguments and leaves the results.
LEMMA CallCarries ==
  ASSUME TInv, LiveCode, NEW ins \in Instrs, on_call(ins)
  PROVE  Carries(ins)
  <1> DEFINE T == val_stack
             fn == Callees[ins.fn + 1]
             vs == AfterOperands(ins)
             required == Len(vs) + DeclaredLocals(fn)
             pushed   == Len(vs) + Len(fn.type.results)
  <1>1. /\ Decode(ins) /\ ins.op = "call" /\ val_stack' = vs \o fn.type.results
        /\ stack_size_max' = Raise(IF required > pushed THEN required ELSE pushed)
    BY DEF on_call
  <1>2. Len(T) \in Nat /\ T \in Seq(StackTypes) /\ stack_size_max \in Nat
    BY LiveTop DEF TInv, TypeOK
  <1>3. Operands(ins) = fn.type.params
    BY <1>1 DEF Operands, DataOps
  <1>4. Needs(ins) = Len(fn.type.params) /\ Leaves(ins, T) = fn.type.results
    BY <1>1, NeedsIs
  <1>5. ins.fn + 1 \in 1..Len(Callees)
    <2>1. ins.fn \in Nat /\ ins.fn < Len(Callees)
      BY <1>1, DecodeType, InstrsAssumption DEF IndexOk
    <2> QED BY <2>1, CalleesAssumption
  <1>6. /\ Len(fn.type.params) \in Nat /\ Len(fn.type.results) \in Nat
        /\ DeclaredLocals(fn) \in Nat
    BY <1>5, CalleeType DEF FuncTypes, DeclaredLocals
  <1>7. /\ vs = SubSeq(T, 1, Len(T) - Len(fn.type.params)) /\ Len(fn.type.params) <= Len(T)
    BY <1>1, <1>3, AfterLive
  <1>8. Len(vs) = Len(T) - Len(fn.type.params)
    <2>1. Len(T) - Len(fn.type.params) \in 0..Len(T)
      BY <1>2, <1>6, <1>7
    <2> QED BY <1>2, <1>7, <2>1, Lower
  <1> HIDE DEF vs
  <1>9. required <= stack_size_max'
    <2>1. Len(vs) \in Nat
      BY <1>2, <1>6, <1>7, <1>8
    <2> QED BY <1>1, <1>2, <1>6, <2>1 DEF Raise
  <1>10. val_stack' = After(ins, T)
    BY <1>1, <1>4, <1>7 DEF After
  <1> HIDE DEF fn
  <1>11. /\ Len(T) >= Needs(ins)
         /\ Len(T) - Needs(ins) + DeclaredLocals(fn) <= stack_size_max'
    BY <1>2, <1>4, <1>6, <1>7, <1>8, <1>9
  <1> QED BY <1>1, <1>10, <1>11 DEF Carries, Takes, fn

\* The locals' callbacks and the data instructions.
LEMMA DataCarries ==
  ASSUME TInv, LiveCode, NEW ins \in Instrs, on_data(ins)
  PROVE  Carries(ins)
  <1> DEFINE T == val_stack
             n == Len(T)
             ts == Operands(ins)
  <1>1. /\ Decode(ins) /\ ins.op \in LocalOps \cup DataOps
        /\ val_stack' = AfterOperands(ins) \o Pushes(ins)
    BY DEF on_data
  <1>2. n \in Nat /\ T \in Seq(StackTypes) /\ Top.height \in Nat /\ Top.height <= n
    BY LiveTop
  <1>3. \A i \in 1..n : T[i] \in ValTypes
    BY DEF LiveCode
  <1>4. /\ ts \in Seq(Types) /\ Len(ts) \in Nat /\ Len(ts) <= n - Top.height /\ Len(ts) <= n
        /\ AfterOperands(ins) = SubSeq(T, 1, n - Len(ts))
        /\ \A i \in 1..Len(ts) : Matches(T[n - Len(ts) + i], ts[i])
    BY <1>1, AfterLive
  <1>5. ASSUME Len(ts) = Needs(ins), Pushes(ins) = Leaves(ins, T)
        PROVE  val_stack' = After(ins, T) /\ n >= Needs(ins)
    BY <1>1, <1>2, <1>4, <1>5 DEF After
  <1>6. CASE ins.op = "local_get"
    <2>1. ts = << >> /\ Pushes(ins) = <<LocalTypes[ins.idx + 1]>>
      BY <1>6 DEF Operands, Pushes, DataOps
    <2>2. Needs(ins) = 0 /\ Leaves(ins, T) = <<LocalTypes[ins.idx + 1]>>
      BY <1>6, NeedsIs
    <2>3. Len(ts) = 0
      BY <2>1
    <2> QED BY <1>5, <1>6, <2>1, <2>2, <2>3 DEF Carries, Takes
  <1>7. CASE ins.op \in {"local_set", "local_tee"}
    <2> DEFINE u == LocalTypes[ins.idx + 1]
    <2>1. ts = <<u>> /\ Pushes(ins) = IF ins.op = "local_set" THEN << >> ELSE <<u>>
      BY <1>7 DEF Operands, Pushes, DataOps
    <2>2. Needs(ins) = 1 /\ Leaves(ins, T) = IF ins.op = "local_set" THEN << >> ELSE <<u>>
      BY <1>7, NeedsIs
    <2>3. u \in ValTypes
      <3>1. ins.idx \in Nat /\ ins.idx < Len(LocalTypes)
        BY <1>1, <1>7, DecodeType, InstrsAssumption DEF IndexOk, LocalOps
      <3>2. ins.idx + 1 \in 1..Len(LocalTypes)
        BY <3>1, LocalTypesType
      <3> QED BY <3>2, LocalTypesType
    <2> HIDE DEF u
    <2>4. Len(ts) = 1 /\ ts[1] = u
      BY <2>1
    <2>5. T[n] = u
      <3>1. Matches(T[n - 1 + 1], ts[1]) /\ n - 1 + 1 = n /\ n \in 1..n
        BY <1>2, <1>4, <2>4
      <3> QED BY <1>3, <2>3, <2>4, <3>1, MatchesSame
    <2> QED BY <1>5, <1>7, <2>1, <2>2, <2>4, <2>5 DEF Carries, Takes, u
  <1>8. CASE ins.op = "select"
    <2>1. ts = <<"unknown", "unknown", "i32">>
      BY <1>8 DEF Operands
    <2>2. Pushes(ins) = <<IF Peek(1) = "unknown" THEN Peek(2) ELSE Peek(1)>>
      BY <1>8 DEF Pushes
    <2>3. Len(ts) = 3
      BY <2>1
    <2>4. /\ 1 < n - Top.height /\ 2 < n - Top.height
          /\ n - 1 \in 1..n /\ n - 2 \in 1..n
      BY <1>2, <1>4, <2>3
    <2>5. Peek(1) = T[n - 1] /\ Peek(2) = T[n - 2]
      BY <2>4 DEF Peek
    <2>6. Peek(1) # "unknown" /\ Peek(2) # "unknown"
      BY <1>3, <2>4, <2>5 DEF ValTypes, NumTypes, RefTypes
    <2>7. SelectOk
      BY <1>1, <1>8, DecodeType DEF Valid
    <2>8. Peek(1) = Peek(2)
      BY <2>6, <2>7 DEF SelectOk
    <2>9. Needs(ins) = 3 /\ Leaves(ins, T) = <<T[n - 1]>>
      BY <1>8, NeedsIs
    <2>10. Pushes(ins) = <<T[n - 1]>>
      BY <2>2, <2>5, <2>6
    <2> QED BY <1>5, <1>8, <2>3, <2>5, <2>8, <2>9, <2>10 DEF Carries, Takes
  <1>9. CASE ins.op = "select_t"
    <2> DEFINE u == ins.t
    <2>1. ts = <<u, u, "i32">> /\ Pushes(ins) = <<u>>
      BY <1>9 DEF Operands, Pushes, Sig, DataOps
    <2>2. u \in ValTypes
      BY <1>9, InstrsAssumption DEF TypedOps
    <2> HIDE DEF u
    <2>3. Len(ts) = 3 /\ ts[1] = u /\ ts[2] = u
      BY <2>1
    <2>4. T[n - 2] = u /\ T[n - 1] = u
      <3>1. /\ Matches(T[n - 3 + 1], ts[1]) /\ Matches(T[n - 3 + 2], ts[2])
            /\ n - 3 + 1 = n - 2 /\ n - 3 + 2 = n - 1 /\ n - 2 \in 1..n /\ n - 1 \in 1..n
        BY <1>2, <1>4, <2>3
      <3> QED BY <1>3, <2>2, <2>3, <3>1, MatchesSame
    <2>5. Needs(ins) = 3 /\ Leaves(ins, T) = <<T[n - 1]>>
      BY <1>9, NeedsIs
    <2> QED BY <1>5, <1>9, <2>1, <2>3, <2>4, <2>5 DEF Carries, Takes
  <1>10. CASE ins.op \in DataOps \ {"select", "select_t"}
    <2>1. ts = Sig(ins).pop /\ Pushes(ins) = Sig(ins).push
      BY <1>10 DEF Operands, Pushes, DataOps
    <2>2. Needs(ins) = DataEffect(ins).pop /\ Leaves(ins, T) = DataEffect(ins).push
      BY <1>10, NeedsIs
    <2>3. val_stack' = After(ins, T) /\ n >= Needs(ins)
      BY <1>5, <1>10, <2>1, <2>2, SigEffect
    <2> QED BY <1>10, <2>3 DEF Carries, Takes, DataOps
  <1> QED BY <1>1, <1>6, <1>7, <1>8, <1>9, <1>10 DEF LocalOps

\* Every callback.
LEMMA StepCarries ==
  ASSUME TInv, LiveCode, FirstFrame, NEW ins \in Instrs, Step(ins)
  PROVE  Carries(ins)
  BY ControlCarries, BlockCarries, BranchCarries, CallCarries, DataCarries DEF Step

----------------------------------------------------------------------------
(***************************************************************************)
(* What every callback leaves alone: the room only grows, and nothing      *)
(* below the innermost frame changes.                                      *)
(***************************************************************************)
LEMMA RoomGrows ==
  ASSUME TInv, NEW ins \in Instrs, Step(ins), Len(val_stack) <= stack_size_max
  PROVE  stack_size_max <= stack_size_max' /\ Len(val_stack') <= stack_size_max'
  <1>1. StepShape(ins) /\ Decode(ins)
    BY StepsShape
  <1>2. /\ stack_size_max \in Nat /\ Len(val_stack) \in Nat /\ stack_size_max' \in Nat
        /\ Len(val_stack') \in Nat
    BY <1>1 DEF TInv, TypeOK, StepShape
  <1>3. ASSUME NEW m \in Nat, stack_size_max' = Raise(m), Len(val_stack') <= m
        PROVE  stack_size_max <= stack_size_max' /\ Len(val_stack') <= stack_size_max'
    BY <1>2, <1>3 DEF Raise
  <1>4. CASE on_nop(ins)
    BY <1>2, <1>4 DEF on_nop
  <1>5. CASE on_block(ins) \/ on_else(ins) \/ on_end(ins) \/ on_br_or_if(ins) \/ on_data(ins)
    <2>1. stack_size_max' = Raise(Len(val_stack'))
      BY <1>5 DEF on_block, on_else, on_end, on_br_or_if, on_data
    <2> QED BY <1>2, <1>3, <2>1
  <1>6. CASE on_unreachable(ins) \/ on_return(ins) \/ on_br_table(ins)
    <2>1. ctrl_stack # << >>
      BY <1>1, <1>6 DEF Decode, TouchesFrame, on_unreachable, on_return, on_br_table
    <2>2. val_stack' = SubSeq(val_stack, 1, Top.height)
      BY <1>6 DEF on_unreachable, on_return, on_br_table
    <2>3. /\ Top.height \in 0..Len(val_stack) /\ val_stack \in Seq(StackTypes)
          /\ Top \in Frames
      BY <2>1, TopFrame DEF TInv, TypeOK
    <2>4. Len(val_stack') = Top.height
      BY <2>2, <2>3, CutType
    <2>5. CASE stack_size_max' = stack_size_max
      BY <1>2, <2>3, <2>4, <2>5
    <2>6. CASE on_br_table(ins)
      <3> DEFINE vs == PopVals(val_stack, Top, <<"i32">>)
                 arity == Len(label_types(LabelFrame(ins.ls[1])))
                 full == IF Len(vs) < Top.height + arity
                           THEN Top.height + arity ELSE Len(vs)
      <3>1. stack_size_max' = Raise(full)
        BY <2>6 DEF on_br_table
      <3>2. Len(vs) \in Nat /\ Top.height <= Len(vs)
        <4>1. <<"i32">> \in Seq(Types) /\ Top.height <= Len(val_stack)
          BY <2>3, TypeNames
        <4> QED BY <2>1, <2>3, <4>1, PopTop
      <3>3. arity \in Nat
        <4>1. ins.ls[1] \in Nat /\ ins.ls[1] < Len(ctrl_stack)
          <5>1. ins.op = "br_table"
            BY <2>6 DEF on_br_table
          <5>2. 1 \in 1..Len(ins.ls) /\ ins.ls[1] \in Nat /\ 1 \in DOMAIN ins.ls
            BY <5>1, InstrsAssumption
          <5> QED BY <1>1, <5>1, <5>2, DecodeType DEF IndexOk
        <4> QED BY <4>1, LabelType
      <3> HIDE DEF vs, arity
      <3>4. full \in Nat /\ Len(val_stack') <= full
        BY <2>3, <2>4, <3>2, <3>3
      <3> HIDE DEF full
      <3> QED BY <1>3, <3>1, <3>4
    <2> QED BY <1>6, <2>5, <2>6 DEF on_unreachable, on_return
  <1>7. CASE on_call(ins)
    <2> DEFINE fn == Callees[ins.fn + 1]
               vs == AfterOperands(ins)
               required == Len(vs) + DeclaredLocals(fn)
               pushed   == Len(vs) + Len(fn.type.results)
               m == IF required > pushed THEN required ELSE pushed
    <2>1. /\ ins.op = "call" /\ val_stack' = vs \o fn.type.results
          /\ stack_size_max' = Raise(m)
      BY <1>7 DEF on_call
    <2>2. ins.fn + 1 \in 1..Len(Callees) /\ IndexOk(ins)
      <3>1. ins.fn \in Nat /\ ins.fn < Len(Callees) /\ IndexOk(ins)
        BY <1>1, <2>1, DecodeType, InstrsAssumption DEF IndexOk
      <3> QED BY <3>1, CalleesAssumption
    <2>3. /\ fn.type.results \in Seq(StackTypes) /\ DeclaredLocals(fn) \in Nat
      <3>1. fn.type.results \in Seq(ValTypes) /\ DeclaredLocals(fn) \in Nat
        BY <2>2, CalleeType DEF FuncTypes, DeclaredLocals
      <3> QED BY <3>1, SeqMonotonic DEF StackTypes
    <2>4. vs \in Seq(StackTypes)
      BY <1>1, <2>2, DecodeType, AfterOperandsType
    <2> HIDE DEF vs, fn
    <2>5. Len(val_stack') = pushed /\ Len(vs) \in Nat /\ Len(fn.type.results) \in Nat
      BY <2>1, <2>3, <2>4, ConcatType
    <2>6. m \in Nat /\ Len(val_stack') <= m
      BY <2>3, <2>5
    <2> HIDE DEF m
    <2> QED BY <1>3, <2>1, <2>6
  <1> QED BY <1>4, <1>5, <1>6, <1>7 DEF Step

\* Popping leaves the rest as it is.
LEMMA PopKeeps ==
  ASSUME NEW vs \in Seq(StackTypes), NEW fr \in Frames, fr.height <= Len(vs),
         NEW ts \in Seq(Types)
  PROVE  /\ PopVals(vs, fr, ts) \in Seq(StackTypes)
         /\ fr.height <= Len(PopVals(vs, fr, ts)) /\ Len(PopVals(vs, fr, ts)) <= Len(vs)
         /\ \A i \in 1..Len(PopVals(vs, fr, ts)) : PopVals(vs, fr, ts)[i] = vs[i]
  <1> DEFINE h == Len(vs) - fr.height
             m == Len(vs) - Taken(h, Len(ts))
  <1>1. fr.height \in Nat /\ Len(vs) \in Nat /\ Len(ts) \in Nat
    BY DEF Frames
  <1>2. m \in 0..Len(vs) /\ fr.height <= m
    BY <1>1 DEF Taken
  <1>3. PopVals(vs, fr, ts) = SubSeq(vs, 1, m)
    BY DEF PopVals
  <1> HIDE DEF m
  <1> QED BY <1>1, <1>2, <1>3, Lower

\* So does pushing.
LEMMA PushKeeps ==
  ASSUME NEW S, NEW a \in Seq(S), NEW b \in Seq(S)
  PROVE  /\ a \o b \in Seq(S) /\ Len(a \o b) = Len(a) + Len(b)
         /\ Len(a) \in Nat /\ Len(b) \in Nat
         /\ \A i \in 1..Len(a) : (a \o b)[i] = a[i]
         /\ SubSeq(a \o b, 1, Len(a)) = a
  <1>1. Len(a) \in Nat /\ Len(b) \in Nat
    OBVIOUS
  <1>2. /\ a \o b \in Seq(S) /\ Len(a \o b) = Len(a) + Len(b)
        /\ \A i \in 1..(Len(a) + Len(b)) :
             (a \o b)[i] = IF i <= Len(a) THEN a[i] ELSE b[i - Len(a)]
    BY ConcatProperties
  <1>3. \A i \in 1..Len(a) : (a \o b)[i] = a[i]
    <2>1. \A i \in 1..Len(a) : i \in 1..(Len(a) + Len(b)) /\ i <= Len(a)
      BY <1>1
    <2> QED BY <1>2, <2>1
  <1>4. SubSeq(a \o b, 1, Len(a)) = a
    <2>1. Len(a) \in 0..Len(a \o b)
      BY <1>1, <1>2
    <2> DEFINE c == a \o b
    <2>2. c \in Seq(S) /\ Len(a) \in 0..Len(c) /\ \A i \in 1..Len(a) : c[i] = a[i]
      BY <1>2, <1>3, <2>1
    <2> HIDE DEF c
    <2>3. /\ SubSeq(c, 1, Len(a)) \in Seq(S) /\ Len(SubSeq(c, 1, Len(a))) = Len(a)
          /\ \A i \in 1..Len(a) : SubSeq(c, 1, Len(a))[i] = c[i]
      BY <2>2, Lower
    <2>4. SubSeq(c, 1, Len(a)) = a
      BY <2>2, <2>3, SeqEqual
    <2> QED BY <2>4 DEF c
  <1> QED BY <1>1, <1>2, <1>3, <1>4

\* No callback touches the stack below the innermost block.
LEMMA Below ==
  ASSUME TInv, ctrl_stack # << >>, NEW ins \in Instrs, Step(ins)
  PROVE  /\ Top.height <= Len(val_stack')
         /\ \A i \in 1..Top.height : val_stack'[i] = val_stack[i]
  <1> DEFINE h == Top.height
             T == val_stack
  <1>1. StepShape(ins) /\ Decode(ins)
    BY StepsShape
  <1>2. /\ h \in Nat /\ Len(T) \in Nat /\ h <= Len(T) /\ h \in 0..Len(T)
        /\ T \in Seq(StackTypes) /\ Top \in Frames
        /\ Top.start_types \in Seq(StackTypes) /\ Top.end_types \in Seq(StackTypes)
        /\ Top.end_types \in Seq(Types)
    BY TopFrame DEF TInv, TypeOK
  <1>3. CASE val_stack' = SubSeq(T, 1, h)
    BY <1>2, <1>3, Lower
  <1>4. ASSUME NEW vs \in Seq(StackTypes), h <= Len(vs), Len(vs) <= Len(T),
               \A i \in 1..Len(vs) : vs[i] = T[i],
               NEW ws \in Seq(StackTypes), val_stack' = vs \o ws
        PROVE  h <= Len(val_stack') /\ \A i \in 1..h : val_stack'[i] = T[i]
    <2>1. /\ Len(val_stack') = Len(vs) + Len(ws) /\ Len(vs) \in Nat /\ Len(ws) \in Nat
          /\ \A i \in 1..Len(vs) : val_stack'[i] = vs[i]
      BY <1>4, PushKeeps
    <2> QED BY <1>2, <1>4, <2>1
  <1>5. CASE on_nop(ins)
    BY <1>2, <1>5 DEF on_nop
  <1>6. CASE on_block(ins) \/ on_call(ins) \/ on_data(ins)
    <2>1. PICK ws \in Seq(StackTypes) : val_stack' = AfterOperands(ins) \o ws
      <3>1. CASE on_block(ins)
        <4>1. val_stack' = AfterOperands(ins) \o ins.type.params
          BY <3>1 DEF on_block
        <4>2. ins.type.params \in Seq(ValTypes)
          BY <3>1, InstrsAssumption DEF on_block, FuncTypes
        <4>3. ins.type.params \in Seq(StackTypes)
          BY <4>2, SeqMonotonic DEF StackTypes
        <4> QED BY <4>1, <4>3
      <3>2. CASE on_call(ins)
        <4>1. val_stack' = AfterOperands(ins) \o Callees[ins.fn + 1].type.results
          BY <3>2 DEF on_call
        <4>2. ins.fn + 1 \in 1..Len(Callees)
          <5>1. ins.fn \in Nat /\ ins.fn < Len(Callees)
            BY <1>1, <3>2, DecodeType, InstrsAssumption DEF IndexOk, on_call
          <5> QED BY <5>1, CalleesAssumption
        <4>3. Callees[ins.fn + 1].type.results \in Seq(ValTypes)
          BY <4>2, CalleeType DEF FuncTypes
        <4>4. Callees[ins.fn + 1].type.results \in Seq(StackTypes)
          BY <4>3, SeqMonotonic DEF StackTypes
        <4> QED BY <4>1, <4>4
      <3>3. CASE on_data(ins)
        <4>1. val_stack' = AfterOperands(ins) \o Pushes(ins) /\ ins.op \in LocalOps \cup DataOps
          BY <3>3 DEF on_data
        <4> QED BY <1>1, <4>1, DecodeType, PushesType
      <3> QED BY <1>6, <3>1, <3>2, <3>3
    <2>2. CASE Operands(ins) = << >>
      BY <1>2, <1>4, <2>1, <2>2 DEF AfterOperands
    <2>3. CASE Operands(ins) # << >>
      <3> DEFINE ts == Operands(ins)
      <3>1. AfterOperands(ins) = PopVals(T, Top, ts) /\ ts \in Seq(Types)
        BY <1>1, <2>3, DecodeType, OperandsType DEF AfterOperands
      <3> HIDE DEF ts
      <3> QED BY <1>2, <1>4, <2>1, <3>1, PopKeeps
    <2> QED BY <2>2, <2>3
  <1>7. CASE on_else(ins) \/ on_end(ins)
    <2>1. PICK ws \in Seq(StackTypes) : val_stack' = AfterPopCtrl \o ws
      BY <1>2, <1>7 DEF on_else, on_end
    <2>2. AfterPopCtrl = PopVals(T, Top, Top.end_types)
      BY DEF AfterPopCtrl
    <2> QED BY <1>2, <1>4, <2>1, <2>2, PopKeeps
  <1>8. CASE on_br_or_if(ins)
    <2>1. CASE ins.op = "br"
      BY <1>3, <1>8, <2>1 DEF on_br_or_if
    <2>2. CASE ins.op = "br_if"
      <3> DEFINE ts == label_types(LabelFrame(ins.lth))
                 vs == PopVals(T, Top, <<"i32">>)
      <3>1. val_stack' = PopVals(vs, Top, ts) \o ts
        BY <1>8, <2>2 DEF on_br_or_if
      <3>2. ts \in Seq(StackTypes) /\ ts \in Seq(Types)
        <4>1. ins.lth \in Nat /\ ins.lth < Len(ctrl_stack)
          BY <1>1, <2>2, DecodeType, InstrsAssumption DEF IndexOk
        <4> QED BY <4>1, LabelType
      <3>3. <<"i32">> \in Seq(Types)
        BY TypeNames
      <3> HIDE DEF ts
      <3>4. /\ vs \in Seq(StackTypes) /\ h <= Len(vs) /\ Len(vs) <= Len(T)
            /\ \A i \in 1..Len(vs) : vs[i] = T[i]
        BY <1>2, <3>3, PopKeeps
      <3> HIDE DEF vs
      <3> DEFINE us == PopVals(vs, Top, ts)
      <3>5. /\ us \in Seq(StackTypes) /\ h <= Len(us) /\ Len(us) <= Len(vs)
            /\ \A i \in 1..Len(us) : us[i] = vs[i]
        BY <1>2, <3>2, <3>4, PopKeeps
      <3> HIDE DEF us
      <3>6. /\ Len(us) <= Len(T) /\ \A i \in 1..Len(us) : us[i] = T[i]
        BY <1>2, <3>4, <3>5
      <3>7. val_stack' = us \o ts
        BY <3>1 DEF us
      <3> QED BY <1>4, <3>2, <3>5, <3>6, <3>7
    <2> QED BY <1>8, <2>1, <2>2 DEF on_br_or_if
  <1>9. CASE on_unreachable(ins) \/ on_return(ins) \/ on_br_table(ins)
    BY <1>3, <1>9 DEF on_unreachable, on_return, on_br_table
  <1> QED BY <1>5, <1>6, <1>7, <1>8, <1>9 DEF Step

----------------------------------------------------------------------------
(***************************************************************************)
(* The invariant of the validation.  Arrives(a, U) says that an activation *)
(* may get to address a with the types U on its stack: the validator has   *)
(* seen them there, or is there now.  Every reachable instruction takes    *)
(* its operands from the types seen before it and leads only to places     *)
(* where what it leaves is expected.  A slot without a target leads to the *)
(* end of the block that it is pending on, whose types are known already.  *)
(***************************************************************************)
\* The block of frame p ends where all blocks around it are reachable.
Alive(p) == \A q \in 1..(p - 1) : ~ctrl_stack[q].unreachable

\* The stack below frame p.
Base(p) == SubSeq(val_stack, 1, ctrl_stack[p].height)

Landed(ins, T, slot) ==
  IF ins.op \in {"if", "else"} THEN Carried(ins, T) ELSE Moved(slot, Carried(ins, T))

Arrives(a, U) ==
  \/ ctrl_stack # << >> /\ a = offset /\ ~InDeadCode /\ val_stack = U
  \/ \E k \in 1..Len(code) :
       /\ code[k].at = a
       /\ IF k = Len(code) /\ ctrl_stack = << >>
            THEN U = f.type.results
            ELSE ~code[k].dead /\ code[k].types = U

\* What a slot of ins that is pending on fr brings there: the slot of an if
\* leads to the else, or to the end of an if whose parameters are its results.
Expected(fr, ins) == IF ins.op = "if" THEN fr.start_types ELSE label_types(fr)

SlotFlows(k, s) ==
  LET ins == code[k].ins
      T   == code[k].types
      U   == Landed(ins, T, jt[s])
  IN  /\ ins.op \in {"br", "br_if", "br_table"} =>
           jt[s].stack_offset + jt[s].arity <= Len(Carried(ins, T))
      /\ \A p \in 1..Len(ctrl_stack) :
           s - 1 \in Pending(p) =>
             Alive(p) /\ U = Base(p) \o Expected(ctrl_stack[p], ins)
      /\ Waiting(s) \/ Arrives(Target(jt[s]), U)

Flows(k) ==
  LET ins == code[k].ins
      T   == code[k].types
  IN  /\ Takes(ins, T, stack_size_max)
      /\ ins.op \notin NoFall => Arrives(NextAt(k), After(ins, T))
      /\ \A s \in (code[k].slot + 1)..EndSlot(k) : SlotFlows(k, s)

AllFlow ==
  \A k \in 1..Len(code) :
    code[k].dead \/ (k = Len(code) /\ ctrl_stack = << >>) \/ Flows(k)

\* Only unreachable code has values of no known type.
Solid ==
  /\ \A p \in 1..Len(ctrl_stack) : Alive(p) =>
       \A i \in 1..ctrl_stack[p].height : val_stack[i] \in ValTypes
  /\ ~InDeadCode => \A i \in 1..Len(val_stack) : val_stack[i] \in ValTypes

LoopsArrive ==
  \A p \in 1..Len(ctrl_stack) :
    ctrl_stack[p].type = "loop" /\ Alive(p) =>
      Arrives(ctrl_stack[p].pc, Base(p) \o ctrl_stack[p].start_types)

Entered == phase \in {"decode", "ready"} => Arrives(0, << >>)

\* The first slot that is pending on an if, and no other, is the if's own.
IfSlots ==
  \A p \in 1..Len(ctrl_stack) :
    /\ \A i \in Pending(p) : i < Len(jt)
    /\ ctrl_stack[p].type = "if" => Pending(p) # {}
    /\ \A k \in 1..Len(code) : \A s \in (code[k].slot + 1)..EndSlot(k) :
         s - 1 \in Pending(p) =>
           (code[k].ins.op = "if" <=>
              ctrl_stack[p].type = "if" /\ s - 1 = Min(Pending(p)))

Roomy ==
  /\ Len(val_stack) <= stack_size_max
  /\ \A k \in 1..Len(code) : Len(code[k].types) <= stack_size_max
  /\ code # << >> /\ ctrl_stack = << >> => Len(f.type.results) <= stack_size_max

There == \A k \in 1..Len(code) : code[k].ins.op \in EntityOps => code[k].ins.there

\* The slot's stack_offset and arity hold every stack of the function.
Shallow == stack_size_max < 32767 /\ stack_size_max <= U16_MAX

FlowParts ==
  /\ AllFlow /\ Solid /\ LoopsArrive /\ Entered
  /\ IfSlots /\ FirstFrame /\ Roomy /\ There

FlowInv ==
  /\ Len(val_stack) <= stack_size_max
  /\ skipped = {} /\ Shallow => FlowParts

----------------------------------------------------------------------------
(***************************************************************************)
(* What the callbacks other than those of else and end do to the frames.   *)
(***************************************************************************)
SameBlock(p) ==
  /\ ctrl_stack'[p].height = ctrl_stack[p].height
  /\ ctrl_stack'[p].start_types = ctrl_stack[p].start_types
  /\ ctrl_stack'[p].end_types = ctrl_stack[p].end_types

\* The frame that block, loop and if push.
Opened(ins, fr) ==
  /\ ~fr.unreachable /\ fr.height <= Len(val_stack)
  /\ \A i \in 1..fr.height : val_stack'[i] = val_stack[i]
  /\ val_stack' = SubSeq(val_stack', 1, fr.height) \o fr.start_types
  /\ fr.type = ins.op
  /\ fr.pending_jt_slots = IF ins.op = "if" THEN {Len(jt)} ELSE {}

Flowing(ins) ==
  LET n == Len(ctrl_stack)
  IN  /\ Kept
      /\ \A p \in 1..n : SameBlock(p)
      /\ \A p \in 1..(n - 1) : ctrl_stack'[p].unreachable = ctrl_stack[p].unreachable
      /\ ctrl_stack'[n].unreachable = (ins.op \in NoFall \/ ctrl_stack[n].unreachable)
      /\ IF ins.op \in {"block", "loop", "if"}
           THEN Len(ctrl_stack') = n + 1 /\ Opened(ins, ctrl_stack'[n + 1])
           ELSE Len(ctrl_stack') = n

\* Instructions that open no block and make no slot but return's.
LEMMA PlainFlowing ==
  ASSUME TInv, ctrl_stack # << >>, NEW ins \in Instrs,
         \/ on_unreachable(ins) \/ on_return(ins)
         \/ on_nop(ins) \/ on_call(ins) \/ on_data(ins)
  PROVE  Flowing(ins)
  <1>1. Kept
    BY PlainKept
  <1>2. ctrl_stack \in Seq(Frames) /\ Len(ctrl_stack) \in 1..Len(ctrl_stack)
    BY TopFrame DEF TInv, TypeOK
  <1>3. CASE on_unreachable(ins) \/ on_return(ins)
    <2>1. ctrl_stack' = Unreachable(ctrl_stack) /\ ins.op \in {"unreachable", "return"}
      BY <1>3 DEF on_unreachable, on_return
    <2>2. /\ SameFrames(ctrl_stack, ctrl_stack')
          /\ \A p \in 1..Len(ctrl_stack) : ctrl_stack'[p].unreachable =
               (p = Len(ctrl_stack) \/ ctrl_stack[p].unreachable)
      BY <1>2, <2>1, UnreachableFrames
    <2>3. \A p \in 1..(Len(ctrl_stack) - 1) : ctrl_stack[p] \in Frames /\ p # Len(ctrl_stack)
                                              /\ p \in 1..Len(ctrl_stack)
      BY <1>2
    <2>4. \A p \in 1..(Len(ctrl_stack) - 1) :
            ctrl_stack'[p].unreachable = ctrl_stack[p].unreachable
      BY <2>2, <2>3 DEF Frames
    <2> QED BY <1>1, <1>2, <2>1, <2>2, <2>4 DEF Flowing, SameBlock, SameFrames, NoFall
  <1>4. CASE on_nop(ins) \/ on_call(ins) \/ on_data(ins)
    <2>1. ctrl_stack' = ctrl_stack /\ ins.op \in {"nop", "call"} \cup LocalOps \cup DataOps
      BY <1>4 DEF on_nop, on_call, on_data
    <2>2. ins.op \notin NoFall /\ ins.op \notin {"block", "loop", "if"}
      BY <2>1 DEF NoFall, LocalOps, DataOps
    <2>3. Top \in Frames
      BY TopFrame
    <2> QED BY <1>1, <2>1, <2>2, <2>3 DEF Flowing, SameBlock, Top, Frames
  <1> QED BY <1>3, <1>4

\* block, loop and if open one frame on top of the others.
LEMMA BlockFlowing ==
  ASSUME TInv, ctrl_stack # << >>, NEW ins \in Instrs, on_block(ins)
  PROVE  Flowing(ins)
  <1> DEFINE n == Len(ctrl_stack)
             vs == AfterOperands(ins)
             fr == NewFrame(ins.op, ins.type, Len(vs),
                            IF ins.op = "loop" THEN Imm + 1 ELSE 0)
             new == IF ins.op = "if"
                      THEN [fr EXCEPT !.pending_jt_slots = {Len(jt)}] ELSE fr
  <1>1. Kept
    BY BlockKept
  <1>2. /\ ins.op \in {"block", "loop", "if"} /\ Decode(ins)
        /\ ctrl_stack' = Append(ctrl_stack, new)
        /\ val_stack' = vs \o ins.type.params
    BY DEF on_block
  <1>3. /\ new.type = ins.op /\ new.height = Len(vs) /\ new.unreachable = FALSE
        /\ new.start_types = ins.type.params
        /\ new.pending_jt_slots = IF ins.op = "if" THEN {Len(jt)} ELSE {}
    BY DEF NewFrame
  <1>4. ctrl_stack \in Seq(Frames) /\ n \in 1..n /\ n \in Nat
    BY TopFrame DEF TInv, TypeOK
  <1> HIDE DEF new
  <1>5. /\ Len(ctrl_stack') = n + 1 /\ ctrl_stack'[n + 1] = new
        /\ \A p \in 1..n : ctrl_stack'[p] = ctrl_stack[p]
    BY <1>2, <1>4
  <1>6. /\ vs \in Seq(StackTypes) /\ Len(vs) <= Len(val_stack)
        /\ \A i \in 1..Len(vs) : vs[i] = val_stack[i]
    <2>1. Top \in Frames /\ Top.height <= Len(val_stack) /\ val_stack \in Seq(StackTypes)
      BY TopFrame DEF TInv, TypeOK
    <2>2. CASE Operands(ins) = << >>
      BY <2>1, <2>2 DEF AfterOperands
    <2>3. CASE Operands(ins) # << >>
      <3> DEFINE ts == Operands(ins)
      <3>1. vs = PopVals(val_stack, Top, ts) /\ ts \in Seq(Types)
        BY <1>2, <2>3, DecodeType, OperandsType DEF AfterOperands
      <3> HIDE DEF ts, vs
      <3> QED BY <2>1, <3>1, PopKeeps
    <2> QED BY <2>2, <2>3
  <1>7. ins.type.params \in Seq(StackTypes)
    <2>1. ins.type.params \in Seq(ValTypes)
      BY <1>2, InstrsAssumption DEF FuncTypes
    <2> QED BY <2>1, SeqMonotonic DEF StackTypes
  <1> HIDE DEF vs
  <1>8. /\ \A i \in 1..Len(vs) : val_stack'[i] = vs[i]
        /\ SubSeq(val_stack', 1, Len(vs)) = vs
    BY <1>2, <1>6, <1>7, PushKeeps
  <1>9. Opened(ins, new)
    BY <1>2, <1>3, <1>6, <1>8 DEF Opened
  <1>10. ins.op \notin NoFall
    BY <1>2 DEF NoFall
  <1>11. ctrl_stack[n].unreachable \in BOOLEAN
    <2>1. Top \in Frames
      BY TopFrame
    <2> QED BY <2>1 DEF Frames, Top
  <1>12. \A p \in 1..(n - 1) : p \in 1..n
    BY <1>4
  <1> QED BY <1>1, <1>2, <1>4, <1>5, <1>9, <1>10, <1>11, <1>12 DEF Flowing, SameBlock

\* br and br_if add their slot to the frame of the label, or resolve it.
LEMMA BrFlowing ==
  ASSUME TInv, ctrl_stack # << >>, NEW ins \in Instrs, on_br_or_if(ins)
  PROVE  /\ Flowing(ins)
         /\ LabelAt(ins.lth) \in 1..Len(ctrl_stack)
         /\ \A p \in 1..Len(ctrl_stack) :
              ctrl_stack'[p].pending_jt_slots =
                IF p = LabelAt(ins.lth) THEN ctrl_stack[p].pending_jt_slots \cup {Len(jt)}
                                        ELSE ctrl_stack[p].pending_jt_slots
  <1> DEFINE n == Len(ctrl_stack)
             q == LabelAt(ins.lth)
             J == Len(jt)
             cs == [ctrl_stack EXCEPT ![q].pending_jt_slots = @ \cup {J}]
  <1>1. Kept
    BY BrKept
  <1>2. /\ ins.op \in {"br", "br_if"} /\ Decode(ins)
        /\ ctrl_stack' = IF ins.op = "br" THEN Unreachable(cs) ELSE cs
    BY DEF on_br_or_if
  <1>3. ctrl_stack \in Seq(Frames) /\ n \in 1..n /\ n \in Nat /\ J \in Nat
    BY TopFrame DEF TInv, TypeOK
  <1>4. q \in 1..n
    <2>1. ins.lth \in Nat /\ ins.lth < Len(ctrl_stack)
      BY <1>2, DecodeType, InstrsAssumption DEF IndexOk
    <2> QED BY <2>1, LabelType
  <1>5. /\ SameFrames(ctrl_stack, cs)
        /\ \A p \in 1..n :
             /\ cs[p].pending_jt_slots =
                  IF p = q THEN ctrl_stack[p].pending_jt_slots \cup {J}
                           ELSE ctrl_stack[p].pending_jt_slots
             /\ cs[p].unreachable = ctrl_stack[p].unreachable
    BY <1>3, <1>4, PendingFrames, ZenonT(60)
  <1> HIDE DEF cs
  <1>6. cs \in Seq(Frames) /\ cs # << >> /\ Len(cs) = n
    BY <1>3, <1>5 DEF SameFrames
  <1>7. \A p \in 1..n : ctrl_stack[p] \in Frames
    BY <1>3
  <1>8. \A p \in 1..n : ctrl_stack[p].unreachable \in BOOLEAN
    BY <1>7 DEF Frames
  <1>9. \A p \in 1..(n - 1) : p \in 1..n /\ p # n
    BY <1>3
  <1>10. CASE ins.op = "br"
    <2>1. /\ SameFrames(cs, ctrl_stack')
          /\ \A p \in 1..n :
               /\ ctrl_stack'[p].pending_jt_slots = cs[p].pending_jt_slots
               /\ ctrl_stack'[p].unreachable = (p = n \/ cs[p].unreachable)
      BY <1>2, <1>6, <1>10, UnreachableFrames
    <2>2. \A p \in 1..(n - 1) : ctrl_stack'[p].unreachable = ctrl_stack[p].unreachable
      BY <1>5, <1>8, <1>9, <2>1
    <2>3. ctrl_stack'[n].unreachable = TRUE
      BY <1>3, <2>1
    <2>4. Len(ctrl_stack') = n /\ \A p \in 1..n : SameBlock(p)
      BY <1>5, <1>6, <2>1 DEF SameFrames, SameBlock
    <2>5. \A p \in 1..n : ctrl_stack'[p].pending_jt_slots =
            IF p = q THEN ctrl_stack[p].pending_jt_slots \cup {J}
                     ELSE ctrl_stack[p].pending_jt_slots
      BY <1>4, <1>5, <2>1
    <2>6. ins.op \in NoFall /\ ins.op \notin {"block", "loop", "if"}
      BY <1>10 DEF NoFall
    <2> QED BY <1>1, <1>4, <2>2, <2>3, <2>4, <2>5, <2>6 DEF Flowing
  <1>11. CASE ins.op = "br_if"
    <2>1. ctrl_stack' = cs
      BY <1>2, <1>11
    <2>2. \A p \in 1..(n - 1) : ctrl_stack'[p].unreachable = ctrl_stack[p].unreachable
      BY <1>5, <1>9, <2>1
    <2>3. ctrl_stack'[n].unreachable = ctrl_stack[n].unreachable
      BY <1>3, <1>5, <2>1
    <2>4. Len(ctrl_stack') = n /\ \A p \in 1..n : SameBlock(p)
      BY <1>5, <2>1 DEF SameFrames, SameBlock
    <2>5. \A p \in 1..n : ctrl_stack'[p].pending_jt_slots =
            IF p = q THEN ctrl_stack[p].pending_jt_slots \cup {J}
                     ELSE ctrl_stack[p].pending_jt_slots
      BY <1>4, <1>5, <2>1
    <2>6. ins.op \notin NoFall /\ ins.op \notin {"block", "loop", "if"}
      BY <1>11 DEF NoFall
    <2>7. ctrl_stack'[n].unreachable = (ins.op \in NoFall \/ ctrl_stack[n].unreachable)
      BY <1>3, <1>8, <2>3, <2>6
    <2> QED BY <1>1, <1>4, <2>2, <2>4, <2>5, <2>6, <2>7 DEF Flowing
  <1> QED BY <1>2, <1>10, <1>11

\* br_table does so label by label.
LEMMA BrTableFlowing ==
  ASSUME TInv, ctrl_stack # << >>, NEW ins \in Instrs, on_br_table(ins)
  PROVE  Flowing(ins)
  <1> DEFINE n == Len(ctrl_stack)
  <1>1. Kept /\ ins.op = "br_table"
    BY BrTableKept DEF on_br_table
  <1>2. ctrl_stack \in Seq(Frames) /\ n \in 1..n /\ n \in Nat
    BY TopFrame DEF TInv, TypeOK
  <1>3. /\ SameFrames(ctrl_stack, ctrl_stack')
        /\ \A p \in 1..n :
             ctrl_stack'[p].unreachable = (p = n \/ ctrl_stack[p].unreachable)
    BY BrTableShape
  <1>4. \A p \in 1..n : ctrl_stack[p] \in Frames
    BY <1>2
  <1>5. \A p \in 1..n : ctrl_stack[p].unreachable \in BOOLEAN
    BY <1>4 DEF Frames
  <1>6. \A p \in 1..(n - 1) : p \in 1..n /\ p # n
    BY <1>2
  <1>7. \A p \in 1..(n - 1) : ctrl_stack'[p].unreachable = ctrl_stack[p].unreachable
    BY <1>3, <1>5, <1>6
  <1>8. ctrl_stack'[n].unreachable = TRUE
    BY <1>2, <1>3
  <1>9. Len(ctrl_stack') = n /\ \A p \in 1..n : SameBlock(p)
    BY <1>3 DEF SameFrames, SameBlock
  <1>10. ins.op \in NoFall /\ ins.op \notin {"block", "loop", "if"}
    BY <1>1 DEF NoFall
  <1> QED BY <1>1, <1>7, <1>8, <1>9, <1>10 DEF Flowing

\* Every instruction but else and end leaves the open blocks as they are.
LEMMA StepFlowing ==
  ASSUME TInv, ctrl_stack # << >>, NEW ins \in Instrs, Step(ins),
         ins.op \notin {"else", "end"}
  PROVE  Flowing(ins)
  <1>1. ~on_else(ins) /\ ~on_end(ins)
    BY DEF on_else, on_end
  <1> QED BY <1>1, PlainFlowing, BlockFlowing, BrFlowing, BrTableFlowing DEF Step

(***************************************************************************)
(* else and end.  Where no value is left over, the stack is cut down to    *)
(* the frame before the block's types are pushed.                          *)
(***************************************************************************)
LEMMA PopCtrlBase ==
  ASSUME TInv, ctrl_stack # << >>, Leftover = {}
  PROVE  AfterPopCtrl = Base(Len(ctrl_stack)) /\ Len(AfterPopCtrl) = Top.height
  <1> DEFINE T == val_stack
             ts == Top.end_types
             h == Len(T) - Top.height
  <1>1. /\ Top \in Frames /\ Top.height \in Nat /\ Top.height <= Len(T) /\ Len(T) \in Nat
        /\ T \in Seq(StackTypes) /\ ts \in Seq(Types) /\ Len(ts) \in Nat
    BY TopFrame DEF TInv, TypeOK
  <1>2. /\ Top.height <= Len(AfterPopCtrl) /\ Len(AfterPopCtrl) <= Len(T)
        /\ AfterPopCtrl \in Seq(StackTypes)
    BY <1>1, PopKeeps DEF AfterPopCtrl
  <1>3. ~(Len(AfterPopCtrl) > Top.height)
    BY DEF Leftover
  <1>4. Len(AfterPopCtrl) = Top.height
    BY <1>1, <1>2, <1>3
  <1>5. AfterPopCtrl = SubSeq(T, 1, Len(T) - Taken(h, Len(ts)))
    BY DEF AfterPopCtrl, PopVals
  <1>6. Len(T) - Taken(h, Len(ts)) \in 0..Len(T)
    BY <1>1 DEF Taken
  <1>7. Len(AfterPopCtrl) = Len(T) - Taken(h, Len(ts))
    BY <1>1, <1>5, <1>6, Lower
  <1> QED BY <1>4, <1>5, <1>7 DEF Base, Top

Switched ==
  LET n == Len(ctrl_stack)
      P == ctrl_stack[n].pending_jt_slots
  IN  /\ Swapped
      /\ SameBlock(n) /\ ~ctrl_stack'[n].unreachable
      /\ ctrl_stack'[n].pending_jt_slots = (P \ {Min(P)}) \cup {Len(jt)}
      /\ val_stack' = Base(n) \o ctrl_stack[n].start_types
      /\ \A s \in 1..Len(jt) :
           /\ jt'[s].stack_offset = jt[s].stack_offset /\ jt'[s].arity = jt[s].arity
           /\ IF s - 1 = Min(P) THEN Target(jt'[s]) = offset' ELSE jt'[s] = jt[s]

\* else turns the innermost if into an else with the same label.
LEMMA ElseSwitched ==
  ASSUME TInv, NEW ins \in Instrs, on_else(ins), skipped' = {}
  PROVE  Switched
  <1> DEFINE n == Len(ctrl_stack)
             J == Len(jt)
             P == ctrl_stack[n].pending_jt_slots
             if_slot == Min(P)
             t == Resolve(jt, {if_slot}, Imm)
             ft == [params |-> Top.start_types, results |-> Top.end_types]
             fr == NewFrame("else", ft, Len(AfterPopCtrl), 0)
             S == (P \ {if_slot}) \cup {J}
             new == [fr EXCEPT !.pending_jt_slots = S]
  <1>1. Swapped
    BY ElseSwapped
  <1>2. /\ ins.op = "else" /\ Decode(ins)
        /\ \E x : jt' = Append(t, x)
        /\ ctrl_stack' = Append(PopFrame(ctrl_stack), new)
        /\ val_stack' = AfterPopCtrl \o Top.start_types
        /\ Skip(Leftover)
    BY DEF on_else, Top
  <1>3. ctrl_stack # << >> /\ Leftover = {}
    BY <1>2 DEF Decode, TouchesFrame, Skip
  <1>4. /\ jt \in Seq(Slots) /\ J \in Nat /\ n \in Nat /\ n > 0 /\ n \in 1..n
    BY <1>3 DEF TInv, TypeOK
  <1>5. Imm \in Int /\ Imm = offset'
    BY <1>2, DecodeType DEF Imm, Size
  <1>6. AfterPopCtrl = Base(n) /\ Len(AfterPopCtrl) = Top.height
    BY <1>3, PopCtrlBase
  <1>7. /\ new.pending_jt_slots = S /\ new.height = Top.height
        /\ new.start_types = Top.start_types /\ new.end_types = Top.end_types
        /\ new.unreachable = FALSE
    BY <1>6 DEF NewFrame
  <1>8. PopFrame(ctrl_stack) \in Seq(Frames) /\ Len(PopFrame(ctrl_stack)) = n - 1
    BY <1>3, PopFrameType
  <1> HIDE DEF new, S, if_slot
  <1>9. ctrl_stack'[n] = new
    BY <1>2, <1>4, <1>8
  <1>10. /\ t \in Seq(Slots) /\ Len(t) = J
         /\ \A s \in 1..J : t[s].stack_offset = jt[s].stack_offset /\ t[s].arity = jt[s].arity
    BY <1>4, <1>5, Resolved
  <1>11. \A s \in 1..J : IF s - 1 = if_slot THEN Target(t[s]) = Imm ELSE t[s] = jt[s]
    BY <1>4, <1>5, ResolvedTarget
  <1> HIDE DEF t
  <1>12. \A s \in 1..J : jt'[s] = t[s]
    BY <1>2, <1>4, <1>10
  <1>13. \A s \in 1..J :
           /\ jt'[s].stack_offset = jt[s].stack_offset /\ jt'[s].arity = jt[s].arity
           /\ IF s - 1 = Min(P) THEN Target(jt'[s]) = offset' ELSE jt'[s] = jt[s]
    BY <1>5, <1>10, <1>11, <1>12 DEF if_slot
  <1>14. val_stack' = Base(n) \o ctrl_stack[n].start_types
    BY <1>2, <1>6 DEF Top
  <1> HIDE DEF P
  <1> QED BY <1>1, <1>7, <1>9, <1>13, <1>14 DEF Switched, SameBlock, Top, S, P, if_slot

Closing ==
  LET n == Len(ctrl_stack)
  IN  /\ Popped
      /\ val_stack' = Base(n) \o ctrl_stack[n].end_types
      /\ \A s \in 1..Len(jt) :
           jt'[s].stack_offset = jt[s].stack_offset /\ jt'[s].arity = jt[s].arity
      /\ ctrl_stack[n].type = "if" => ctrl_stack[n].start_types = ctrl_stack[n].end_types

\* end closes the innermost block, resolving its slots.
LEMMA EndCloses ==
  ASSUME TInv, NEW ins \in Instrs, on_end(ins), skipped' = {}
  PROVE  Closing
  <1> DEFINE n == Len(ctrl_stack)
             gap == IF Top.type = "if" /\ Top.start_types # Top.end_types
                      THEN {"no_else"} ELSE {}
  <1>1. Popped
    BY EndPopped
  <1>2. /\ ins.op = "end" /\ Decode(ins)
        /\ jt' = Resolve(jt, Top.pending_jt_slots, EndTarget(Top))
        /\ val_stack' = AfterPopCtrl \o Top.end_types
        /\ Skip(Leftover \cup gap)
    BY DEF on_end
  <1>3. ctrl_stack # << >>
    BY <1>2 DEF Decode, Valid
  <1>4. Leftover = {} /\ gap = {}
    BY <1>2 DEF Skip
  <1>5. EndTarget(Top) \in Int /\ jt \in Seq(Slots)
    BY <1>3, TopFrame, EndTargetType DEF TInv, TypeOK
  <1>6. \A s \in 1..Len(jt) :
          jt'[s].stack_offset = jt[s].stack_offset /\ jt'[s].arity = jt[s].arity
    BY <1>2, <1>5, Resolved
  <1>7. AfterPopCtrl = Base(n)
    BY <1>3, <1>4, PopCtrlBase
  <1>8. Top.type = "if" => Top.start_types = Top.end_types
    BY <1>4
  <1> QED BY <1>1, <1>2, <1>6, <1>7, <1>8 DEF Closing, Top

----------------------------------------------------------------------------
(***************************************************************************)
(* What survives a callback of a function that fails no check.             *)
(***************************************************************************)
Live(ins) ==
  /\ TInv /\ ctrl_stack # << >> /\ ins \in Instrs /\ Step(ins) /\ skipped' = {}

\* The three kinds of step.
LEMMA StepKinds ==
  ASSUME NEW ins, Live(ins)
  PROVE  /\ Decode(ins) /\ StepShape(ins)
         /\ ins.op \notin {"else", "end"} => Flowing(ins)
         /\ ins.op = "else" => Switched
         /\ ins.op = "end" => Closing
  <1>1. TInv /\ ctrl_stack # << >> /\ ins \in Instrs /\ Step(ins) /\ skipped' = {}
    BY DEF Live
  <1>2. ins.op = "else" => on_else(ins)
    BY <1>1 DEF Step, on_unreachable, on_nop, on_block, on_else, on_end, on_br_or_if,
          on_br_table, on_return, on_call, on_data, LocalOps, DataOps
  <1>3. ins.op = "end" => on_end(ins)
    BY <1>1 DEF Step, on_unreachable, on_nop, on_block, on_else, on_end, on_br_or_if,
          on_br_table, on_return, on_call, on_data, LocalOps, DataOps
  <1> QED BY <1>1, <1>2, <1>3, StepsShape, StepFlowing, ElseSwitched, EndCloses

\* How many frames there are, and that those below the innermost are as they were.
LEMMA OuterFrames ==
  ASSUME NEW ins, Live(ins)
  PROVE  LET n == Len(ctrl_stack)
         IN  /\ n \in Nat /\ n \in 1..n /\ Len(ctrl_stack') \in Nat
             /\ Len(ctrl_stack') = IF ins.op \in {"block", "loop", "if"} THEN n + 1
                                   ELSE IF ins.op = "end" THEN n - 1 ELSE n
             /\ \A q \in 1..(n - 1) :
                  ctrl_stack'[q].unreachable = ctrl_stack[q].unreachable
             /\ ctrl_stack' \in Seq(Frames) /\ ctrl_stack \in Seq(Frames)
  <1>1. TInv /\ ctrl_stack # << >>
    BY DEF Live
  <1>2. /\ Len(ctrl_stack) \in Nat /\ Len(ctrl_stack) \in 1..Len(ctrl_stack)
        /\ ctrl_stack \in Seq(Frames)
    BY <1>1, TopFrame DEF TInv, TypeOK
  <1>3. ctrl_stack' \in Seq(Frames) /\ Len(ctrl_stack') \in Nat
    BY StepKinds DEF StepShape
  <1>4. CASE ins.op \notin {"else", "end"}
    BY <1>2, <1>3, <1>4, StepKinds DEF Flowing
  <1>5. CASE ins.op = "else"
    BY <1>2, <1>3, <1>5, StepKinds DEF Switched, Swapped
  <1>6. CASE ins.op = "end"
    BY <1>2, <1>3, <1>6, StepKinds DEF Closing, Popped
  <1> QED BY <1>4, <1>5, <1>6

\* A block that stays open keeps its types, its base and its label.
LEMMA Survives ==
  ASSUME NEW ins, Live(ins), NEW p \in 1..Len(ctrl_stack), p <= Len(ctrl_stack')
  PROVE  /\ SameBlock(p) /\ Base(p)' = Base(p) /\ (Alive(p)' <=> Alive(p))
         /\ label_types(ctrl_stack'[p]) = label_types(ctrl_stack[p])
         /\ \A i : Expected(ctrl_stack'[p], i) = Expected(ctrl_stack[p], i)
         /\ IF ins.op = "else" /\ p = Len(ctrl_stack)
              THEN ctrl_stack[p].type = "if" /\ ctrl_stack'[p].type = "else"
              ELSE /\ ctrl_stack'[p].type = ctrl_stack[p].type
                   /\ ctrl_stack'[p].pc = ctrl_stack[p].pc
  <1> DEFINE n == Len(ctrl_stack)
  <1>1. TInv /\ ctrl_stack # << >> /\ ins \in Instrs /\ Step(ins)
    BY DEF Live
  <1>2. /\ n \in Nat /\ Len(ctrl_stack') \in Nat
        /\ Len(ctrl_stack') = IF ins.op \in {"block", "loop", "if"} THEN n + 1
                              ELSE IF ins.op = "end" THEN n - 1 ELSE n
        /\ \A q \in 1..(n - 1) : ctrl_stack'[q].unreachable = ctrl_stack[q].unreachable
    BY OuterFrames
  <1>3. p \in 1..n /\ p \in Nat
    BY <1>2
  <1>4. /\ SameBlock(p)
        /\ IF ins.op = "else" /\ p = n
             THEN ctrl_stack[p].type = "if" /\ ctrl_stack'[p].type = "else"
             ELSE /\ ctrl_stack'[p].type = ctrl_stack[p].type
                  /\ ctrl_stack'[p].pc = ctrl_stack[p].pc
    <2>1. CASE ins.op \notin {"else", "end"}
      BY <2>1, StepKinds DEF Flowing, Kept
    <2>2. CASE ins.op = "end"
      <3>1. p \in 1..(n - 1)
        BY <1>2, <1>3, <2>2
      <3>2. ctrl_stack'[p] = ctrl_stack[p]
        BY <2>2, <3>1, StepKinds DEF Closing, Popped
      <3> QED BY <2>2, <3>2 DEF SameBlock
    <2>3. CASE ins.op = "else" /\ p = n
      BY <2>3, StepKinds DEF Switched, Swapped
    <2>4. CASE ins.op = "else" /\ p # n
      <3>1. p \in 1..(n - 1)
        BY <1>2, <1>3, <2>4
      <3>2. ctrl_stack'[p] = ctrl_stack[p]
        BY <2>4, <3>1, StepKinds DEF Switched, Swapped
      <3> QED BY <2>4, <3>2 DEF SameBlock
    <2> QED BY <2>1, <2>2, <2>3, <2>4
  <1>5. label_types(ctrl_stack'[p]) = label_types(ctrl_stack[p])
    BY <1>4 DEF label_types, SameBlock
  <1>6. \A i : Expected(ctrl_stack'[p], i) = Expected(ctrl_stack[p], i)
    BY <1>4, <1>5 DEF Expected, SameBlock
  <1>7. Alive(p)' <=> Alive(p)
    <2>1. \A q \in 1..(p - 1) : q \in 1..(n - 1)
      BY <1>2, <1>3
    <2> QED BY <1>2, <2>1 DEF Alive
  <1>8. Base(p)' = Base(p)
    <2> DEFINE h == ctrl_stack[p].height
    <2>1. h \in Nat /\ h <= Top.height /\ Top.height \in Nat /\ Top.height <= Len(val_stack)
      <3>1. h \in Nat /\ h <= Top.height
        BY <1>1, PopFrameType
      <3>2. Top.height \in Nat /\ Top.height <= Len(val_stack)
        BY <1>1, TopFrame
      <3> QED BY <3>1, <3>2
    <2>2. /\ Top.height <= Len(val_stack')
          /\ \A i \in 1..Top.height : val_stack'[i] = val_stack[i]
      BY <1>1, Below
    <2>3. val_stack \in Seq(StackTypes) /\ val_stack' \in Seq(StackTypes)
      BY <1>1, StepKinds DEF TInv, TypeOK, StepShape
    <2> HIDE DEF h
    <2>4. /\ h <= Len(val_stack) /\ h <= Len(val_stack')
          /\ \A i \in 1..h : val_stack'[i] = val_stack[i]
      BY <2>1, <2>2, <2>3
    <2>5. SubSeq(val_stack', 1, h) = SubSeq(val_stack, 1, h)
      BY <2>1, <2>3, <2>4, SamePrefix
    <2>6. ctrl_stack'[p].height = h
      BY <1>4 DEF SameBlock, h
    <2> QED BY <2>5, <2>6 DEF Base, h
  <1> QED BY <1>4, <1>5, <1>6, <1>7, <1>8

\* Where code is dead afterwards.
LEMMA DeadAfter ==
  ASSUME NEW ins, Live(ins)
  PROVE  /\ ins.op \notin {"else", "end"} =>
              (InDeadCode' <=> InDeadCode \/ ins.op \in NoFall)
         /\ ins.op \in {"else", "end"} => (InDeadCode' <=> ~Alive(Len(ctrl_stack)))
  <1> DEFINE n == Len(ctrl_stack)
  <1>1. /\ n \in Nat /\ n \in 1..n /\ Len(ctrl_stack') \in Nat
        /\ Len(ctrl_stack') = IF ins.op \in {"block", "loop", "if"} THEN n + 1
                              ELSE IF ins.op = "end" THEN n - 1 ELSE n
        /\ \A q \in 1..(n - 1) : ctrl_stack'[q].unreachable = ctrl_stack[q].unreachable
    BY OuterFrames
  <1>2. \A q \in 1..n : q \in 1..(n - 1) \/ q = n
    BY <1>1
  <1>3. \A q \in 1..(n - 1) : q \in 1..n
    BY <1>1
  <1>4. CASE ins.op \notin {"else", "end"}
    <2>1. Flowing(ins)
      BY <1>4, StepKinds
    <2>2. ctrl_stack'[n].unreachable = (ins.op \in NoFall \/ ctrl_stack[n].unreachable)
      BY <2>1 DEF Flowing
    <2>3. n \in 1..Len(ctrl_stack') /\ \A q \in 1..(n - 1) : q \in 1..Len(ctrl_stack')
      BY <1>1, <1>4
    <2>4. ASSUME InDeadCode \/ ins.op \in NoFall
          PROVE  InDeadCode'
      <3>1. CASE ins.op \in NoFall
        BY <2>2, <2>3, <3>1 DEF InDeadCode
      <3>2. CASE InDeadCode
        <4>1. PICK q \in 1..n : ctrl_stack[q].unreachable
          BY <3>2 DEF InDeadCode
        <4>2. ctrl_stack'[q].unreachable
          BY <1>1, <1>2, <2>2, <4>1
        <4>3. q \in 1..Len(ctrl_stack')
          BY <1>2, <2>3
        <4> QED BY <4>2, <4>3 DEF InDeadCode
      <3> QED BY <2>4, <3>1, <3>2
    <2>5. ASSUME InDeadCode'
          PROVE  InDeadCode \/ ins.op \in NoFall
      <3>1. PICK q \in 1..Len(ctrl_stack') : ctrl_stack'[q].unreachable
        BY <2>5 DEF InDeadCode
      <3>2. CASE q \in 1..(n - 1)
        BY <1>1, <1>3, <3>1, <3>2 DEF InDeadCode
      <3>3. CASE q = n
        BY <1>1, <2>2, <3>1, <3>3 DEF InDeadCode
      <3>4. CASE q = n + 1 /\ Len(ctrl_stack') = n + 1
        <4>1. ins.op \in {"block", "loop", "if"}
          BY <1>1, <1>4, <3>4
        <4>2. ~ctrl_stack'[n + 1].unreachable
          BY <2>1, <4>1 DEF Flowing, Opened
        <4> QED BY <3>1, <3>4, <4>2
      <3>5. q \in 1..(n - 1) \/ q = n \/ (q = n + 1 /\ Len(ctrl_stack') = n + 1)
        BY <1>1, <1>4
      <3> QED BY <3>2, <3>3, <3>4, <3>5
    <2> QED BY <1>4, <2>4, <2>5
  <1>5. CASE ins.op = "end"
    <2>1. Len(ctrl_stack') = n - 1
      BY <1>1, <1>5
    <2> QED BY <1>1, <1>5, <2>1 DEF InDeadCode, Alive
  <1>6. CASE ins.op = "else"
    <2>1. Len(ctrl_stack') = n
      BY <1>1, <1>6
    <2>2. ~ctrl_stack'[n].unreachable
      BY <1>6, StepKinds DEF Switched
    <2> QED BY <1>1, <1>2, <1>3, <1>6, <2>1, <2>2 DEF InDeadCode, Alive
  <1> QED BY <1>4, <1>5, <1>6

\* What a step records.
LEMMA Recorded ==
  ASSUME NEW ins, Live(ins)
  PROVE  /\ Len(code') = Len(code) + 1 /\ Len(code) \in Nat
         /\ \A k \in 1..Len(code) : code'[k] = code[k] /\ k # Len(code')
         /\ \A k \in 1..Len(code') : k \in 1..Len(code) \/ k = Len(code')
         /\ Len(code') \in 1..Len(code')
         /\ LET new == code'[Len(code')]
            IN  /\ new.at = offset /\ new.slot = Len(jt) /\ new.ins = ins
                /\ new.types = val_stack /\ (new.dead <=> InDeadCode)
         /\ offset' = offset + Size(ins) /\ f' = f /\ phase' = "decode" /\ phase = "decode"
         /\ LocalTypes' = LocalTypes
  <1>1. TInv /\ Decode(ins) /\ ins \in Instrs
    BY StepKinds DEF Live
  <1> DEFINE rec == [at    |-> offset,
                     ins   |-> ins,
                     slot  |-> Len(jt),
                     types |-> val_stack,
                     dead  |-> InDeadCode]
  <1>2. /\ code' = Append(code, rec) /\ offset' = offset + Size(ins)
        /\ f' = f /\ phase' = "decode" /\ phase = "decode"
    BY <1>1 DEF Decode
  <1>3. /\ rec.at = offset /\ rec.slot = Len(jt) /\ rec.ins = ins
        /\ rec.types = val_stack /\ (rec.dead <=> InDeadCode)
    OBVIOUS
  <1>4. code \in Seq(Decoded) /\ Len(code) \in Nat
    BY <1>1 DEF TInv, TypeOK
  <1> HIDE DEF rec
  <1>5. /\ Len(code') = Len(code) + 1 /\ code'[Len(code) + 1] = rec
        /\ \A k \in 1..Len(code) : code'[k] = code[k]
    BY <1>2, <1>4
  <1>6. /\ \A k \in 1..Len(code) : k # Len(code')
        /\ \A k \in 1..Len(code') : k \in 1..Len(code) \/ k = Len(code')
        /\ Len(code') \in 1..Len(code')
    BY <1>4, <1>5
  <1>7. LocalTypes' = LocalTypes
    BY <1>2 DEF LocalTypes
  <1> QED BY <1>2, <1>3, <1>4, <1>5, <1>6, <1>7

\* Reachable code, as the callbacks need it.
LEMMA SolidLive ==
  ASSUME ctrl_stack # << >>, Solid, ~InDeadCode
  PROVE  LiveCode
  BY DEF Solid, LiveCode

\* The end of the function's own block.
LEMMA ClosesFunction ==
  ASSUME NEW ins, Live(ins), FirstFrame, ctrl_stack' = << >>
  PROVE  ins.op = "end" /\ Len(ctrl_stack) = 1 /\ val_stack' = f.type.results
         /\ Base(1) = << >>
  <1>1. /\ Len(ctrl_stack) \in Nat /\ Len(ctrl_stack) \in 1..Len(ctrl_stack)
        /\ Len(ctrl_stack') = IF ins.op \in {"block", "loop", "if"} THEN Len(ctrl_stack) + 1
                              ELSE IF ins.op = "end" THEN Len(ctrl_stack) - 1
                              ELSE Len(ctrl_stack)
    BY OuterFrames
  <1>2. Len(ctrl_stack') = 0
    OBVIOUS
  <1>3. ins.op = "end" /\ Len(ctrl_stack) = 1
    BY <1>1, <1>2
  <1>4. ctrl_stack # << >> /\ TInv
    BY DEF Live
  <1>5. ctrl_stack[1].height = 0 /\ ctrl_stack[1].end_types = f.type.results
    BY <1>4 DEF FirstFrame
  <1>6. val_stack' = Base(1) \o f.type.results
    BY <1>3, <1>5, StepKinds DEF Closing
  <1>7. Base(1) = << >>
    BY <1>4, <1>5 DEF Base, TInv, TypeOK
  <1>8. f.type.results \in Seq(ValTypes)
    BY <1>4, FunsAssumption DEF TInv, TypeOK, FuncTypes
  <1>9. << >> \o f.type.results = f.type.results
    BY <1>8, ConcatEmptySeq
  <1> QED BY <1>3, <1>6, <1>7, <1>9

\* Where an activation may arrive stays so.
LEMMA ArrivesStays ==
  ASSUME NEW ins, Live(ins), FirstFrame, Solid, NEW a, NEW U, Arrives(a, U)
  PROVE  Arrives(a, U)'
  <1>1. ctrl_stack # << >> /\ TInv /\ ins \in Instrs /\ Step(ins)
    BY DEF Live
  <1> DEFINE N == Len(code')
  <1>2. /\ \A k \in 1..Len(code) : code'[k] = code[k] /\ k # N /\ k \in 1..N
        /\ N \in 1..N
        /\ code'[N].at = offset /\ code'[N].types = val_stack
        /\ code'[N].dead <=> InDeadCode
        /\ f' = f
    <2>1. Len(code) \in Nat /\ N = Len(code) + 1
      BY Recorded
    <2> QED BY <2>1, Recorded
  <1>3. ASSUME NEW k \in 1..Len(code), code[k].at = a, ~code[k].dead, code[k].types = U
        PROVE  Arrives(a, U)'
    <2>1. code'[k] = code[k] /\ k # N /\ k \in 1..N
      BY <1>2
    <2> QED BY <1>3, <2>1 DEF Arrives
  <1>4. ASSUME a = offset, ~InDeadCode, val_stack = U
        PROVE  Arrives(a, U)'
    <2>1. CASE ctrl_stack' # << >>
      BY <1>2, <1>4, <2>1 DEF Arrives
    <2>2. CASE ctrl_stack' = << >>
      <3>1. ins.op = "end" /\ val_stack' = f.type.results
        BY <2>2, ClosesFunction
      <3>2. Carries(ins)
        BY <1>1, <1>4, SolidLive, StepCarries
      <3>3. val_stack' = After(ins, val_stack)
        BY <3>1, <3>2 DEF Carries, NoFall
      <3>4. Needs(ins) = 0 /\ Leaves(ins, val_stack) = << >>
        BY <3>1, NeedsIs
      <3>5. After(ins, val_stack) = val_stack
        <4>1. val_stack \in Seq(StackTypes)
          BY <1>1 DEF TInv, TypeOK
        <4> QED BY <3>4, <4>1, NoChange DEF After
      <3>6. U = f'.type.results
        BY <1>2, <1>4, <3>1, <3>3, <3>5
      <3> QED BY <1>2, <1>4, <2>2, <3>6 DEF Arrives
    <2> QED BY <2>1, <2>2
  <1> QED BY <1>1, <1>3, <1>4 DEF Arrives

\* Reachable code arrives behind an instruction that does not jump for certain.
LEMMA ArrivesBehind ==
  ASSUME NEW ins, Live(ins), ~InDeadCode', ctrl_stack' # << >>, NEW U, val_stack' = U
  PROVE  Arrives(offset, U)'
  BY DEF Arrives

\* The stack that a jump leaves depends on how far it moves how many values.
LEMMA SameMove ==
  ASSUME NEW ins, NEW T, NEW a, NEW b,
         a.stack_offset = b.stack_offset, a.arity = b.arity
  PROVE  Landed(ins, T, a) = Landed(ins, T, b)
  BY DEF Landed, Moved

----------------------------------------------------------------------------
(***************************************************************************)
(* The slots that there are already.                                       *)
(***************************************************************************)
SlotContext(k, s) ==
  /\ Ordered /\ Targets /\ FirstFrame /\ Solid /\ LoopsArrive /\ IfSlots
  /\ k \in 1..Len(code) /\ s \in (code[k].slot + 1)..EndSlot(k) /\ SlotFlows(k, s)

\* A slot whose target does not change.
LEMMA UntouchedFlows ==
  ASSUME NEW ins, Live(ins), NEW k, NEW s, SlotContext(k, s), jt'[s] = jt[s],
         \A p \in 1..Len(ctrl_stack) : s - 1 \in Pending(p) =>
           p <= Len(ctrl_stack') /\ s - 1 \in ctrl_stack'[p].pending_jt_slots,
         \A p \in 1..Len(ctrl_stack') : s - 1 \in ctrl_stack'[p].pending_jt_slots =>
           p \in 1..Len(ctrl_stack) /\ s - 1 \in Pending(p)
  PROVE  SlotFlows(k, s)'
  <1> DEFINE i == code[k].ins
             T == code[k].types
             U == Landed(i, T, jt[s])
  <1>1. k \in 1..Len(code) /\ SlotFlows(k, s) /\ FirstFrame /\ Solid
    BY DEF SlotContext
  <1>2. code'[k] = code[k]
    BY <1>1, Recorded
  <1>3. /\ i.op \in {"br", "br_if", "br_table"} =>
             jt[s].stack_offset + jt[s].arity <= Len(Carried(i, T))
        /\ \A p \in 1..Len(ctrl_stack) : s - 1 \in Pending(p) =>
             Alive(p) /\ U = Base(p) \o Expected(ctrl_stack[p], i)
        /\ Waiting(s) \/ Arrives(Target(jt[s]), U)
    BY <1>1 DEF SlotFlows
  <1> HIDE DEF i, T, U
  <1>4. ASSUME NEW p \in 1..Len(ctrl_stack'), s - 1 \in ctrl_stack'[p].pending_jt_slots
        PROVE  Alive(p)' /\ U = Base(p)' \o Expected(ctrl_stack'[p], i)
    <2>1. p \in 1..Len(ctrl_stack) /\ s - 1 \in Pending(p)
      BY <1>4
    <2>2. p <= Len(ctrl_stack')
      BY <2>1
    <2>3. /\ Base(p)' = Base(p) /\ (Alive(p)' <=> Alive(p))
          /\ Expected(ctrl_stack'[p], i) = Expected(ctrl_stack[p], i)
      BY <2>1, <2>2, Survives
    <2> QED BY <1>3, <2>1, <2>3
  <1>5. ASSUME Waiting(s)
        PROVE  Waiting(s)'
    <2>1. PICK p \in 1..Len(ctrl_stack) : s - 1 \in Pending(p)
      BY <1>5 DEF Waiting, Pending
    <2>2. p <= Len(ctrl_stack') /\ s - 1 \in ctrl_stack'[p].pending_jt_slots
      BY <2>1
    <2>3. p \in 1..Len(ctrl_stack')
      BY <2>2, OuterFrames
    <2> QED BY <2>2, <2>3 DEF Waiting
  <1>6. PICK a, V : a = Target(jt[s]) /\ V = U
    OBVIOUS
  <1>7. Waiting(s)' \/ Arrives(a, V)'
    <2>1. Waiting(s) \/ Arrives(a, V)
      BY <1>3, <1>6
    <2> QED BY <1>1, <1>5, <2>1, ArrivesStays
  <1>8. Waiting(s)' \/ Arrives(Target(jt[s]), Landed(code[k].ins, code[k].types, jt[s]))'
    BY <1>2, <1>6, <1>7 DEF Arrives, i, T, U
  <1> QED BY <1>2, <1>3, <1>4, <1>8 DEF SlotFlows, Pending, i, T, U

\* A slot that gets a target where its values are expected.
LEMMA ResolvedFlows ==
  ASSUME NEW ins, Live(ins), NEW k, NEW s, SlotContext(k, s),
         jt'[s].stack_offset = jt[s].stack_offset, jt'[s].arity = jt[s].arity,
         \A p \in 1..Len(ctrl_stack') : s - 1 \in ctrl_stack'[p].pending_jt_slots =>
           p \in 1..Len(ctrl_stack) /\ s - 1 \in Pending(p),
         NEW a, a = Target(jt'[s]),
         NEW U, U = Landed(code[k].ins, code[k].types, jt[s]), Arrives(a, U)'
  PROVE  SlotFlows(k, s)'
  <1> DEFINE i == code[k].ins
             T == code[k].types
  <1>1. k \in 1..Len(code) /\ SlotFlows(k, s)
    BY DEF SlotContext
  <1>2. code'[k] = code[k]
    BY <1>1, Recorded
  <1>3. /\ i.op \in {"br", "br_if", "br_table"} =>
             jt[s].stack_offset + jt[s].arity <= Len(Carried(i, T))
        /\ \A p \in 1..Len(ctrl_stack) : s - 1 \in Pending(p) =>
             Alive(p) /\ U = Base(p) \o Expected(ctrl_stack[p], i)
    BY <1>1 DEF SlotFlows
  <1>4. U = Landed(i, T, jt'[s])
    BY SameMove
  <1> HIDE DEF i, T
  <1>5. ASSUME NEW p \in 1..Len(ctrl_stack'), s - 1 \in ctrl_stack'[p].pending_jt_slots
        PROVE  Alive(p)' /\ U = Base(p)' \o Expected(ctrl_stack'[p], i)
    <2>1. p \in 1..Len(ctrl_stack) /\ s - 1 \in Pending(p)
      BY <1>5
    <2>2. p <= Len(ctrl_stack')
      BY <1>5, OuterFrames
    <2>3. /\ Base(p)' = Base(p) /\ (Alive(p)' <=> Alive(p))
          /\ Expected(ctrl_stack'[p], i) = Expected(ctrl_stack[p], i)
      BY <2>1, <2>2, Survives
    <2> QED BY <1>3, <2>1, <2>3
  <1>6. Arrives(Target(jt[s]), Landed(code[k].ins, code[k].types, jt[s]))'
    BY <1>2, <1>4 DEF Arrives, i, T
  <1> QED BY <1>2, <1>3, <1>4, <1>5, <1>6 DEF SlotFlows, Pending, i, T

\* The slots of an instruction are in the table.
LEMMA OwnSlots ==
  ASSUME TInv, Ordered, NEW k \in 1..Len(code), NEW s \in (code[k].slot + 1)..EndSlot(k)
  PROVE  s \in 1..Len(jt) /\ s \in Nat /\ s <= Len(jt) /\ Len(jt) \in Nat
  <1>1. code[k].slot \in Nat /\ EndSlot(k) \in Nat
    BY CodeTypes
  <1>2. EndSlot(k) <= Len(jt) /\ Len(jt) \in Nat
    BY DEF Ordered, TInv, TypeOK
  <1> QED BY <1>1, <1>2

\* A slot that is there carries the types its landing place expects: behind an
\* instruction that leaves the blocks as they are,
LEMMA FlowingSlots ==
  ASSUME NEW ins, Live(ins), ins.op \notin {"else", "end"}, NEW k, NEW s, SlotContext(k, s)
  PROVE  SlotFlows(k, s)'
  <1> DEFINE n == Len(ctrl_stack)
  <1>1. TInv /\ Ordered /\ k \in 1..Len(code) /\ s \in (code[k].slot + 1)..EndSlot(k)
    BY DEF SlotContext, Live
  <1>2. s \in 1..Len(jt) /\ s \in Nat /\ s <= Len(jt) /\ Len(jt) \in Nat
    BY <1>1, OwnSlots
  <1>3. Flowing(ins) /\ Kept
    BY StepKinds DEF Flowing
  <1>4. jt'[s] = jt[s]
    BY <1>2, <1>3 DEF Kept, SameSlots
  <1>5. n \in Nat /\ Len(ctrl_stack') \in Nat /\ n <= Len(ctrl_stack')
    BY <1>3, OuterFrames DEF Kept
  <1>6. s - 1 < Len(jt) /\ s - 1 # Len(jt)
    BY <1>2
  <1>7. ASSUME NEW p \in 1..n, s - 1 \in Pending(p)
        PROVE  p <= Len(ctrl_stack') /\ s - 1 \in ctrl_stack'[p].pending_jt_slots
    <2>1. p <= Len(ctrl_stack')
      BY <1>5
    <2> QED BY <1>3, <1>7, <2>1 DEF Kept, Pending
  <1>8. ASSUME NEW p \in 1..Len(ctrl_stack'), s - 1 \in ctrl_stack'[p].pending_jt_slots
        PROVE  p \in 1..n /\ s - 1 \in Pending(p)
    <2>1. CASE p \in 1..n
      <3>1. s - 1 \in Pending(p) \/ s - 1 >= Len(jt)
        BY <1>3, <1>8, <2>1 DEF Kept, Pending
      <3> QED BY <1>2, <1>6, <2>1, <3>1
    <2>2. CASE p = n + 1 /\ Len(ctrl_stack') = n + 1
      <3>1. Opened(ins, ctrl_stack'[n + 1])
        BY <1>3, <1>5, <2>2 DEF Flowing
      <3> QED BY <1>6, <1>8, <2>2, <3>1 DEF Opened
    <2>3. Len(ctrl_stack') = n \/ Len(ctrl_stack') = n + 1
      BY <1>3 DEF Flowing
    <2>4. p \in 1..n \/ (p = n + 1 /\ Len(ctrl_stack') = n + 1)
      BY <1>5, <2>3
    <2> QED BY <2>1, <2>2, <2>4
  <1> QED BY <1>4, <1>7, <1>8, UntouchedFlows

\* behind else,
LEMMA SwitchedSlots ==
  ASSUME NEW ins, Live(ins), ins.op = "else", NEW k, NEW s, SlotContext(k, s)
  PROVE  SlotFlows(k, s)'
  <1> DEFINE n == Len(ctrl_stack)
             P == ctrl_stack[n].pending_jt_slots
  <1>1. /\ TInv /\ Ordered /\ k \in 1..Len(code) /\ s \in (code[k].slot + 1)..EndSlot(k)
        /\ IfSlots /\ SlotFlows(k, s)
    BY DEF SlotContext, Live
  <1>2. s \in 1..Len(jt) /\ s \in Nat /\ s <= Len(jt) /\ Len(jt) \in Nat
    BY <1>1, OwnSlots
  <1>3. Switched /\ Swapped
    BY StepKinds DEF Switched
  <1>4. n \in Nat /\ n \in 1..n /\ Len(ctrl_stack') = n /\ ctrl_stack \in Seq(Frames)
    BY OuterFrames
  <1>5. \A p \in 1..n : p \in 1..(n - 1) \/ p = n
    BY <1>4
  <1>6. s - 1 # Len(jt)
    BY <1>2
  <1>7. /\ \A p \in 1..(n - 1) : ctrl_stack'[p] = ctrl_stack[p]
        /\ ctrl_stack'[n].pending_jt_slots = (P \ {Min(P)}) \cup {Len(jt)}
        /\ jt'[s].stack_offset = jt[s].stack_offset /\ jt'[s].arity = jt[s].arity
        /\ IF s - 1 = Min(P) THEN Target(jt'[s]) = offset' ELSE jt'[s] = jt[s]
        /\ val_stack' = Base(n) \o ctrl_stack[n].start_types
        /\ ctrl_stack[n].type = "if"
    BY <1>2, <1>3 DEF Switched, Swapped
  <1>8. ASSUME NEW p \in 1..Len(ctrl_stack'), s - 1 \in ctrl_stack'[p].pending_jt_slots
        PROVE  p \in 1..n /\ s - 1 \in Pending(p)
    <2>1. p \in 1..n
      BY <1>4
    <2>2. CASE p = n
      BY <1>4, <1>6, <1>7, <1>8, <2>2 DEF Pending
    <2>3. CASE p \in 1..(n - 1)
      BY <1>7, <1>8, <2>1, <2>3 DEF Pending
    <2> QED BY <1>5, <2>1, <2>2, <2>3
  <1>9. CASE s - 1 # Min(P)
    <2>1. ASSUME NEW p \in 1..n, s - 1 \in Pending(p)
          PROVE  p <= Len(ctrl_stack') /\ s - 1 \in ctrl_stack'[p].pending_jt_slots
      <3>1. p <= Len(ctrl_stack')
        BY <1>4
      <3>2. CASE p = n
        BY <1>7, <1>9, <2>1, <3>1, <3>2 DEF Pending
      <3>3. CASE p \in 1..(n - 1)
        BY <1>7, <2>1, <3>1, <3>3 DEF Pending
      <3> QED BY <1>5, <3>2, <3>3
    <2>2. jt'[s] = jt[s]
      BY <1>7, <1>9
    <2> QED BY <1>8, <2>1, <2>2, UntouchedFlows
  <1>10. CASE s - 1 = Min(P)
    <2> DEFINE i == code[k].ins
               U == Landed(i, code[k].types, jt[s])
    <2>1. P # {} /\ P \in SUBSET Nat
      <3>1. ctrl_stack[n] \in Frames
        BY <1>4
      <3> QED BY <1>1, <1>4, <1>7, <3>1 DEF IfSlots, Pending, Frames
    <2>2. s - 1 \in Pending(n)
      BY <1>10, <2>1, MinIs DEF Pending
    <2>3. i.op = "if"
      BY <1>1, <1>4, <1>7, <1>10, <2>2 DEF IfSlots, Pending
    <2>4. Alive(n) /\ U = Base(n) \o ctrl_stack[n].start_types
      <3>1. Alive(n) /\ U = Base(n) \o Expected(ctrl_stack[n], i)
        BY <1>1, <1>4, <2>2 DEF SlotFlows
      <3> QED BY <2>3, <3>1 DEF Expected
    <2>5. ~InDeadCode' /\ ctrl_stack' # << >>
      <3>1. ctrl_stack' # << >>
        BY <1>4
      <3> QED BY <2>4, <3>1, DeadAfter
    <2>6. PICK V : V = U
      OBVIOUS
    <2>7. PICK a : a = Target(jt'[s])
      OBVIOUS
    <2>8. Arrives(a, V)'
      BY <1>7, <1>10, <2>4, <2>5, <2>6, <2>7 DEF Arrives
    <2> QED BY <1>7, <1>8, <2>6, <2>7, <2>8, ResolvedFlows
  <1> QED BY <1>9, <1>10

\* behind end,
LEMMA ClosedSlots ==
  ASSUME NEW ins, Live(ins), ins.op = "end", NEW k, NEW s, SlotContext(k, s)
  PROVE  SlotFlows(k, s)'
  <1> DEFINE n == Len(ctrl_stack)
             cf == ctrl_stack[n]
  <1>1. /\ TInv /\ Ordered /\ k \in 1..Len(code) /\ s \in (code[k].slot + 1)..EndSlot(k)
        /\ IfSlots /\ SlotFlows(k, s) /\ FirstFrame /\ LoopsArrive /\ Targets /\ Solid
        /\ ctrl_stack # << >> /\ skipped' = {} /\ Step(ins)
    BY DEF SlotContext, Live
  <1>2. s \in 1..Len(jt) /\ s \in Nat /\ s <= Len(jt) /\ Len(jt) \in Nat
    BY <1>1, OwnSlots
  <1>3. Closing /\ Popped
    BY StepKinds DEF Closing
  <1>4. n \in Nat /\ n \in 1..n /\ Len(ctrl_stack') = n - 1 /\ ctrl_stack \in Seq(Frames)
    BY OuterFrames
  <1>5. \A p \in 1..n : p \in 1..(n - 1) \/ p = n
    BY <1>4
  <1>6. /\ \A p \in 1..(n - 1) : ctrl_stack'[p] = ctrl_stack[p]
        /\ jt'[s].stack_offset = jt[s].stack_offset /\ jt'[s].arity = jt[s].arity
        /\ IF s - 1 \in Pending(n)
             THEN Target(jt'[s]) = CASE cf.type = "loop" -> cf.pc
                                     [] cf.type = "func" -> offset
                                     [] OTHER -> offset'
             ELSE jt'[s] = jt[s]
        /\ val_stack' = Base(n) \o cf.end_types
        /\ cf.type = "if" => cf.start_types = cf.end_types
    BY <1>2, <1>3 DEF Closing, Popped
  <1>7. ASSUME NEW p \in 1..Len(ctrl_stack'), s - 1 \in ctrl_stack'[p].pending_jt_slots
        PROVE  p \in 1..n /\ s - 1 \in Pending(p)
    <2>1. p \in 1..(n - 1) /\ p \in 1..n
      BY <1>4
    <2> QED BY <1>6, <1>7, <2>1 DEF Pending
  <1>8. CASE s - 1 \notin Pending(n)
    <2>1. ASSUME NEW p \in 1..n, s - 1 \in Pending(p)
          PROVE  p <= Len(ctrl_stack') /\ s - 1 \in ctrl_stack'[p].pending_jt_slots
      <3>1. p \in 1..(n - 1)
        BY <1>5, <1>8, <2>1
      <3>2. p <= Len(ctrl_stack')
        BY <1>4, <3>1
      <3> QED BY <1>6, <2>1, <3>1, <3>2 DEF Pending
    <2> QED BY <1>6, <1>7, <1>8, <2>1, UntouchedFlows
  <1>9. CASE s - 1 \in Pending(n)
    <2> DEFINE i == code[k].ins
               U == Landed(i, code[k].types, jt[s])
    <2>1. Alive(n) /\ U = Base(n) \o Expected(cf, i)
      BY <1>1, <1>4, <1>9 DEF SlotFlows
    <2>2. i.op = "if" => cf.type = "if"
      BY <1>1, <1>4, <1>9 DEF IfSlots
    <2>3. PICK V : V = U
      OBVIOUS
    <2>4. PICK a : a = Target(jt'[s])
      OBVIOUS
    <2>5. ~InDeadCode'
      BY <2>1, DeadAfter
    <2>6. ASSUME cf.type = "loop"
          PROVE  Arrives(a, V)'
      <3>1. V = Base(n) \o cf.start_types
        BY <2>1, <2>2, <2>3, <2>6 DEF Expected, label_types
      <3>2. Arrives(a, V)
        BY <1>1, <1>4, <1>6, <1>9, <2>1, <2>4, <2>6, <3>1 DEF LoopsArrive
      <3> QED BY <1>1, <3>2, ArrivesStays
    <2>7. ASSUME cf.type = "func"
          PROVE  Arrives(a, V)'
      <3>1. n = 1
        BY <1>1, <1>4, <2>7, Recorded DEF Targets, FuncOutermost
      <3>2. ctrl_stack' = << >>
        BY <1>4, <3>1, OuterFrames
      <3>3. val_stack' = f.type.results
        BY <1>1, <3>2, ClosesFunction
      <3>4. V = val_stack'
        BY <1>6, <2>1, <2>2, <2>3, <2>7 DEF Expected, label_types
      <3>5. a = offset
        BY <1>6, <1>9, <2>4, <2>7
      <3>6. V = f'.type.results /\ code'[Len(code')].at = a /\ Len(code') \in 1..Len(code')
        BY <3>3, <3>4, <3>5, Recorded
      <3> QED BY <3>2, <3>6 DEF Arrives
    <2>8. ASSUME cf.type \notin {"loop", "func"}
          PROVE  Arrives(a, V)'
      <3>1. V = val_stack'
        BY <1>6, <2>1, <2>2, <2>3, <2>8 DEF Expected, label_types
      <3>2. a = offset'
        BY <1>6, <1>9, <2>4, <2>8
      <3>3. ctrl_stack' # << >>
        <4>1. ASSUME ctrl_stack' = << >>
              PROVE  FALSE
          <5>1. n = 1
            BY <1>1, <4>1, ClosesFunction
          <5>2. Untrailed
            BY <1>1, SkippedGrows DEF Untrailed
          <5>3. ctrl_stack[1].type = "func"
            BY <1>1, <5>2, Recorded DEF Targets, FuncOutermost
          <5> QED BY <2>8, <5>1, <5>3
        <4> QED BY <4>1
      <3> QED BY <2>5, <3>1, <3>2, <3>3 DEF Arrives
    <2>9. Arrives(a, V)'
      BY <2>6, <2>7, <2>8
    <2> QED BY <1>6, <1>7, <2>3, <2>4, <2>9, ResolvedFlows
  <1> QED BY <1>8, <1>9

\* and so behind every instruction.
LEMMA SlotsStay ==
  ASSUME NEW ins, Live(ins), NEW k, NEW s, SlotContext(k, s)
  PROVE  SlotFlows(k, s)'
  BY FlowingSlots, SwitchedSlots, ClosedSlots

----------------------------------------------------------------------------
(***************************************************************************)
(* The slots that a reachable instruction adds: each waits on one frame    *)
(* and brings there what the frame's label expects.                        *)
(***************************************************************************)
LEMMA U32Id == \A n \in Nat : n < U32_RANGE => U32(n) = n
  BY WidthAssumption DEF U32

\* Moving the carried values down to the label's height.
LEMMA BranchLands ==
  ASSUME NEW C \in Seq(StackTypes), NEW ts \in Seq(ValTypes), NEW h \in Nat,
         Len(ts) <= Len(C) - h,
         SubSeq(C, Len(C) - Len(ts) + 1, Len(C)) = ts,
         SubSeq(C, 1, Len(C) - Len(ts)) \o ts = C,
         NEW slot, slot.stack_offset = Len(C) - Len(ts) - h, slot.arity = Len(ts)
  PROVE  /\ Moved(slot, C) = SubSeq(C, 1, h) \o ts
         /\ slot.stack_offset + slot.arity <= Len(C)
  <1>1. Len(C) \in Nat /\ Len(ts) \in Nat
    OBVIOUS
  <1>2. slot.stack_offset + slot.arity <= Len(C)
    BY <1>1
  <1>3. CASE slot.stack_offset = 0
    <2>1. h = Len(C) - Len(ts)
      BY <1>1, <1>3
    <2> QED BY <1>2, <1>3, <2>1 DEF Moved
  <1>4. CASE slot.stack_offset # 0
    <2>1. Len(C) - slot.stack_offset - slot.arity = h
      BY <1>1
    <2> QED BY <1>2, <1>4, <2>1 DEF Moved
  <1> QED BY <1>3, <1>4

\* A slot that was just made and waits for a block delivers what the block's
\* label takes.
LEMMA NewSlotFlows ==
  ASSUME NEW ins, Live(ins), NEW k, k = Len(code'), NEW s, Waiting(s)',
         NEW q \in 1..Len(ctrl_stack'), Alive(q)',
         \A p \in 1..Len(ctrl_stack') : s - 1 \in ctrl_stack'[p].pending_jt_slots => p = q,
         NEW U, U = Landed(ins, val_stack, jt'[s]),
         U = Base(q)' \o Expected(ctrl_stack'[q], ins),
         ins.op \in {"br", "br_if", "br_table"} =>
           jt'[s].stack_offset + jt'[s].arity <= Len(Carried(ins, val_stack))
  PROVE  SlotFlows(k, s)'
  <1>1. code'[k].ins = ins /\ code'[k].types = val_stack
    BY Recorded
  <1> QED BY <1>1 DEF SlotFlows, Pending

\* if.
LEMMA IfFlows ==
  ASSUME NEW ins, Live(ins), ins.op = "if", Solid, IfSlots, ~InDeadCode, FirstFrame,
         NEW k, k = Len(code'), NEW s \in (Len(jt) + 1)..Len(jt')
  PROVE  SlotFlows(k, s)'
  <1> DEFINE n == Len(ctrl_stack)
             T == val_stack
             J == Len(jt)
             fr == ctrl_stack'[n + 1]
  <1>1. TInv /\ ctrl_stack # << >> /\ ins \in Instrs /\ Step(ins) /\ J \in Nat
    BY DEF Live, TInv, TypeOK
  <1>2. Flowing(ins) /\ Kept
    BY StepKinds DEF Flowing
  <1>3. /\ n \in Nat /\ Len(ctrl_stack') = n + 1 /\ Opened(ins, fr)
    BY <1>2, OuterFrames DEF Flowing
  <1>4. PICK x : ctrl_stack' = Append(ctrl_stack, x)
    BY <1>1 DEF Step, on_unreachable, on_nop, on_block, on_else, on_end, on_br_or_if,
          on_br_table, on_return, on_call, on_data, LocalOps, DataOps
  <1>5. \A p \in 1..n : ctrl_stack'[p] = ctrl_stack[p]
    BY <1>4, OuterFrames
  <1>6. s - 1 = J
    <2>1. Len(jt') = J + SlotCount(ins)
      BY StepKinds DEF StepShape
    <2>2. SlotCount(ins) = 1
      BY DEF SlotCount, JumpOps
    <2> QED BY <1>1, <2>1, <2>2
  <1>7. ASSUME NEW p \in 1..Len(ctrl_stack'), s - 1 \in ctrl_stack'[p].pending_jt_slots
        PROVE  p = n + 1
    <2>1. CASE p \in 1..n
      <3>1. J \in Pending(p)
        BY <1>5, <1>6, <1>7, <2>1 DEF Pending
      <3>2. J < Len(jt)
        BY <2>1, <3>1 DEF IfSlots
      <3> QED BY <1>1, <3>2
    <2> QED BY <1>3, <2>1
  <1>8. Waiting(s)'
    BY <1>2 DEF Kept, NewWait
  <1>9. ~InDeadCode'
    BY DeadAfter DEF NoFall
  <1>10. n + 1 \in 1..Len(ctrl_stack') /\ \A p \in 1..n : p \in 1..Len(ctrl_stack')
    BY <1>3
  <1>11. Landed(ins, T, jt'[s]) = val_stack'
    <2>1. Carries(ins)
      BY <1>1, SolidLive, StepCarries
    <2>2. val_stack' = After(ins, T) /\ Len(T) >= Needs(ins)
      BY <2>1 DEF Carries, NoFall, Takes
    <2>3. Needs(ins) = 1 /\ Leaves(ins, T) = << >>
      BY NeedsIs
    <2>4. T \in Seq(StackTypes) /\ Len(T) \in Nat
      BY <1>1 DEF TInv, TypeOK
    <2>5. Len(T) - 1 \in 0..Len(T)
      BY <2>2, <2>3, <2>4
    <2>6. Front(T) \in Seq(StackTypes)
      BY <2>4, <2>5, Lower DEF Front
    <2>7. val_stack' = Front(T)
      BY <2>2, <2>3, <2>6, NoChange DEF After, Front
    <2> QED BY <2>7 DEF Landed, Carried
  <1>12. PICK q : q = n + 1
    OBVIOUS
  <1>13. q \in 1..Len(ctrl_stack') /\ Alive(q)'
    BY <1>3, <1>9, <1>10, <1>12 DEF Alive, InDeadCode
  <1>14. val_stack' = Base(q)' \o Expected(ctrl_stack'[q], ins)
    BY <1>3, <1>12 DEF Base, Expected, Opened
  <1> QED BY <1>7, <1>8, <1>11, <1>12, <1>13, <1>14, NewSlotFlows

\* else.
LEMMA ElseFlows ==
  ASSUME NEW ins, Live(ins), ins.op = "else", Solid, IfSlots, ~InDeadCode,
         NEW k, k = Len(code'), NEW s \in (Len(jt) + 1)..Len(jt')
  PROVE  SlotFlows(k, s)'
  <1> DEFINE n == Len(ctrl_stack)
             T == val_stack
             J == Len(jt)
  <1>1. TInv /\ ctrl_stack # << >> /\ ins \in Instrs /\ Step(ins) /\ J \in Nat
    BY DEF Live, TInv, TypeOK
  <1>2. Switched /\ Swapped
    BY StepKinds DEF Switched
  <1>3. n \in Nat /\ n \in 1..n /\ Len(ctrl_stack') = n
    BY OuterFrames
  <1>4. s - 1 = J
    <2>1. Len(jt') = J + SlotCount(ins)
      BY StepKinds DEF StepShape
    <2>2. SlotCount(ins) = 1
      BY DEF SlotCount, JumpOps
    <2> QED BY <1>1, <2>1, <2>2
  <1>5. PICK q : q = n
    OBVIOUS
  <1>6. ASSUME NEW p \in 1..Len(ctrl_stack'), s - 1 \in ctrl_stack'[p].pending_jt_slots
        PROVE  p = q
    <2>1. CASE p \in 1..(n - 1)
      <3>1. J \in Pending(p)
        BY <1>2, <1>4, <1>6, <2>1 DEF Pending, Swapped
      <3>2. J < Len(jt)
        BY <1>3, <2>1, <3>1 DEF IfSlots
      <3> QED BY <1>1, <3>2
    <2> QED BY <1>3, <1>5, <2>1
  <1>7. Waiting(s)'
    BY <1>2 DEF Swapped, NewWait
  <1>8. /\ q \in 1..n /\ q <= Len(ctrl_stack')
        /\ SameBlock(q) /\ Base(q)' = Base(q) /\ (Alive(q)' <=> Alive(q))
        /\ ctrl_stack[q].type = "if" /\ ctrl_stack'[q].type = "else"
    <2>1. q \in 1..n /\ q <= Len(ctrl_stack')
      BY <1>3, <1>5
    <2> QED BY <1>5, <2>1, Survives
  <1>9. Alive(q)
    <2>1. \A p \in 1..(n - 1) : p \in 1..n
      BY <1>3
    <2> QED BY <1>5, <2>1 DEF Alive, InDeadCode
  <1>10. T = Base(q) \o ctrl_stack[q].end_types
    <2>1. Leftover = {} /\ CanPop(T, Top, Top.end_types)
      <3>1. on_else(ins) /\ skipped' = {}
        BY <1>1 DEF Live, Step, on_unreachable, on_nop, on_block, on_else, on_end,
              on_br_or_if, on_br_table, on_return, on_call, on_data, LocalOps, DataOps
      <3>2. Skip(Leftover) /\ Decode(ins)
        BY <3>1 DEF on_else
      <3> QED BY <1>1, <3>1, <3>2, DecodeType DEF Skip, Valid
    <2>2. AfterPopCtrl = Base(n)
      BY <1>1, <2>1, PopCtrlBase
    <2>3. LiveCode
      BY <1>1, SolidLive
    <2>4. /\ Top \in Frames /\ ~Top.unreachable /\ Top.height <= Len(T)
          /\ T \in Seq(StackTypes) /\ Top.end_types \in Seq(ValTypes)
      BY <1>1, <2>3, LiveTop, TopFrame
    <2>5. AfterPopCtrl \o Top.end_types = T
      BY <2>1, <2>3, <2>4, PopExact DEF AfterPopCtrl, LiveCode
    <2> QED BY <1>5, <2>2, <2>5 DEF Top
  <1>11. Landed(ins, T, jt'[s]) = T
    BY DEF Landed, Carried
  <1>12. Expected(ctrl_stack'[q], ins) = ctrl_stack[q].end_types
    BY <1>8 DEF Expected, label_types, SameBlock
  <1>13. q \in 1..Len(ctrl_stack')
    BY <1>3, <1>8
  <1> QED BY <1>6, <1>7, <1>8, <1>9, <1>10, <1>11, <1>12, <1>13, NewSlotFlows

\* A branch of a reachable instruction to label l, through slot s.
LEMMA LabelFlows ==
  ASSUME NEW ins, Live(ins), Solid, ~InDeadCode, Len(val_stack) <= stack_size_max, Shallow,
         NEW l \in Nat,
         \/ ins.op \in {"br", "br_if"} /\ l = ins.lth
         \/ ins.op = "br_table" /\ \E i \in 1..Len(ins.ls) : l = ins.ls[i],
         NEW k, k = Len(code'), NEW s, Waiting(s)',
         \A p \in 1..Len(ctrl_stack) :
           s - 1 \in ctrl_stack'[p].pending_jt_slots => p = LabelAt(l),
         LET C  == Carried(ins, val_stack)
             ts == label_types(LabelFrame(l))
         IN  /\ jt'[s].stack_offset = U32(Len(C) - Len(ts) - LabelFrame(l).height)
             /\ jt'[s].arity = U16(Len(ts))
  PROVE  SlotFlows(k, s)'
  <1> DEFINE n == Len(ctrl_stack)
             T == val_stack
             C == Carried(ins, T)
             ts == label_types(LabelFrame(l))
             h == LabelFrame(l).height
  <1>1. TInv /\ ctrl_stack # << >> /\ ins \in Instrs /\ Step(ins) /\ Decode(ins)
    BY StepKinds DEF Live
  <1>2. LiveCode
    BY <1>1, SolidLive
  <1>3. /\ LabelAt(l) \in 1..n /\ ts \in Seq(ValTypes) /\ C \in Seq(StackTypes)
        /\ Len(C) <= Len(T) /\ \A i \in 1..Len(C) : C[i] = T[i]
        /\ Len(ts) <= Len(C) - Top.height /\ Len(ts) <= Len(C)
        /\ PopVals(C, Top, ts) \o ts = C
        /\ PopVals(C, Top, ts) = SubSeq(C, 1, Len(C) - Len(ts))
        /\ SubSeq(C, Len(C) - Len(ts) + 1, Len(C)) = ts
    BY <1>1, <1>2, BranchLive
  <1>4. h \in Nat /\ h <= Top.height /\ Top.height \in Nat
    <2>1. ctrl_stack[LabelAt(l)].height \in Nat /\ ctrl_stack[LabelAt(l)].height <= Top.height
      BY <1>1, <1>3, PopFrameType
    <2> QED BY <1>1, <2>1, TopFrame DEF LabelFrame
  <1>5. Len(C) \in Nat /\ Len(ts) \in Nat /\ Len(T) \in Nat /\ T \in Seq(StackTypes)
    BY <1>1, <1>3 DEF TInv, TypeOK
  <1>6. stack_size_max \in Nat /\ stack_size_max < 32767 /\ stack_size_max <= U16_MAX
    BY <1>1 DEF TInv, TypeOK, Shallow
  <1>7. jt'[s].stack_offset = U32(Len(C) - Len(ts) - h) /\ jt'[s].arity = U16(Len(ts))
    OBVIOUS
  <1>8. h = ctrl_stack[LabelAt(l)].height /\ ts = label_types(ctrl_stack[LabelAt(l)])
    BY DEF LabelFrame
  <1> HIDE DEF C, ts, h, T
  <1>9. Len(ts) <= Len(C) - h /\ Len(C) - Len(ts) - h \in Nat
    BY <1>3, <1>4, <1>5, SMTT(30)
  <1>10. jt'[s].stack_offset = Len(C) - Len(ts) - h /\ jt'[s].arity = Len(ts)
    <2>1. Len(C) <= stack_size_max
      BY <1>3, <1>5, <1>6 DEF T
    <2>2. Len(C) - Len(ts) - h < U32_RANGE
      BY <1>4, <1>5, <1>6, <2>1, WidthAssumption
    <2>3. Len(ts) \in 0..U16_MAX
      BY <1>3, <1>5, <1>6, <2>1, WidthAssumption
    <2> QED BY <1>7, <1>9, <2>2, <2>3, U32Id, U16Id
  <1>11. /\ Moved(jt'[s], C) = SubSeq(C, 1, h) \o ts
         /\ jt'[s].stack_offset + jt'[s].arity <= Len(C)
    BY <1>3, <1>4, <1>9, <1>10, BranchLands
  <1>12. SubSeq(C, 1, h) = SubSeq(T, 1, h)
    <2>1. h <= Len(C) /\ h <= Len(T) /\ \A i \in 1..h : C[i] = T[i]
      BY <1>3, <1>4, <1>5, <1>9, SMTT(30)
    <2> QED BY <1>3, <1>4, <1>5, <2>1, SamePrefix
  <1>13. PICK q : q = LabelAt(l)
    OBVIOUS
  <1>14. ins.op \notin {"else", "end", "block", "loop", "if"}
    OBVIOUS
  <1>15. Len(ctrl_stack') = n /\ n \in Nat
    BY <1>14, OuterFrames
  <1>16. q \in 1..Len(ctrl_stack') /\ q \in 1..n /\ q <= Len(ctrl_stack')
    BY <1>3, <1>13, <1>15
  <1>17. /\ Base(q)' = Base(q) /\ (Alive(q)' <=> Alive(q))
         /\ Expected(ctrl_stack'[q], ins) = Expected(ctrl_stack[q], ins)
    BY <1>16, Survives
  <1>18. Alive(q)
    <2>1. \A p \in 1..(q - 1) : p \in 1..n
      BY <1>15, <1>16
    <2> QED BY <2>1 DEF Alive, InDeadCode
  <1>19. Expected(ctrl_stack[q], ins) = ts /\ Base(q) = SubSeq(T, 1, h)
    BY <1>8, <1>13, <1>14 DEF Expected, Base, T
  <1>20. Landed(ins, val_stack, jt'[s]) = Base(q)' \o Expected(ctrl_stack'[q], ins)
    BY <1>11, <1>12, <1>14, <1>17, <1>19 DEF Landed, C, T
  <1>21. \A p \in 1..Len(ctrl_stack') :
           s - 1 \in ctrl_stack'[p].pending_jt_slots => p = q
    BY <1>13, <1>15
  <1>22. jt'[s].stack_offset + jt'[s].arity <= Len(Carried(ins, val_stack))
    BY <1>11 DEF C, T
  <1> QED BY <1>16, <1>17, <1>18, <1>20, <1>21, <1>22, NewSlotFlows

\* br and br_if.
LEMMA BrFlows ==
  ASSUME NEW ins, Live(ins), ins.op \in {"br", "br_if"}, Solid, IfSlots, ~InDeadCode,
         Len(val_stack) <= stack_size_max, Shallow,
         NEW k, k = Len(code'), NEW s \in (Len(jt) + 1)..Len(jt')
  PROVE  SlotFlows(k, s)'
  <1> DEFINE T == val_stack
             J == Len(jt)
             l == ins.lth
             ts == label_types(LabelFrame(l))
             vs == IF ins.op = "br_if" THEN PopVals(T, Top, <<"i32">>) ELSE T
  <1>1. TInv /\ ctrl_stack # << >> /\ ins \in Instrs /\ Step(ins) /\ J \in Nat /\ Decode(ins)
    BY StepKinds DEF Live, TInv, TypeOK
  <1>2. on_br_or_if(ins)
    BY <1>1 DEF Step, on_unreachable, on_nop, on_block, on_else, on_end,
          on_br_or_if, on_br_table, on_return, on_call, on_data, LocalOps, DataOps
  <1>3. jt' = Append(jt, NewSlot(Imm, Len(vs) - Len(ts) - LabelFrame(l).height, Len(ts)))
    BY <1>2 DEF on_br_or_if
  <1>4. l \in Nat
    BY InstrsAssumption, <1>1
  <1>5. LiveCode
    BY <1>1, SolidLive
  <1>6. /\ Carried(ins, T) = vs /\ ts \in Seq(ValTypes) /\ vs \in Seq(StackTypes)
        /\ LabelAt(l) \in 1..Len(ctrl_stack)
    BY <1>1, <1>4, <1>5, BranchLive
  <1>7. LabelFrame(l).height \in Nat
    <2>1. ctrl_stack[LabelAt(l)].height \in Nat
      BY <1>1, <1>6, PopFrameType
    <2> QED BY <2>1 DEF LabelFrame
  <1>8. jt \in Seq(Slots) /\ Imm \in Nat
    BY <1>1, DecodeType DEF TInv, TypeOK
  <1>9. /\ s - 1 = J /\ s = J + 1
        /\ jt'[s] = NewSlot(Imm, Len(vs) - Len(ts) - LabelFrame(l).height, Len(ts))
    <2>1. Len(jt') = J + 1
      BY <1>3, <1>8
    <2>2. s = J + 1
      BY <1>1, <2>1
    <2> DEFINE ns == NewSlot(Imm, Len(vs) - Len(ts) - LabelFrame(l).height, Len(ts))
    <2>3. jt' = Append(jt, ns)
      BY <1>3
    <2> HIDE DEF ns
    <2>4. jt'[s] = ns /\ s - 1 = J
      BY <1>1, <1>8, <2>2, <2>3
    <2> QED BY <2>2, <2>4 DEF ns
  <1>10. /\ jt'[s].stack_offset =
              U32(Len(Carried(ins, T)) - Len(ts) - LabelFrame(l).height)
         /\ jt'[s].arity = U16(Len(ts))
    <2> DEFINE h == LabelFrame(l).height
    <2>1. h \in Nat /\ Carried(ins, T) = vs /\ ts \in Seq(ValTypes) /\ vs \in Seq(StackTypes)
      BY <1>6, <1>7
    <2>2. jt'[s] = NewSlot(Imm, Len(vs) - Len(ts) - h, Len(ts))
      BY <1>9
    <2> HIDE DEF vs, ts, l, h
    <2>3. Len(vs) - Len(ts) - h \in Int /\ Len(ts) \in Nat
      BY <2>1
    <2>4. jt'[s].stack_offset = U32(Len(vs) - Len(ts) - h) /\ jt'[s].arity = U16(Len(ts))
      <3>1. PICK at, so, n : /\ at = Imm /\ so = Len(vs) - Len(ts) - h /\ n = Len(ts)
        OBVIOUS
      <3>2. so \in Int /\ n \in Nat /\ at \in Nat /\ jt'[s] = NewSlot(at, so, n)
        BY <1>8, <2>2, <2>3, <3>1
      <3>3. jt'[s].stack_offset = U32(so) /\ jt'[s].arity = U16(n)
        BY <3>2 DEF NewSlot
      <3> QED BY <3>1, <3>3
    <2>5. jt'[s].stack_offset = U32(Len(Carried(ins, T)) - Len(ts) - h)
          /\ jt'[s].arity = U16(Len(ts))
      BY <2>1, <2>4
    <2> QED BY <2>5 DEF h
  <1>11. ASSUME NEW p \in 1..Len(ctrl_stack), s - 1 \in ctrl_stack'[p].pending_jt_slots
         PROVE  p = LabelAt(l)
    <2>1. CASE p # LabelAt(l)
      <3>1. J \in Pending(p)
        BY <1>1, <1>2, <1>9, <1>11, <2>1, BrFlowing DEF Pending
      <3>2. J < Len(jt)
        BY <3>1 DEF IfSlots
      <3> QED BY <1>1, <3>2
    <2> QED BY <2>1
  <1>12. Waiting(s)'
    <2>1. Kept
      BY <1>1, <1>2, BrKept
    <2> QED BY <2>1 DEF Kept, NewWait
  <1> QED BY <1>4, <1>10, <1>11, <1>12, LabelFlows

\* br_table.
LEMMA BrTableFlows ==
  ASSUME NEW ins, Live(ins), ins.op = "br_table", Solid, IfSlots, ~InDeadCode,
         Len(val_stack) <= stack_size_max, Shallow,
         NEW k, k = Len(code'), NEW s \in (Len(jt) + 1)..Len(jt')
  PROVE  SlotFlows(k, s)'
  <1> DEFINE T == val_stack
             J == Len(jt)
             i == s - J
             l == ins.ls[i]
             ts == label_types(LabelFrame(l))
             arity == Len(label_types(LabelFrame(ins.ls[1])))
             vs == PopVals(T, Top, <<"i32">>)
  <1>1. TInv /\ ctrl_stack # << >> /\ ins \in Instrs /\ Step(ins) /\ J \in Nat /\ Decode(ins)
    BY StepKinds DEF Live, TInv, TypeOK
  <1>2. on_br_table(ins)
    BY <1>1 DEF Step, on_unreachable, on_nop, on_block, on_else, on_end,
          on_br_or_if, on_br_table, on_return, on_call, on_data, LocalOps, DataOps
  <1>3. /\ i \in 1..Len(ins.ls)
        /\ jt'[s].stack_offset = U32(BrTableOffset(ins, i)) /\ jt'[s].arity = U16(arity)
    BY <1>1, <1>2, BrTableShape
  <1>4. l \in Nat /\ ins.ls \in Seq(Nat) /\ 1 \in 1..Len(ins.ls) /\ ins.ls[1] \in Nat
        /\ Len(ins.ls) \in 1..Len(ins.ls) /\ DOMAIN ins.ls = 1..Len(ins.ls)
    <2>1. ins.ls \in Seq(Nat) /\ ins.ls # << >>
      BY <1>1, InstrsAssumption
    <2>2. i \in 1..Len(ins.ls)
      BY <1>3
    <2> HIDE DEF i
    <2> QED BY <2>1, <2>2, SMTT(30)
  <1>5. LiveCode
    BY <1>1, SolidLive
  <1>6. /\ Carried(ins, T) = vs /\ ts \in Seq(ValTypes) /\ vs \in Seq(StackTypes)
        /\ LabelAt(l) \in 1..Len(ctrl_stack)
        /\ Len(ts) <= Len(vs) - Top.height
    BY <1>1, <1>3, <1>4, <1>5, BranchLive
  <1>7. arity = Len(ts)
    <2>1. BrTableOk(ins)
      BY <1>1, DecodeType DEF Valid
    <2> QED BY <1>3, <1>4, <2>1 DEF BrTableOk
  <1>8. LabelFrame(l).height \in Nat /\ Top.height \in Nat /\ Top.height <= Len(vs)
    <2>1. ctrl_stack[LabelAt(l)].height \in Nat
      BY <1>1, <1>6, PopFrameType
    <2>2. Top.height \in Nat
      BY <1>1, TopFrame
    <2> QED BY <1>6, <2>1, <2>2 DEF LabelFrame
  <1>9. BrTableOffset(ins, i) = Len(vs) - Len(ts) - LabelFrame(l).height
    <2> DEFINE full == IF Len(vs) < Top.height + arity THEN Top.height + arity ELSE Len(vs)
    <2>1. BrTableOffset(ins, i) =
            (IF i = 1 THEN Len(vs) ELSE full) - arity - LabelFrame(l).height
      BY DEF BrTableOffset
    <2>2. Len(ts) \in Nat /\ Len(vs) \in Nat
      BY <1>6
    <2> HIDE DEF vs, ts, arity, l
    <2>3. full = Len(vs)
      BY <1>6, <1>7, <1>8, <2>2
    <2> HIDE DEF full
    <2> QED BY <1>7, <2>1, <2>3
  <1>10. /\ jt'[s].stack_offset =
              U32(Len(Carried(ins, T)) - Len(ts) - LabelFrame(l).height)
         /\ jt'[s].arity = U16(Len(ts))
    BY <1>3, <1>6, <1>7, <1>9
  <1>11. ASSUME NEW p \in 1..Len(ctrl_stack), s - 1 \in ctrl_stack'[p].pending_jt_slots
         PROVE  p = LabelAt(l)
    <2> DEFINE Q == {J + m - 1 : m \in {j \in 1..Len(ins.ls) : LabelAt(ins.ls[j]) = p}}
    <2>1. s - 1 \in Pending(p) \/ s - 1 \in Q
      BY <1>1, <1>2, <1>11, BrTableShape DEF Pending
    <2>2. ~(s - 1 < Len(jt)) /\ s \in Nat
      BY <1>1
    <2>3. s - 1 \in Q
      BY <2>1, <2>2 DEF IfSlots
    <2>4. PICK m \in 1..Len(ins.ls) : LabelAt(ins.ls[m]) = p /\ s - 1 = J + m - 1
      BY <2>3
    <2>5. m = i
      <3>1. J \in Nat /\ s \in Nat /\ m \in Int /\ s - 1 = J + m - 1
        BY <1>1, <1>4, <2>2, <2>4
      <3> HIDE DEF J
      <3> QED BY <3>1
    <2> QED BY <2>4, <2>5
  <1>12. Waiting(s)'
    <2>1. Kept
      BY <1>1, <1>2, BrTableKept
    <2> QED BY <2>1 DEF Kept, NewWait
  <1> HIDE DEF i
  <1>13. \E j \in 1..Len(ins.ls) : l = ins.ls[j]
    BY <1>3
  <1> QED BY <1>4, <1>10, <1>11, <1>12, <1>13, LabelFlows

\* Every slot that an instruction makes carries the types of its landing place.
LEMMA NewFlows ==
  ASSUME NEW ins, Live(ins), FirstFrame, Solid, IfSlots, ~InDeadCode,
         Len(val_stack) <= stack_size_max, Shallow,
         NEW k, k = Len(code'), NEW s \in (Len(jt) + 1)..Len(jt')
  PROVE  SlotFlows(k, s)'
  <1>1. CASE ins.op \in JumpOps
    BY <1>1, IfFlows, ElseFlows, BrFlows, BrTableFlows DEF JumpOps
  <1>2. CASE ins.op \notin JumpOps
    <2>1. SlotCount(ins) = 0
      BY <1>2 DEF SlotCount, JumpOps
    <2>2. Len(jt') = Len(jt) + 0 /\ Len(jt) \in Nat
      BY <2>1, StepKinds DEF StepShape, Live, TInv, TypeOK
    <2> QED BY <2>2
  <1> QED BY <1>1, <1>2

----------------------------------------------------------------------------
(***************************************************************************)
(* The callbacks keep the parts of the invariant, one by one.              *)
(***************************************************************************)
LEMMA StepFirstFrame ==
  ASSUME NEW ins, Live(ins), FirstFrame
  PROVE  FirstFrame'
  <1>1. ctrl_stack # << >> /\ f' = f
    BY Recorded DEF Live
  <1>2. ASSUME ctrl_stack' # << >>
        PROVE  ctrl_stack'[1].height = 0 /\ ctrl_stack'[1].end_types = f.type.results
    <2>1. ctrl_stack' \in Seq(Frames) /\ ctrl_stack \in Seq(Frames)
      BY OuterFrames
    <2>2. 1 \in 1..Len(ctrl_stack) /\ 1 <= Len(ctrl_stack')
      BY <1>1, <1>2, <2>1
    <2>3. SameBlock(1)
      BY <2>2, Survives
    <2> QED BY <1>1, <2>3 DEF FirstFrame, SameBlock
  <1> QED BY <1>1, <1>2 DEF FirstFrame

\* stack_size_max stays an upper bound of every height seen.
LEMMA StepRoomy ==
  ASSUME NEW ins, Live(ins), FirstFrame, Roomy
  PROVE  Roomy'
  <1>1. TInv /\ ins \in Instrs /\ Step(ins) /\ Len(val_stack) <= stack_size_max
    BY DEF Live, Roomy
  <1>2. stack_size_max <= stack_size_max' /\ Len(val_stack') <= stack_size_max'
    BY <1>1, RoomGrows
  <1>3. TInv'
    BY <1>1, StepTInv
  <1>4. code \in Seq(Decoded) /\ stack_size_max \in Nat /\ stack_size_max' \in Nat
        /\ code' \in Seq(Decoded)
    BY <1>1, <1>3 DEF TInv, TypeOK
  <1>5. ASSUME NEW k \in 1..Len(code') PROVE Len(code'[k].types) <= stack_size_max'
    <2>1. CASE k \in 1..Len(code)
      <3>1. code'[k] = code[k]
        BY <2>1, Recorded
      <3>2. Len(code[k].types) <= stack_size_max
        BY <2>1 DEF Roomy
      <3>3. code[k].types \in Seq(StackTypes)
        <4>1. code[k] \in Decoded
          BY <1>4, <2>1
        <4> QED BY <4>1 DEF Decoded
      <3> QED BY <1>2, <1>4, <3>1, <3>2, <3>3
    <2>2. CASE k = Len(code')
      <3>1. code'[k].types = val_stack
        BY <2>2, Recorded
      <3>2. Len(val_stack) \in Nat
        BY <1>1 DEF TInv, TypeOK
      <3> QED BY <1>1, <1>2, <1>4, <3>1, <3>2
    <2> QED BY <2>1, <2>2, Recorded
  <1>6. ctrl_stack' = << >> => Len(f'.type.results) <= stack_size_max'
    BY <1>2, ClosesFunction, Recorded
  <1> QED BY <1>2, <1>5, <1>6 DEF Roomy

\* What an accepted instruction names exists.
LEMMA StepThere ==
  ASSUME NEW ins, Live(ins), There
  PROVE  There'
  <1>1. TInv /\ ins \in Instrs /\ Step(ins) /\ skipped' = {} /\ Decode(ins)
    BY StepKinds DEF Live
  <1>2. ins.op \in EntityOps => ins.there
    <2>1. CASE ins.op \in EntityOps
      <3>1. on_data(ins)
        BY <1>1, <2>1 DEF Step, on_unreachable, on_nop, on_block, on_else, on_end,
          on_br_or_if, on_br_table, on_return, on_call, on_data, EntityOps
      <3> QED BY <1>1, <2>1, <3>1 DEF on_data, Skip
    <2> QED BY <2>1
  <1>3. ASSUME NEW k \in 1..Len(code'), code'[k].ins.op \in EntityOps
        PROVE  code'[k].ins.there
    <2>1. CASE k \in 1..Len(code)
      BY <1>3, <2>1, Recorded DEF There
    <2>2. CASE k = Len(code')
      BY <1>2, <1>3, <2>2, Recorded
    <2> QED BY <2>1, <2>2, Recorded
  <1> QED BY <1>3 DEF There

\* The function starts on an empty stack.
LEMMA StepEntered ==
  ASSUME NEW ins, Live(ins), FirstFrame, Solid, Entered
  PROVE  Entered'
  <1>1. phase = "decode" /\ phase' = "decode"
    BY Recorded
  <1>2. Arrives(0, << >>)
    BY <1>1 DEF Entered
  <1>3. Arrives(0, << >>)'
    BY <1>2, ArrivesStays
  <1> QED BY <1>3 DEF Entered

\* The frame that is new is above reachable ones only if the code is reachable.
LEMMA NewFrameAlive ==
  ASSUME NEW ins, Live(ins), NEW p \in 1..Len(ctrl_stack'), p \notin 1..Len(ctrl_stack)
  PROVE  /\ p = Len(ctrl_stack) + 1 /\ ins.op \in {"block", "loop", "if"}
         /\ Opened(ins, ctrl_stack'[p])
         /\ Alive(p)' => ~InDeadCode /\ ~InDeadCode'
  <1> DEFINE n == Len(ctrl_stack)
  <1>1. n \in Nat /\ Len(ctrl_stack') \in Nat
        /\ Len(ctrl_stack') = IF ins.op \in {"block", "loop", "if"} THEN n + 1
                                   ELSE IF ins.op = "end" THEN n - 1 ELSE n
    BY OuterFrames
  <1>2. p = n + 1 /\ ins.op \in {"block", "loop", "if"}
    BY <1>1
  <1>3. Flowing(ins)
    BY <1>2, StepKinds
  <1>4. Opened(ins, ctrl_stack'[p])
    BY <1>2, <1>3 DEF Flowing
  <1>5. ASSUME Alive(p)'
        PROVE  ~InDeadCode'
    <2>1. \A q \in 1..n : ~ctrl_stack'[q].unreachable
      BY <1>1, <1>2, <1>5 DEF Alive
    <2>2. ~ctrl_stack'[n + 1].unreachable
      BY <1>2, <1>4 DEF Opened
    <2>3. Len(ctrl_stack') = n + 1
      BY <1>1, <1>2
    <2>4. \A q \in 1..Len(ctrl_stack') : q \in 1..n \/ q = n + 1
      BY <1>1, <2>3
    <2> QED BY <2>1, <2>2, <2>4 DEF InDeadCode
  <1>6. InDeadCode' <=> InDeadCode
    BY <1>2, DeadAfter DEF NoFall
  <1> QED BY <1>2, <1>4, <1>5, <1>6

\* The head of every open loop was entered with the loop's base and parameters.
LEMMA StepLoops ==
  ASSUME NEW ins, Live(ins), FirstFrame, Solid, LoopsArrive
  PROVE  LoopsArrive'
  <1> SUFFICES ASSUME NEW p \in 1..Len(ctrl_stack'), ctrl_stack'[p].type = "loop", Alive(p)'
               PROVE  Arrives(ctrl_stack[p].pc, Base(p) \o ctrl_stack[p].start_types)'
    BY DEF LoopsArrive
  <1>1. PICK a, U : a = ctrl_stack'[p].pc /\ U = Base(p)' \o ctrl_stack'[p].start_types
    OBVIOUS
  <1>2. Arrives(a, U)'
    <2>1. CASE p \in 1..Len(ctrl_stack)
      <3>1. p <= Len(ctrl_stack') /\ p \in Nat
        BY OuterFrames
      <3>2. /\ SameBlock(p) /\ Base(p)' = Base(p) /\ (Alive(p)' <=> Alive(p))
            /\ ctrl_stack[p].type = "loop" /\ ctrl_stack'[p].pc = ctrl_stack[p].pc
        BY <2>1, <3>1, Survives
      <3>3. Arrives(a, U)
        BY <1>1, <2>1, <3>2 DEF LoopsArrive, SameBlock
      <3> QED BY <3>3, ArrivesStays
    <2>2. CASE p \notin 1..Len(ctrl_stack)
      <3>1. /\ p = Len(ctrl_stack) + 1 /\ ins.op \in {"block", "loop", "if"}
            /\ Opened(ins, ctrl_stack'[p]) /\ ~InDeadCode'
        BY <2>2, NewFrameAlive
      <3>2. Kept
        BY <3>1, StepKinds DEF Flowing
      <3>3. p \in (Len(ctrl_stack) + 1)..Len(ctrl_stack')
        BY <3>1, OuterFrames
      <3>4. a = offset'
        BY <1>1, <3>2, <3>3 DEF Kept
      <3>5. val_stack' = U
        BY <1>1, <3>1 DEF Opened, Base
      <3>6. ctrl_stack' # << >>
        BY <3>3, OuterFrames
      <3>7. Arrives(offset, U)'
        BY <3>1, <3>5, <3>6, ArrivesBehind
      <3> QED BY <3>4, <3>7 DEF Arrives
    <2> QED BY <2>1, <2>2
  <1> QED BY <1>1, <1>2 DEF Arrives

\* What an instruction leaves has known types where its operands have.
LEMMA LeavesKnown ==
  ASSUME NEW ins, Live(ins), LiveCode, Takes(ins, val_stack, stack_size_max')
  PROVE  /\ Leaves(ins, val_stack) \in Seq(ValTypes)
         /\ Needs(ins) \in 0..Len(val_stack)
  <1> DEFINE T == val_stack
             op == ins.op
  <1>1. TInv /\ ins \in Instrs /\ Decode(ins) /\ IndexOk(ins)
    BY StepKinds, DecodeType DEF Live
  <1>2. Len(T) \in Nat /\ Needs(ins) <= Len(T)
    BY <1>1 DEF Takes, TInv, TypeOK
  <1>3. op \in ControlOps \cup LocalOps \cup DataOps
    BY <1>1, InstrsAssumption
  <1>4. CASE op \in LocalOps
    <2>1. LocalTypes[ins.idx + 1] \in ValTypes
      <3>1. LocalTypes \in Seq(ValTypes)
        BY <1>1, LocalTypesType
      <3>2. ins.idx \in Nat /\ ins.idx < Len(LocalTypes)
        BY <1>1, <1>4, InstrsAssumption DEF IndexOk
      <3>3. ins.idx + 1 \in 1..Len(LocalTypes)
        BY <3>1, <3>2
      <3> QED BY <3>1, <3>3
    <2>2. Needs(ins) \in {0, 1}
      BY <1>4, NeedsIs DEF LocalOps
    <2>3. Leaves(ins, T) \in {<<LocalTypes[ins.idx + 1]>>, << >>}
      BY <1>4, NeedsIs DEF LocalOps
    <2>4. <<LocalTypes[ins.idx + 1]>> \in Seq(ValTypes) /\ << >> \in Seq(ValTypes)
      BY <2>1
    <2>5. Needs(ins) \in 0..Len(T)
      BY <1>2, <2>2
    <2>6. Leaves(ins, T) \in Seq(ValTypes)
      BY <2>3, <2>4, Zenon
    <2> QED BY <2>5, <2>6
  <1>5. CASE op \in {"select", "select_t"}
    <2>1. Needs(ins) = 3 /\ Leaves(ins, T) = <<T[Len(T) - 1]>>
      BY <1>5, NeedsIs
    <2>2. Len(T) - 1 \in 1..Len(T)
      BY <1>2, <2>1
    <2>3. T[Len(T) - 1] \in ValTypes
      BY <2>2 DEF LiveCode
    <2> QED BY <1>2, <2>1, <2>3
  <1>6. CASE op = "call"
    <2>1. /\ Needs(ins) = Len(Callees[ins.fn + 1].type.params)
          /\ Leaves(ins, T) = Callees[ins.fn + 1].type.results
      BY <1>6, NeedsIs
    <2>2. ins.fn \in Nat /\ ins.fn < Len(Callees)
      BY <1>1, <1>6, InstrsAssumption DEF IndexOk
    <2>3. ins.fn + 1 \in 1..Len(Callees)
      BY <2>2, CalleesAssumption
    <2>4. Callees[ins.fn + 1].type \in FuncTypes
      BY <2>3, CalleeType
    <2>5. /\ Callees[ins.fn + 1].type.params \in Seq(ValTypes)
          /\ Callees[ins.fn + 1].type.results \in Seq(ValTypes)
      BY <2>4 DEF FuncTypes
    <2>6. Len(Callees[ins.fn + 1].type.params) \in Nat
      BY <2>5
    <2> QED BY <1>2, <2>1, <2>5, <2>6
  <1>7. CASE op \in DataOps \ {"select", "select_t"}
    <2>1. Needs(ins) = DataEffect(ins).pop /\ Leaves(ins, T) = DataEffect(ins).push
      BY <1>7, NeedsIs
    <2>2. DataEffect(ins) \in Effects
      BY <1>1, DataEffectType
    <2> QED BY <1>2, <2>1, <2>2 DEF Effects
  <1>8. CASE op \in ControlOps \ {"call"}
    <2>1. Leaves(ins, T) = << >>
      BY <1>8 DEF Leaves, ControlOps, DataOps
    <2>2. CASE op = "return"
      <3>1. f.type.results \in Seq(ValTypes)
        BY <1>1, FunsAssumption DEF TInv, TypeOK, FuncTypes
      <3>2. Needs(ins) = Len(f.type.results)
        BY <2>2, NeedsIs
      <3> QED BY <1>2, <2>1, <3>1, <3>2
    <2>3. CASE op # "return"
      <3>1. Needs(ins) \in {0, 1}
        BY <1>8, <2>3, NeedsIs DEF ControlOps
      <3> QED BY <1>2, <2>1, <3>1
    <2> QED BY <2>2, <2>3
  <1> QED BY <1>3, <1>4, <1>5, <1>6, <1>7, <1>8

\* A stack that is put together from known types has known types.
LEMMA KnownConcat ==
  ASSUME NEW T \in Seq(StackTypes), NEW m \in 0..Len(T), NEW ts \in Seq(ValTypes),
         \A i \in 1..m : T[i] \in ValTypes
  PROVE  LET V == SubSeq(T, 1, m) \o ts IN \A i \in 1..Len(V) : V[i] \in ValTypes
  <1>1. SubSeq(T, 1, m) \in Seq(ValTypes)
    <2>1. SubSeq(T, 1, m) \in Seq(StackTypes) /\ Len(SubSeq(T, 1, m)) = m
          /\ \A i \in 1..m : SubSeq(T, 1, m)[i] = T[i]
      BY Lower
    <2>2. \A i \in 1..m : SubSeq(T, 1, m)[i] \in ValTypes
      BY <2>1
    <2> QED BY <2>1, <2>2
  <1>2. SubSeq(T, 1, m) \o ts \in Seq(ValTypes)
    BY <1>1, ConcatProperties
  <1> QED BY <1>2

\* Below a reachable frame no type is unknown.
LEMMA StepSolid ==
  ASSUME NEW ins, Live(ins), FirstFrame, Solid
  PROVE  Solid'
  <1> DEFINE n == Len(ctrl_stack)
             T == val_stack
  <1>1. /\ TInv /\ ins \in Instrs /\ Step(ins) /\ ctrl_stack # << >>
        /\ T \in Seq(StackTypes) /\ Len(T) \in Nat /\ n \in 1..n /\ n \in Nat
    BY OuterFrames DEF Live, TInv, TypeOK
  <1>2. \A q \in 1..n : ctrl_stack[q].height \in Nat /\ ctrl_stack[q].height <= Top.height
    BY <1>1, PopFrameType
  <1>3. Top.height \in 0..Len(T)
    BY <1>1, TopFrame
  <1>4. ASSUME NEW p \in 1..Len(ctrl_stack'), Alive(p)', NEW i \in 1..ctrl_stack'[p].height
        PROVE  val_stack'[i] \in ValTypes
    <2>1. CASE p \in 1..n
      <3>1. p <= Len(ctrl_stack') /\ p \in Nat
        BY OuterFrames
      <3>2. SameBlock(p) /\ Alive(p)
        BY <1>4, <2>1, <3>1, Survives
      <3>3. i \in 1..ctrl_stack[p].height
        BY <3>2 DEF SameBlock
      <3>4. T[i] \in ValTypes
        BY <2>1, <3>2, <3>3 DEF Solid
      <3>5. i \in 1..Top.height
        BY <1>2, <1>3, <2>1, <3>3
      <3>6. val_stack'[i] = T[i]
        BY <1>1, <3>5, Below
      <3> QED BY <3>4, <3>6
    <2>2. CASE p \notin 1..n
      <3>1. Opened(ins, ctrl_stack'[p]) /\ ~InDeadCode
        BY <1>4, <2>2, NewFrameAlive
      <3>2. ctrl_stack'[p].height \in Nat
        <4>1. ctrl_stack'[p] \in Frames
          BY OuterFrames
        <4> QED BY <4>1 DEF Frames
      <3>3. i \in 1..Len(T)
        BY <1>1, <3>1, <3>2 DEF Opened
      <3>4. T[i] \in ValTypes
        BY <3>1, <3>3 DEF Solid
      <3> QED BY <3>1, <3>4 DEF Opened
    <2> QED BY <2>1, <2>2
  <1>5. ASSUME ~InDeadCode' PROVE \A i \in 1..Len(val_stack') : val_stack'[i] \in ValTypes
    <2>1. CASE ins.op \in {"else", "end"}
      <3> DEFINE h == ctrl_stack[n].height
      <3>1. Alive(n)
        BY <1>5, <2>1, DeadAfter
      <3>2. \A i \in 1..h : T[i] \in ValTypes
        BY <1>1, <3>1 DEF Solid
      <3>3. h \in 0..Len(T)
        BY <1>3 DEF Top
      <3>4. PICK ts \in Seq(ValTypes) : val_stack' = SubSeq(T, 1, h) \o ts
        <4>1. ctrl_stack[n].start_types \in Seq(ValTypes) /\ ctrl_stack[n].end_types \in Seq(ValTypes)
          BY <1>1, TopFrame DEF Top
        <4>2. ins.op = "else" => val_stack' = Base(n) \o ctrl_stack[n].start_types
          BY StepKinds DEF Switched
        <4>3. ins.op = "end" => val_stack' = Base(n) \o ctrl_stack[n].end_types
          BY StepKinds DEF Closing
        <4> QED BY <2>1, <4>1, <4>2, <4>3 DEF Base
      <3> HIDE DEF h
      <3> QED BY <1>1, <3>2, <3>3, <3>4, KnownConcat
    <2>2. CASE ins.op \notin {"else", "end"}
      <3>1. ~InDeadCode /\ ins.op \notin NoFall
        BY <1>5, <2>2, DeadAfter
      <3>2. LiveCode
        BY <1>1, <3>1, SolidLive
      <3>3. Takes(ins, T, stack_size_max') /\ val_stack' = After(ins, T)
        BY <1>1, <3>1, <3>2, StepCarries DEF Carries
      <3>4. Leaves(ins, T) \in Seq(ValTypes) /\ Needs(ins) \in 0..Len(T)
        BY <3>2, <3>3, LeavesKnown
      <3>5. PICK ts \in Seq(ValTypes), m \in 0..Len(T) :
              ts = Leaves(ins, T) /\ m = Len(T) - Needs(ins)
        BY <1>1, <3>4
      <3>6. val_stack' = SubSeq(T, 1, m) \o ts
        BY <3>3, <3>5 DEF After
      <3>7. \A i \in 1..m : T[i] \in ValTypes
        BY <1>1, <3>2 DEF LiveCode
      <3> QED BY <1>1, <3>6, <3>7, KnownConcat
    <2> QED BY <2>1, <2>2
  <1> QED BY <1>4, <1>5 DEF Solid

\* The slots that become pending on a frame are the new slots of a branch.
LEMMA NewPending ==
  ASSUME NEW ins, Live(ins), ins.op \notin {"else", "end"}, NEW p \in 1..Len(ctrl_stack),
         NEW i \in ctrl_stack'[p].pending_jt_slots
  PROVE  \/ i \in Pending(p)
         \/ /\ ins.op \in {"br", "br_if", "br_table"} /\ i \in Nat
            /\ Len(jt) <= i /\ i < Len(jt')
  <1>1. /\ TInv /\ ins \in Instrs /\ Step(ins) /\ ctrl_stack # << >>
        /\ ctrl_stack \in Seq(Frames) /\ Len(jt) \in Nat
    BY DEF Live, TInv, TypeOK
  <1>2. Len(jt') = Len(jt) + SlotCount(ins)
    BY StepKinds DEF StepShape
  <1>3. CASE on_unreachable(ins) \/ on_return(ins)
    <2>1. ctrl_stack' = Unreachable(ctrl_stack)
      BY <1>3 DEF on_unreachable, on_return
    <2> QED BY <1>1, <2>1, UnreachableFrames DEF Pending
  <1>4. CASE on_nop(ins) \/ on_call(ins) \/ on_data(ins)
    BY <1>4 DEF on_nop, on_call, on_data, Pending
  <1>5. CASE on_block(ins)
    <2>1. \E fr : ctrl_stack' = Append(ctrl_stack, fr)
      BY <1>5 DEF on_block
    <2> QED BY <1>1, <2>1 DEF Pending
  <1>6. CASE on_br_or_if(ins)
    <2>1. ins.op \in {"br", "br_if"}
      BY <1>6 DEF on_br_or_if
    <2>2. SlotCount(ins) = 1
      BY <2>1 DEF SlotCount, JumpOps
    <2>3. i \in Pending(p) \/ i = Len(jt)
      BY <1>1, <1>6, BrFlowing DEF Pending
    <2> QED BY <1>1, <1>2, <2>1, <2>2, <2>3
  <1>7. CASE on_br_table(ins)
    <2>1. ins.op = "br_table"
      BY <1>7 DEF on_br_table
    <2>2. SlotCount(ins) = Len(ins.ls)
      BY <2>1 DEF SlotCount
    <2>3. Len(ins.ls) \in Nat /\ (i \in Pending(p) \/ \E m \in 1..Len(ins.ls) : i = Len(jt) + m - 1)
      BY <1>1, <1>7, BrTableShape DEF Pending
    <2> QED BY <1>1, <1>2, <2>1, <2>2, <2>3
  <1> QED BY <1>1, <1>3, <1>4, <1>5, <1>6, <1>7 DEF Step, on_else, on_end

\* A frame that stays keeps its first pending slot as well.
LEMMA SameMin ==
  ASSUME NEW P \in SUBSET Nat, P # {}, NEW Q \in SUBSET Nat, P \subseteq Q, NEW J \in Nat,
         \A i \in P : i < J, \A i \in Q : i \in P \/ J <= i
  PROVE  Min(Q) = Min(P) /\ Min(P) < J
  <1>1. Min(P) \in P /\ \A i \in P : Min(P) <= i
    BY MinIs
  <1>2. PICK x \in P : x = Min(P)
    BY <1>1
  <1>3. x \in Q /\ \A i \in Q : x <= i
    BY <1>1, <1>2
  <1>4. Min(Q) = x
    BY <1>3, MinEq
  <1> QED BY <1>2, <1>4

\* The least pending slot of an if is the if's own.
LEMMA StepIfSlots ==
  ASSUME NEW ins, Live(ins), Ordered, IfSlots
  PROVE  IfSlots'
  <1> DEFINE n == Len(ctrl_stack)
             J == Len(jt)
             P(p) == ctrl_stack[p].pending_jt_slots
             Q(p) == ctrl_stack'[p].pending_jt_slots
             Own(k) == (code'[k].slot + 1)..(code'[k].slot + SlotCount(code'[k].ins))
  <1>1. /\ TInv /\ ins \in Instrs /\ Step(ins) /\ ctrl_stack # << >>
        /\ J \in Nat /\ n \in Nat /\ n \in 1..n /\ SlotCount(ins) \in Nat
        /\ Len(ctrl_stack') \in Nat
    BY OuterFrames, Sizes DEF Live, TInv, TypeOK
  <1>2. Len(jt') = J + SlotCount(ins) /\ Len(jt') \in Nat
    BY <1>1, StepKinds DEF StepShape
  <1>3. /\ \A p \in 1..n : P(p) \in SUBSET Nat
        /\ \A p \in 1..Len(ctrl_stack') : Q(p) \in SUBSET Nat
    <2>1. /\ \A p \in 1..n : ctrl_stack[p] \in Frames
          /\ \A p \in 1..Len(ctrl_stack') : ctrl_stack'[p] \in Frames
      BY OuterFrames
    <2> QED BY <2>1 DEF Frames
  <1>4. \A p \in 1..n : /\ \A i \in P(p) : i < J
                        /\ ctrl_stack[p].type = "if" => P(p) # {}
    BY DEF IfSlots, Pending
  <1>5. ASSUME NEW k \in 1..Len(code'), NEW s \in Own(k)
        PROVE  /\ s \in Nat
               /\ \/ k \in 1..Len(code) /\ code'[k] = code[k] /\ s <= J
                     /\ s \in (code[k].slot + 1)..EndSlot(k)
                  \/ code'[k].ins = ins /\ J + 1 <= s /\ s <= Len(jt')
    <2>1. CASE k \in 1..Len(code)
      <3>1. code'[k] = code[k]
        BY <2>1, Recorded
      <3>2. s \in (code[k].slot + 1)..EndSlot(k)
        BY <3>1 DEF EndSlot
      <3> QED BY <1>1, <2>1, <3>1, <3>2, OwnSlots
    <2>2. CASE k = Len(code')
      <3>1. code'[k].ins = ins /\ code'[k].slot = J
        BY <2>2, Recorded
      <3> QED BY <1>1, <1>2, <3>1
    <2> QED BY <2>1, <2>2, Recorded
  \* An old slot that is pending on an old frame.
  <1>6. ASSUME NEW k \in 1..Len(code), NEW s \in (code[k].slot + 1)..EndSlot(k),
               NEW p \in 1..n, s - 1 \in P(p)
        PROVE  code[k].ins.op = "if" <=> ctrl_stack[p].type = "if" /\ s - 1 = Min(P(p))
    BY <1>6 DEF IfSlots, Pending
  <1> SUFFICES ASSUME NEW p \in 1..Len(ctrl_stack')
               PROVE  /\ \A i \in Q(p) : i < Len(jt')
                      /\ ctrl_stack'[p].type = "if" => Q(p) # {}
                      /\ \A k \in 1..Len(code') : \A s \in Own(k) : s - 1 \in Q(p) =>
                           (code'[k].ins.op = "if" <=>
                              ctrl_stack'[p].type = "if" /\ s - 1 = Min(Q(p)))
    BY DEF IfSlots, Pending, EndSlot
  \* A frame that is as it was.
  <1>7. CASE p \in 1..n /\ ctrl_stack'[p] = ctrl_stack[p]
    <2>1. Q(p) = P(p) /\ \A i \in Q(p) : i < J /\ i < Len(jt')
      BY <1>1, <1>2, <1>3, <1>4, <1>7
    <2>2. ASSUME NEW k \in 1..Len(code'), NEW s \in Own(k), s - 1 \in Q(p)
          PROVE  code'[k].ins.op = "if" <=> ctrl_stack'[p].type = "if" /\ s - 1 = Min(Q(p))
      <3>1. s - 1 < J /\ s \in Nat
        BY <1>5, <2>1, <2>2
      <3>2. k \in 1..Len(code) /\ code'[k] = code[k] /\ s \in (code[k].slot + 1)..EndSlot(k)
        BY <1>1, <1>5, <3>1
      <3> QED BY <1>6, <1>7, <2>1, <2>2, <3>2
    <2> QED BY <1>4, <1>7, <2>1, <2>2
  \* A frame that a step other than else and end keeps.
  <1>8. CASE p \in 1..n /\ ins.op \notin {"else", "end"}
    <2>1. Kept
      BY <1>8, StepKinds DEF Flowing
    <2>2. P(p) \subseteq Q(p) /\ ctrl_stack'[p].type = ctrl_stack[p].type
      BY <1>8, <2>1 DEF Kept, Pending
    <2>3. \A i \in Q(p) : i \in P(p) \/ (ins.op # "if" /\ i \in Nat /\ J <= i /\ i < Len(jt'))
      BY <1>8, NewPending DEF Pending
    <2>4. \A i \in Q(p) : i < Len(jt')
      BY <1>1, <1>2, <1>3, <1>4, <1>8, <2>3, SMTT(30)
    <2>5. P(p) # {} => Min(Q(p)) = Min(P(p)) /\ Min(P(p)) < J
      BY <1>1, <1>3, <1>4, <1>8, <2>2, <2>3, SameMin
    <2>6. ASSUME NEW k \in 1..Len(code'), NEW s \in Own(k), s - 1 \in Q(p)
          PROVE  code'[k].ins.op = "if" <=> ctrl_stack'[p].type = "if" /\ s - 1 = Min(Q(p))
      <3>1. CASE k \in 1..Len(code) /\ code'[k] = code[k] /\ s <= J
                 /\ s \in (code[k].slot + 1)..EndSlot(k)
        <4>1. ~(J <= s - 1)
          BY <1>1, <1>5, <3>1
        <4>2. s - 1 \in P(p)
          BY <2>3, <2>6, <4>1
        <4> QED BY <1>6, <1>8, <2>2, <2>5, <3>1, <4>2
      <3>2. CASE code'[k].ins = ins /\ J + 1 <= s /\ s <= Len(jt')
        <4>1. ~(s - 1 < J) /\ s \in Nat
          BY <1>1, <1>5, <3>2
        <4>2. s - 1 \notin P(p)
          BY <1>4, <1>8, <4>1
        <4>3. ins.op # "if"
          BY <2>3, <2>6, <4>2
        <4>4. ctrl_stack'[p].type = "if" => s - 1 # Min(Q(p))
          BY <1>4, <1>8, <2>2, <2>5, <4>1
        <4> QED BY <3>2, <4>3, <4>4
      <3> QED BY <1>5, <3>1, <3>2
    <2> QED BY <1>4, <1>8, <2>2, <2>4, <2>6
  \* The new frame.
  <1>9. CASE p \notin 1..n
    <2>1. ins.op \in {"block", "loop", "if"} /\ Opened(ins, ctrl_stack'[p])
      BY <1>9, NewFrameAlive
    <2>2. ctrl_stack'[p].type = ins.op /\ Q(p) = IF ins.op = "if" THEN {J} ELSE {}
      BY <2>1 DEF Opened
    <2>3. ins.op = "if" => Min(Q(p)) = J /\ SlotCount(ins) = 1
      <3>1. ins.op = "if" => {J} \in SUBSET Nat /\ J \in {J} /\ \A y \in {J} : J <= y
        BY <1>1
      <3>2. ins.op = "if" => Min({J}) = J
        BY <3>1, MinEq
      <3> QED BY <2>2, <3>2 DEF SlotCount, JumpOps
    <2>4. ASSUME NEW k \in 1..Len(code'), NEW s \in Own(k), s - 1 \in Q(p)
          PROVE  code'[k].ins.op = "if" <=> ctrl_stack'[p].type = "if" /\ s - 1 = Min(Q(p))
      <3>1. ins.op = "if" /\ s - 1 = J
        BY <2>2, <2>4
      <3>2. code'[k].ins = ins
        BY <1>1, <1>5, <3>1
      <3> QED BY <2>2, <2>3, <3>1, <3>2
    <2>5. \A i \in Q(p) : i < Len(jt')
      BY <1>1, <1>2, <2>2, <2>3
    <2> QED BY <2>2, <2>4, <2>5
  \* The else frame that takes the place of the if's.
  <1>10. CASE p = n /\ ins.op = "else"
    <2>1. /\ Q(n) = (P(n) \ {Min(P(n))}) \cup {J}
          /\ ctrl_stack[n].type = "if" /\ ctrl_stack'[n].type = "else"
      BY <1>10, StepKinds DEF Switched, Swapped
    <2>2. SlotCount(ins) = 1
      BY <1>10 DEF SlotCount, JumpOps
    <2>3. \A i \in Q(p) : i < Len(jt')
      BY <1>1, <1>2, <1>3, <1>4, <1>10, <2>1, <2>2
    <2>4. ASSUME NEW k \in 1..Len(code'), NEW s \in Own(k), s - 1 \in Q(p)
          PROVE  code'[k].ins.op # "if"
      <3>1. CASE k \in 1..Len(code) /\ code'[k] = code[k] /\ s <= J
                 /\ s \in (code[k].slot + 1)..EndSlot(k)
        <4>1. s - 1 # J
          BY <1>1, <1>5, <3>1
        <4>2. s - 1 \in P(n) /\ s - 1 # Min(P(n))
          BY <1>10, <2>1, <2>4, <4>1
        <4> QED BY <1>1, <1>6, <3>1, <4>2
      <3>2. CASE code'[k].ins = ins /\ J + 1 <= s /\ s <= Len(jt')
        BY <1>10, <3>2
      <3> QED BY <1>5, <3>1, <3>2
    <2> QED BY <1>10, <2>1, <2>3, <2>4
  <1>11. /\ p \in 1..n /\ ins.op = "else" /\ p # n => ctrl_stack'[p] = ctrl_stack[p]
         /\ p \in 1..n /\ ins.op = "end" => ctrl_stack'[p] = ctrl_stack[p]
    <2>1. CASE p \in 1..n /\ ins.op = "else" /\ p # n
      <3>1. p \in 1..(n - 1)
        BY <1>1, <2>1
      <3> QED BY <2>1, <3>1, StepKinds DEF Switched, Swapped
    <2>2. CASE p \in 1..n /\ ins.op = "end"
      <3>1. Popped
        BY <2>2, StepKinds DEF Closing
      <3>2. p \in 1..(n - 1)
        BY <1>1, <3>1 DEF Popped
      <3> QED BY <3>1, <3>2 DEF Popped
    <2> QED BY <2>1, <2>2
  <1> QED BY <1>7, <1>8, <1>9, <1>10, <1>11

\* More room does no harm, and the function stays the same.
LEMMA TakesStays ==
  ASSUME NEW i, NEW T, NEW a \in Nat, NEW b \in Nat, a <= b, Takes(i, T, a), f' = f,
         i.op = "call" =>
           Len(T) - Needs(i) + DeclaredLocals(Callees[i.fn + 1]) \in Int
  PROVE  Takes(i, T, b)' /\ After(i, T)' = After(i, T)
  <1>1. LocalTypes' = LocalTypes
    BY DEF LocalTypes
  <1>2. Needs(i)' = Needs(i)
    BY DEF Needs
  <1>3. Leaves(i, T)' = Leaves(i, T)
    BY <1>1 DEF Leaves
  <1>4. i.op = "call" => Len(T) - Needs(i) + DeclaredLocals(Callees[i.fn + 1]) <= b
    BY DEF Takes
  <1>5. Takes(i, T, b)'
    BY <1>1, <1>2, <1>4 DEF Takes
  <1>6. After(i, T)' = After(i, T)
    BY <1>2, <1>3 DEF After
  <1> QED BY <1>5, <1>6

\* The room of a call is a number.
LEMMA CallRoom ==
  ASSUME NEW i \in Instrs, InRange(i), i.op = "call", NEW T \in Seq(StackTypes)
  PROVE  /\ Needs(i) = Len(Callees[i.fn + 1].type.params) /\ Needs(i) \in Nat
         /\ Len(T) - Needs(i) + DeclaredLocals(Callees[i.fn + 1]) \in Int
         /\ i.fn + 1 \in 1..Len(Callees)
  <1>1. i.fn + 1 \in 1..Len(Callees)
    <2>1. i.fn \in Nat /\ i.fn < Len(Callees)
      BY InstrsAssumption DEF InRange
    <2> QED BY <2>1, CalleesAssumption
  <1>2. Callees[i.fn + 1].type \in FuncTypes /\ Callees[i.fn + 1].local_count \in Nat
    BY <1>1, CalleeType
  <1>3. Needs(i) = Len(Callees[i.fn + 1].type.params)
    BY NeedsIs
  <1>4. Callees[i.fn + 1].type.params \in Seq(ValTypes)
    BY <1>2 DEF FuncTypes
  <1>5. Needs(i) \in Nat /\ Len(T) \in Nat
    BY <1>3, <1>4
  <1>6. DeclaredLocals(Callees[i.fn + 1]) \in Nat
    BY <1>2 DEF DeclaredLocals
  <1> QED BY <1>1, <1>3, <1>5, <1>6, SMTT(30)

\* An instruction that is there already.
LEMMA OldFlows ==
  ASSUME NEW ins, Live(ins), VInv, FlowParts, NEW k \in 1..Len(code), Flows(k)
  PROVE  Flows(k)'
  <1>1. /\ TInv /\ ins \in Instrs /\ Step(ins) /\ Ordered /\ Targets
        /\ FirstFrame /\ Solid /\ LoopsArrive /\ IfSlots
        /\ Len(val_stack) <= stack_size_max /\ InRange(code[k].ins)
    BY DEF Live, VInv, Layout, JumpTable, FlowParts, Roomy, CodeInv
  <1>2. code'[k] = code[k] /\ f' = f
    BY Recorded
  <1>3. PICK i, T, a, b, r, q : /\ i = code[k].ins /\ T = code[k].types
                                /\ a = NextAt(k) /\ b = After(i, T)
                                /\ r = stack_size_max /\ q = stack_size_max'
    OBVIOUS
  <1>4. i \in Instrs /\ T \in Seq(StackTypes) /\ r \in Nat /\ q \in Nat /\ r <= q
    <2>1. code[k] \in Decoded /\ stack_size_max \in Nat
      BY <1>1 DEF TInv, TypeOK
    <2>2. stack_size_max' \in Nat
      BY StepKinds DEF StepShape
    <2>3. stack_size_max <= stack_size_max'
      BY <1>1, RoomGrows
    <2> QED BY <1>3, <2>1, <2>2, <2>3 DEF Decoded
  <1>5. Takes(i, T, q)' /\ After(i, T)' = b
    <2>1. Takes(i, T, r)
      BY <1>3 DEF Flows
    <2>2. i.op = "call" => Len(T) - Needs(i) + DeclaredLocals(Callees[i.fn + 1]) \in Int
      BY <1>1, <1>3, <1>4, CallRoom
    <2> QED BY <1>2, <1>3, <1>4, <2>1, <2>2, TakesStays
  <1>6. i.op \notin NoFall => Arrives(a, b)'
    <2>1. i.op \notin NoFall => Arrives(a, b)
      BY <1>3 DEF Flows
    <2> QED BY <1>1, <2>1, ArrivesStays
  <1>7. ASSUME NEW s \in (code[k].slot + 1)..EndSlot(k)
        PROVE  SlotFlows(k, s)'
    <2>1. SlotFlows(k, s)
      BY DEF Flows
    <2>2. SlotContext(k, s)
      BY <1>1, <2>1 DEF SlotContext
    <2> QED BY <2>2, SlotsStay
  <1>8. EndSlot(k)' = EndSlot(k) /\ NextAt(k)' = a
    BY <1>2, <1>3 DEF EndSlot, NextAt
  <1>9. Takes(code[k].ins, code[k].types, stack_size_max)'
    BY <1>2, <1>3, <1>5 DEF Takes, Needs, LocalTypes
  <1>10. code'[k].ins.op \notin NoFall => Arrives(NextAt(k), After(code[k].ins, code[k].types))'
    <2>1. After(code[k].ins, code[k].types)' = b
      BY <1>2, <1>3, <1>5 DEF After, Needs, Leaves, LocalTypes
    <2> QED BY <1>2, <1>3, <1>6, <1>8, <2>1 DEF Arrives
  <1> QED BY <1>2, <1>7, <1>8, <1>9, <1>10 DEF Flows

\* The instruction that has just been read.
LEMMA FreshFlows ==
  ASSUME NEW ins, Live(ins), VInv, FlowParts, Shallow, ~InDeadCode, ctrl_stack' # << >>,
         NEW k, k = Len(code')
  PROVE  Flows(k)'
  <1>1. /\ TInv /\ ins \in Instrs /\ Step(ins) /\ Ordered /\ ctrl_stack # << >>
        /\ FirstFrame /\ Solid /\ LoopsArrive /\ IfSlots
        /\ Len(val_stack) <= stack_size_max
    BY DEF Live, VInv, Layout, JumpTable, FlowParts, Roomy
  <1>2. /\ code'[k].ins = ins /\ code'[k].types = val_stack /\ code'[k].at = offset
        /\ code'[k].slot = Len(jt) /\ f' = f /\ offset' = offset + Size(ins)
    BY Recorded
  <1>3. PICK T, q, U : T = val_stack /\ q = stack_size_max' /\ U = val_stack'
    OBVIOUS
  <1>4. LiveCode
    BY <1>1, SolidLive
  <1>5. Carries(ins)
    BY <1>1, <1>4, StepCarries
  <1>6. Takes(ins, T, q) /\ (ins.op \notin NoFall => U = After(ins, T))
    BY <1>3, <1>5 DEF Carries
  <1>7. Takes(ins, T, q)' /\ After(ins, T)' = After(ins, T)
    <2>1. q \in Nat /\ T \in Seq(StackTypes)
      BY <1>1, <1>3, StepKinds DEF StepShape, TInv, TypeOK
    <2>2. InRange(ins)
      BY <1>1, StepKinds, DecodeType DEF IndexOk, InRange
    <2>3. ins.op = "call" => Len(T) - Needs(ins) + DeclaredLocals(Callees[ins.fn + 1]) \in Int
      BY <1>1, <2>1, <2>2, CallRoom
    <2>4. q <= q
      BY <2>1
    <2> QED BY <1>2, <1>6, <2>1, <2>3, <2>4, TakesStays
  <1>8. ins.op \notin NoFall => Arrives(offset, U)'
    <2>1. CASE ins.op \notin NoFall
      <3>1. ~InDeadCode'
        <4>1. Alive(Len(ctrl_stack))
          BY OuterFrames DEF Alive, InDeadCode
        <4> QED BY <2>1, <4>1, DeadAfter
      <3> QED BY <1>3, <3>1, ArrivesBehind
    <2> QED BY <2>1
  <1>9. EndSlot(k)' = Len(jt') /\ NextAt(k)' = offset'
    BY <1>2, StepKinds DEF StepShape, EndSlot, NextAt
  <1>10. ASSUME NEW s \in (Len(jt) + 1)..Len(jt')
         PROVE  SlotFlows(k, s)'
    BY <1>1, NewFlows
  <1>11. Takes(code[k].ins, code[k].types, stack_size_max)'
    BY <1>2, <1>3, <1>7 DEF Takes, Needs, LocalTypes
  <1>12. code'[k].ins.op \notin NoFall => Arrives(NextAt(k), After(code[k].ins, code[k].types))'
    <2>1. After(code[k].ins, code[k].types)' = After(ins, T)
      BY <1>2, <1>3, <1>7 DEF After, Needs, Leaves, LocalTypes
    <2> QED BY <1>2, <1>6, <1>8, <1>9, <2>1 DEF Arrives
  <1> QED BY <1>2, <1>9, <1>10, <1>11, <1>12 DEF Flows

\* All slots, old and new, carry the types of their landing places.
LEMMA StepAllFlow ==
  ASSUME NEW ins, Live(ins), VInv, FlowParts, Shallow
  PROVE  AllFlow'
  <1> SUFFICES ASSUME NEW k \in 1..Len(code')
               PROVE  \/ code'[k].dead \/ (k = Len(code') /\ ctrl_stack' = << >>)
                      \/ Flows(k)'
    BY DEF AllFlow
  <1>1. CASE k \in 1..Len(code)
    <2>1. code'[k] = code[k] /\ ctrl_stack # << >>
      BY <1>1, Recorded DEF Live
    <2>2. code[k].dead \/ Flows(k)
      BY <1>1, <2>1 DEF FlowParts, AllFlow
    <2> QED BY <1>1, <2>1, <2>2, OldFlows
  <1>2. CASE k = Len(code')
    <2>1. code'[k].dead <=> InDeadCode
      BY <1>2, Recorded
    <2> QED BY <1>2, <2>1, FreshFlows
  <1> QED BY <1>1, <1>2, Recorded

----------------------------------------------------------------------------
(***************************************************************************)
(* So FlowInv is an invariant of the validator.                            *)
(***************************************************************************)
LEMMA StepFlow ==
  ASSUME VInv, FlowInv, NEW ins \in Instrs, Step(ins)
  PROVE  FlowInv'
  <1>1. TInv /\ Len(val_stack) <= stack_size_max /\ Ordered
    BY DEF VInv, FlowInv, Layout
  <1>2. stack_size_max <= stack_size_max' /\ Len(val_stack') <= stack_size_max'
    BY <1>1, RoomGrows
  <1>3. ASSUME skipped' = {}, Shallow'
        PROVE  FlowParts'
    <2>1. skipped = {} /\ ctrl_stack # << >>
      BY <1>3, SkippedGrows
    <2>2. Live(ins)
      BY <1>1, <1>3, <2>1 DEF Live
    <2>3. Shallow
      <3>1. stack_size_max \in Nat /\ stack_size_max' \in Nat /\ U16_MAX \in Nat
        BY <1>1, <2>2, StepKinds, WidthAssumption DEF StepShape, TInv, TypeOK
      <3> QED BY <1>2, <1>3, <3>1 DEF Shallow
    <2>4. FlowParts
      BY <2>1, <2>3 DEF FlowInv
    <2>5. /\ AllFlow /\ Solid /\ LoopsArrive /\ Entered
          /\ IfSlots /\ FirstFrame /\ Roomy /\ There
      BY <2>4 DEF FlowParts
    <2>6. AllFlow'
      BY <2>2, <2>3, <2>4, StepAllFlow
    <2>7. Solid' /\ LoopsArrive' /\ Entered'
      BY <2>2, <2>5, StepSolid, StepLoops, StepEntered
    <2>8. IfSlots' /\ FirstFrame' /\ Roomy' /\ There'
      BY <1>1, <2>2, <2>5, StepIfSlots, StepFirstFrame, StepRoomy, StepThere
    <2> QED BY <2>6, <2>7, <2>8 DEF FlowParts
  <1> QED BY <1>2, <1>3 DEF FlowInv

\* on_decode_end sets nothing of a slot but its next_idx.
LEMMA EndFlow ==
  ASSUME VInv, FlowInv, on_decode_end
  PROVE  FlowInv'
  <1>1. /\ TInv /\ Ordered /\ phase = "decode" /\ phase' = "ready" /\ jt' = Link(jt)
        /\ val_stack' = << >> /\ ctrl_stack' = << >> /\ code' = code /\ f' = f
        /\ offset' = offset /\ stack_size_max' = stack_size_max /\ stack_size_max \in Nat
        /\ jt \in Seq(Slots)
    BY DEF VInv, Layout, on_decode_end, TInv, TypeOK
  <1>2. Len(val_stack') <= stack_size_max' /\ Len(val_stack') = 0
    BY <1>1
  <1>3. ASSUME skipped' = {}, Shallow'
        PROVE  FlowParts'
    <2>1. skipped = {} /\ ctrl_stack = << >> /\ Shallow
      BY <1>1, <1>3 DEF on_decode_end, Shallow
    <2>2. AllFlow /\ Entered /\ Roomy /\ There
      BY <2>1 DEF FlowInv, FlowParts
    <2>3. ASSUME NEW a, NEW U, Arrives(a, U) PROVE Arrives(a, U)'
      BY <1>1, <2>1, <2>3 DEF Arrives
    <2>4. ASSUME NEW k \in 1..Len(code), NEW s \in (code[k].slot + 1)..EndSlot(k),
                 SlotFlows(k, s)
          PROVE  SlotFlows(k, s)'
      <3>1. s \in 1..Len(jt)
        BY <1>1, OwnSlots
      <3>2. /\ jt'[s].stack_offset = jt[s].stack_offset /\ jt'[s].arity = jt[s].arity
            /\ jt'[s].pc = jt[s].pc /\ jt'[s].target_offset = jt[s].target_offset
        BY <1>1, <3>1, Linked
      <3>3. PICK a, U : a = Target(jt[s]) /\ U = Landed(code[k].ins, code[k].types, jt[s])
        OBVIOUS
      <3>4. ~Waiting(s) /\ Len(ctrl_stack) = 0
        BY <2>1 DEF Waiting
      <3>5. Arrives(a, U)
        BY <2>4, <3>3, <3>4 DEF SlotFlows
      <3>6. Arrives(a, U)'
        BY <2>3, <3>5
      <3>7. Target(jt'[s]) = a
        BY <3>2, <3>3 DEF Target
      <3>8. Landed(code'[k].ins, code'[k].types, jt'[s]) = U
        BY <1>1, <3>2, <3>3, SameMove
      <3>9. Arrives(Target(jt[s]), Landed(code[k].ins, code[k].types, jt[s]))'
        BY <3>6, <3>7, <3>8 DEF Arrives
      <3>10. code'[k].ins.op \in {"br", "br_if", "br_table"} =>
               jt'[s].stack_offset + jt'[s].arity <= Len(Carried(code'[k].ins, code'[k].types))
        BY <1>1, <2>4, <3>2 DEF SlotFlows
      <3>11. Len(ctrl_stack') = 0
        BY <1>1
      <3> QED BY <3>9, <3>10, <3>11 DEF SlotFlows
    <2>5. ASSUME NEW k \in 1..Len(code), Flows(k) PROVE Flows(k)'
      <3>1. PICK a, U : a = NextAt(k) /\ U = After(code[k].ins, code[k].types)
        OBVIOUS
      <3>2. code[k].ins.op \notin NoFall => Arrives(a, U)'
        BY <2>3, <2>5, <3>1 DEF Flows
      <3>3. NextAt(k)' = a /\ After(code[k].ins, code[k].types)' = U /\ EndSlot(k)' = EndSlot(k)
        BY <1>1, <3>1 DEF NextAt, After, Needs, Leaves, LocalTypes, EndSlot
      <3>4. code'[k].ins.op \notin NoFall =>
              Arrives(NextAt(k), After(code[k].ins, code[k].types))'
        BY <1>1, <3>2, <3>3 DEF Arrives
      <3>5. Takes(code[k].ins, code[k].types, stack_size_max)'
        BY <1>1, <2>5 DEF Flows, Takes, Needs, LocalTypes
      <3>6. \A s \in (code[k].slot + 1)..EndSlot(k) : SlotFlows(k, s)'
        BY <2>4, <2>5 DEF Flows
      <3> QED BY <1>1, <3>3, <3>4, <3>5, <3>6 DEF Flows
    <2>6. AllFlow'
      BY <1>1, <2>1, <2>2, <2>5 DEF AllFlow
    <2>7. Entered'
      BY <1>1, <2>2, <2>3 DEF Entered
    <2>8. Roomy' /\ There'
      BY <1>1, <1>2, <2>1, <2>2 DEF Roomy, There
    <2>9. Solid' /\ LoopsArrive' /\ IfSlots' /\ FirstFrame'
      <3>1. Len(ctrl_stack') = 0
        BY <1>1
      <3> QED BY <1>1, <1>2, <3>1 DEF Solid, LoopsArrive, IfSlots, FirstFrame
    <2> QED BY <2>6, <2>7, <2>8, <2>9 DEF FlowParts
  <1> QED BY <1>2, <1>3 DEF FlowInv

\* A rejected function claims nothing.
LEMMA QuitFlow ==
  ASSUME NEW how \in {"invalid", "assert"}, Quit(how)
  PROVE  FlowInv'
  <1>1. /\ code' = << >> /\ val_stack' = << >> /\ ctrl_stack' = << >>
        /\ stack_size_max' = 0 /\ phase' \notin {"decode", "ready"}
        /\ Len(code') = 0 /\ Len(val_stack') = 0 /\ Len(ctrl_stack') = 0
    BY DEF Quit
  <1>2. AllFlow' /\ Solid' /\ LoopsArrive' /\ Entered'
    BY <1>1 DEF AllFlow, Solid, LoopsArrive, Entered
  <1>3. IfSlots' /\ FirstFrame' /\ Roomy' /\ There'
    BY <1>1 DEF IfSlots, FirstFrame, Roomy, There
  <1> QED BY <1>1, <1>2, <1>3 DEF FlowInv, FlowParts

\* A step of the interpreter leaves the validator's work alone.
LEMMA SameFlow ==
  ASSUME FlowInv, UNCHANGED vars
  PROVE  FlowInv'
  <1>1. /\ f' = f /\ code' = code /\ offset' = offset /\ val_stack' = val_stack
        /\ ctrl_stack' = ctrl_stack /\ jt' = jt /\ stack_size_max' = stack_size_max
        /\ phase' = phase /\ skipped' = skipped
    BY DEF vars
  <1>2. \A a, U : Arrives(a, U)' <=> Arrives(a, U)
    BY <1>1 DEF Arrives, InDeadCode
  <1>3. \A p : (Alive(p)' <=> Alive(p)) /\ Base(p)' = Base(p) /\ Pending(p)' = Pending(p)
    BY <1>1 DEF Alive, Base, Pending
  <1>4. ASSUME NEW k \in 1..Len(code), Flows(k) PROVE Flows(k)'
    <2>1. PICK a, U : a = NextAt(k) /\ U = After(code[k].ins, code[k].types)
      OBVIOUS
    <2>2. code[k].ins.op \notin NoFall => Arrives(a, U)'
      BY <1>2, <1>4, <2>1 DEF Flows
    <2>3. NextAt(k)' = a /\ After(code[k].ins, code[k].types)' = U /\ EndSlot(k)' = EndSlot(k)
      BY <1>1, <2>1 DEF NextAt, After, Needs, Leaves, LocalTypes, EndSlot
    <2>4. code'[k].ins.op \notin NoFall =>
            Arrives(NextAt(k), After(code[k].ins, code[k].types))'
      BY <1>1, <2>2, <2>3 DEF Arrives
    <2>5. Takes(code[k].ins, code[k].types, stack_size_max)'
      BY <1>1, <1>4 DEF Flows, Takes, Needs, LocalTypes
    <2>6. ASSUME NEW s \in (code[k].slot + 1)..EndSlot(k) PROVE SlotFlows(k, s)'
      <3>1. SlotFlows(k, s)
        BY <1>4 DEF Flows
      <3>2. PICK b, V : b = Target(jt[s]) /\ V = Landed(code[k].ins, code[k].types, jt[s])
        OBVIOUS
      <3>3. Waiting(s) \/ Arrives(b, V)'
        BY <1>2, <3>1, <3>2 DEF SlotFlows
      <3>4. Waiting(s)' \/ Arrives(Target(jt[s]), Landed(code[k].ins, code[k].types, jt[s]))'
        BY <1>1, <3>2, <3>3 DEF Arrives, Waiting
      <3> QED BY <1>1, <1>3, <3>1, <3>4 DEF SlotFlows
    <2> QED BY <1>1, <2>3, <2>4, <2>5, <2>6 DEF Flows
  <1>5. AllFlow => AllFlow'
    BY <1>1, <1>4 DEF AllFlow
  <1>6. Solid => Solid'
    BY <1>1, <1>3 DEF Solid, InDeadCode
  <1>7. LoopsArrive => LoopsArrive'
    <2> SUFFICES ASSUME LoopsArrive, NEW p \in 1..Len(ctrl_stack),
                        ctrl_stack[p].type = "loop", Alive(p)
                 PROVE  Arrives(ctrl_stack[p].pc, Base(p) \o ctrl_stack[p].start_types)'
      BY <1>1, <1>3 DEF LoopsArrive
    <2>1. PICK a, U : a = ctrl_stack[p].pc /\ U = Base(p) \o ctrl_stack[p].start_types
      OBVIOUS
    <2>2. Arrives(a, U)'
      BY <1>2, <2>1 DEF LoopsArrive
    <2> QED BY <1>1, <1>3, <2>1, <2>2 DEF Arrives
  <1>8. Entered => Entered'
    BY <1>1, <1>2 DEF Entered
  <1>9. IfSlots => IfSlots'
    BY <1>1, <1>3 DEF IfSlots, EndSlot
  <1>10. (FirstFrame => FirstFrame') /\ (Roomy => Roomy') /\ (There => There')
    BY <1>1 DEF FirstFrame, Roomy, There
  <1> QED BY <1>1, <1>5, <1>6, <1>7, <1>8, <1>9, <1>10 DEF FlowInv, FlowParts, Shallow

\* An empty body claims nothing yet.
LEMMA InitFlow ==
  ASSUME Init
  PROVE  FlowInv
  <1>1. /\ code = << >> /\ offset = 0 /\ val_stack = << >> /\ jt = << >>
        /\ ctrl_stack = <<NewFrame("func", f.type, 0, 0)>>
        /\ stack_size_max = Len(f.type.params) /\ f \in Funs
    BY DEF Init
  <1>2. Len(f.type.params) \in Nat
    BY <1>1, FunsAssumption DEF FuncTypes
  <1>3. /\ Len(code) = 0 /\ Len(val_stack) = 0 /\ Len(ctrl_stack) = 1
        /\ \A p \in 1..Len(ctrl_stack) : p = 1
        /\ ctrl_stack[1] = NewFrame("func", f.type, 0, 0) /\ ctrl_stack # << >>
    BY <1>1
  <1>4. /\ ctrl_stack[1].type = "func" /\ ctrl_stack[1].height = 0
        /\ ctrl_stack[1].end_types = f.type.results /\ ~ctrl_stack[1].unreachable
        /\ ctrl_stack[1].pending_jt_slots = {}
    BY <1>3 DEF NewFrame
  <1>5. ~InDeadCode
    BY <1>3, <1>4 DEF InDeadCode
  <1>6. AllFlow /\ Solid /\ LoopsArrive /\ There
    BY <1>3, <1>4 DEF AllFlow, Solid, LoopsArrive, There
  <1>7. Entered
    BY <1>1, <1>3, <1>5 DEF Entered, Arrives
  <1>8. IfSlots
    BY <1>3, <1>4 DEF IfSlots, Pending
  <1>9. FirstFrame /\ Roomy
    BY <1>1, <1>2, <1>3, <1>4 DEF FirstFrame, Roomy
  <1> QED BY <1>1, <1>2, <1>3, <1>6, <1>7, <1>8, <1>9 DEF FlowInv, FlowParts

\* Every step of the validator keeps the flow of types.
LEMMA NextFlow ==
  ASSUME VInv, FlowInv, [Next]_vars
  PROVE  FlowInv'
  <1>1. CASE UNCHANGED vars
    BY <1>1, SameFlow
  <1>2. CASE \E ins \in Instrs : Step(ins)
    BY <1>2, StepFlow
  <1>3. CASE on_decode_end
    BY <1>3, EndFlow
  <1>4. CASE Reject \/ Truncated \/ EmptyVecAccess
    BY <1>4, QuitFlow DEF Reject, Truncated, EmptyVecAccess
  <1> QED BY <1>1, <1>2, <1>3, <1>4 DEF Next

----------------------------------------------------------------------------
(***************************************************************************)
(* The activation.  First the types of a stack that is put together from   *)
(* others.                                                                 *)
(***************************************************************************)
LEMMA TypesOfType ==
  ASSUME NEW s \in Seq(Values)
  PROVE  /\ TypesOf(s) \in Seq(ValTypes) /\ Len(TypesOf(s)) = Len(s) /\ Len(s) \in Nat
         /\ \A i \in 1..Len(s) : TypesOf(s)[i] = s[i].t
  <1>1. \A i \in 1..Len(s) : s[i].t \in ValTypes
    <2>1. \A i \in 1..Len(s) : s[i] \in Values
      OBVIOUS
    <2> QED BY <2>1 DEF Values
  <1> QED BY <1>1 DEF TypesOf

\* The types of a stack put together from two.
LEMMA TypesOfConcat ==
  ASSUME NEW a \in Seq(Values), NEW b \in Seq(Values)
  PROVE  TypesOf(a \o b) = TypesOf(a) \o TypesOf(b) /\ a \o b \in Seq(Values)
  <1>1. /\ a \o b \in Seq(Values) /\ Len(a \o b) = Len(a) + Len(b)
        /\ \A i \in 1..(Len(a) + Len(b)) :
             (a \o b)[i] = IF i <= Len(a) THEN a[i] ELSE b[i - Len(a)]
    BY ConcatProperties
  <1>2. /\ TypesOf(a) \in Seq(ValTypes) /\ Len(TypesOf(a)) = Len(a) /\ Len(a) \in Nat
        /\ \A i \in 1..Len(a) : TypesOf(a)[i] = a[i].t
    BY TypesOfType
  <1>3. /\ TypesOf(b) \in Seq(ValTypes) /\ Len(TypesOf(b)) = Len(b) /\ Len(b) \in Nat
        /\ \A i \in 1..Len(b) : TypesOf(b)[i] = b[i].t
    BY TypesOfType
  <1>4. /\ TypesOf(a \o b) \in Seq(ValTypes) /\ Len(TypesOf(a \o b)) = Len(a) + Len(b)
        /\ \A i \in 1..(Len(a) + Len(b)) : TypesOf(a \o b)[i] = (a \o b)[i].t
    BY <1>1, TypesOfType
  <1> DEFINE A == TypesOf(a)
             B == TypesOf(b)
             C == TypesOf(a \o b)
  <1>5. /\ A \o B \in Seq(ValTypes) /\ Len(A \o B) = Len(A) + Len(B)
        /\ \A i \in 1..(Len(A) + Len(B)) :
             (A \o B)[i] = IF i <= Len(A) THEN A[i] ELSE B[i - Len(A)]
    <2>1. A \in Seq(ValTypes) /\ B \in Seq(ValTypes)
      BY <1>2, <1>3
    <2> HIDE DEF A, B
    <2> QED BY <2>1, ConcatProperties
  <1>6. ASSUME NEW i \in 1..(Len(a) + Len(b)) PROVE C[i] = (A \o B)[i]
    <2>1. CASE i <= Len(a)
      <3>1. i \in 1..Len(a)
        BY <1>2, <2>1
      <3>2. C[i] = a[i].t /\ (A \o B)[i] = A[i]
        BY <1>1, <1>2, <1>3, <1>4, <1>5, <2>1
      <3> QED BY <1>2, <3>1, <3>2
    <2>2. CASE ~(i <= Len(a))
      <3>1. i - Len(a) \in 1..Len(b)
        BY <1>2, <1>3, <2>2
      <3>2. C[i] = b[i - Len(a)].t /\ (A \o B)[i] = B[i - Len(a)]
        BY <1>1, <1>2, <1>3, <1>4, <1>5, <2>2
      <3> QED BY <1>3, <3>1, <3>2
    <2> QED BY <2>1, <2>2
  <1> HIDE DEF A, B, C
  <1>7. Len(A \o B) = Len(a) + Len(b) /\ A \o B \in Seq(ValTypes)
        /\ C \in Seq(ValTypes) /\ Len(C) = Len(a) + Len(b)
    BY <1>2, <1>3, <1>4, <1>5 DEF A, B, C
  <1>8. C = A \o B
    BY <1>6, <1>7, SeqEqual
  <1> QED BY <1>1, <1>8 DEF A, B, C

\* The types of a stack's lower and upper part.
LEMMA TypesOfPart ==
  ASSUME NEW s \in Seq(Values), NEW n \in 0..Len(s)
  PROVE  /\ TypesOf(SubSeq(s, 1, Len(s) - n)) = SubSeq(TypesOf(s), 1, Len(s) - n)
         /\ TypesOf(SubSeq(s, Len(s) - n + 1, Len(s))) =
              SubSeq(TypesOf(s), Len(s) - n + 1, Len(s))
         /\ SubSeq(s, 1, Len(s) - n) \in Seq(Values)
         /\ SubSeq(s, Len(s) - n + 1, Len(s)) \in Seq(Values)
         /\ Len(SubSeq(s, Len(s) - n + 1, Len(s))) = n
  <1> DEFINE T == TypesOf(s)
             m == Len(s) - n
             a == SubSeq(s, 1, m)
             b == SubSeq(s, m + 1, Len(s))
  <1>1. /\ T \in Seq(ValTypes) /\ Len(T) = Len(s) /\ Len(s) \in Nat /\ m \in 0..Len(s)
        /\ \A i \in 1..Len(s) : T[i] = s[i].t
    BY TypesOfType
  <1>2. a \in Seq(Values) /\ Len(a) = m /\ \A i \in 1..m : a[i] = s[i]
    BY <1>1, Lower
  <1>3. b \in Seq(Values) /\ Len(b) = n /\ \A i \in 1..n : b[i] = s[m + i]
    BY Upper
  <1>4. /\ SubSeq(T, 1, m) \in Seq(ValTypes) /\ Len(SubSeq(T, 1, m)) = m
        /\ \A i \in 1..m : SubSeq(T, 1, m)[i] = T[i]
    BY <1>1, Lower
  <1>5. /\ SubSeq(T, m + 1, Len(s)) \in Seq(ValTypes) /\ Len(SubSeq(T, m + 1, Len(s))) = n
        /\ \A i \in 1..n : SubSeq(T, m + 1, Len(s))[i] = T[m + i]
    <2>1. n \in 0..Len(T)
      BY <1>1
    <2> QED BY <1>1, <2>1, Upper
  <1>6. /\ TypesOf(a) \in Seq(ValTypes) /\ Len(TypesOf(a)) = m
        /\ \A i \in 1..m : TypesOf(a)[i] = a[i].t
    BY <1>2, TypesOfType
  <1>7. /\ TypesOf(b) \in Seq(ValTypes) /\ Len(TypesOf(b)) = n
        /\ \A i \in 1..n : TypesOf(b)[i] = b[i].t
    BY <1>3, TypesOfType
  <1>8. TypesOf(a) = SubSeq(T, 1, m)
    <2>1. \A i \in 1..m : i \in 1..Len(s)
      BY <1>1
    <2>2. \A i \in 1..m : TypesOf(a)[i] = SubSeq(T, 1, m)[i]
      BY <1>1, <1>2, <1>4, <1>6, <2>1
    <2> HIDE DEF a, T, m
    <2> QED BY <1>4, <1>6, <2>2, SeqEqual
  <1>9. TypesOf(b) = SubSeq(T, m + 1, Len(s))
    <2>1. \A i \in 1..n : m + i \in 1..Len(s)
      BY <1>1
    <2>2. \A i \in 1..n : TypesOf(b)[i] = SubSeq(T, m + 1, Len(s))[i]
      BY <1>1, <1>3, <1>5, <1>7, <2>1
    <2> HIDE DEF b, T, m
    <2> QED BY <1>5, <1>7, <2>2, SeqEqual
  <1> QED BY <1>2, <1>3, <1>8, <1>9

\* New values have the types they are made with.
LEMMA TypesOfMade ==
  ASSUME NEW k \in Nat, NEW ts \in Seq(ValTypes)
  PROVE  TypesOf(Made(k, ts)) = ts
  <1>1. Made(k, ts) \in Seq(Values) /\ Len(Made(k, ts)) = Len(ts)
    BY MakingValues
  <1>2. /\ TypesOf(Made(k, ts)) \in Seq(ValTypes) /\ Len(TypesOf(Made(k, ts))) = Len(ts)
        /\ \A i \in 1..Len(ts) : TypesOf(Made(k, ts))[i] = Made(k, ts)[i].t
    BY <1>1, TypesOfType
  <1>3. \A i \in 1..Len(ts) : Made(k, ts)[i].t = ts[i]
    BY DEF Made
  <1>4. \A i \in 1..Len(ts) : TypesOf(Made(k, ts))[i] = ts[i]
    BY <1>2, <1>3
  <1> QED BY <1>2, <1>4, SeqEqual

\* Moving values down moves their types down.
LEMMA TypesOfMoved ==
  ASSUME NEW s \in Seq(Values), NEW slot \in Slots, MoveOk(slot, s)
  PROVE  TypesOf(Moved(slot, s)) = Moved(slot, TypesOf(s))
  <1> DEFINE so == slot.stack_offset
             n == slot.arity
  <1>1. so \in Nat /\ n \in Nat /\ Len(s) \in Nat /\ Len(TypesOf(s)) = Len(s)
    BY TypesOfType DEF Slots
  <1>2. CASE so = 0
    BY <1>2 DEF Moved
  <1>3. CASE so # 0
    <2>1. Len(s) >= so + n
      BY <1>3 DEF MoveOk
    <2>2. so + n \in 0..Len(s) /\ n \in 0..Len(s) /\ Len(s) - so - n = Len(s) - (so + n)
      BY <1>1, <2>1
    <2> DEFINE a == SubSeq(s, 1, Len(s) - (so + n))
               b == SubSeq(s, Len(s) - n + 1, Len(s))
    <2>3. /\ a \in Seq(Values) /\ TypesOf(a) = SubSeq(TypesOf(s), 1, Len(s) - (so + n))
          /\ b \in Seq(Values)
          /\ TypesOf(b) = SubSeq(TypesOf(s), Len(s) - n + 1, Len(s))
      BY <2>2, TypesOfPart
    <2>4. Moved(slot, s) = a \o b /\ Moved(slot, TypesOf(s)) = TypesOf(a) \o TypesOf(b)
      BY <1>1, <1>3, <2>2, <2>3 DEF Moved
    <2> HIDE DEF a, b
    <2> QED BY <2>3, <2>4, TypesOfConcat
  <1> QED BY <1>2, <1>3

----------------------------------------------------------------------------
(***************************************************************************)
(* An activation at instruction k of a function that fails no check, with  *)
(* the types on its stack that the validator has seen there.               *)
(***************************************************************************)
Going(k) ==
  /\ VInv /\ Activated /\ FlowParts /\ ctrl_stack = << >>
  /\ k \in 1..Len(code) /\ At(k)
  /\ TypesOf(local) = LocalTypes /\ Arrives(pc, TypesOf(stack))

\* The last instruction is the function's end; before it all is as validated.
LEMMA GoingFacts ==
  ASSUME NEW k, Going(k)
  PROVE  /\ stack \in Seq(Values) /\ local \in Seq(Values) /\ k \in Nat
         /\ Ins(k) \in Instrs /\ InRange(Ins(k)) /\ f.type.results \in Seq(ValTypes)
         /\ TypesOf(stack) \in Seq(ValTypes) /\ Len(TypesOf(stack)) = Len(stack)
         /\ Len(stack) \in Nat
         /\ IF k = Len(code)
              THEN /\ TypesOf(stack) = f.type.results /\ Ins(k).op = "end"
                   /\ NextAt(k) = offset
              ELSE /\ Flows(k) /\ code[k].types = TypesOf(stack) /\ NextAt(k) # offset
                   /\ Len(stack) <= stack_size_max
  <1>1. VInv /\ Activated /\ FlowParts /\ ctrl_stack = << >> /\ k \in 1..Len(code) /\ At(k)
    BY DEF Going
  <1>2. /\ stack \in Seq(Values) /\ local \in Seq(Values) /\ k \in Nat /\ phase = "ready"
        /\ Ins(k) \in Instrs /\ InRange(Ins(k)) /\ f.type.results \in Seq(ValTypes)
    BY <1>1, RunFacts
  <1>3. /\ TypesOf(stack) \in Seq(ValTypes) /\ Len(TypesOf(stack)) = Len(stack)
        /\ Len(stack) \in Nat
    BY <1>2, TypesOfType
  <1>4. IF k = Len(code) THEN TypesOf(stack) = f.type.results
                         ELSE ~code[k].dead /\ code[k].types = TypesOf(stack)
    <2>1. PICK j \in 1..Len(code) :
            /\ code[j].at = pc
            /\ IF j = Len(code) THEN TypesOf(stack) = f.type.results
                                ELSE ~code[j].dead /\ code[j].types = TypesOf(stack)
      BY <1>1 DEF Going, Arrives
    <2>2. j = k
      BY <1>1, <2>1, OneAt DEF At
    <2> QED BY <2>1, <2>2
  <1>5. CASE k = Len(code)
    <2>1. Ins(k).op = "end"
      BY <1>1, <1>2, <1>5 DEF VInv, CodeInv, EndDecoded, Ins
    <2>2. NextAt(k) = offset
      BY <1>1, <1>5 DEF VInv, Layout, SlotLayout
    <2> QED BY <1>2, <1>3, <1>4, <1>5, <2>1, <2>2
  <1>6. CASE k # Len(code)
    <2>1. Flows(k)
      BY <1>1, <1>4, <1>6 DEF FlowParts, AllFlow
    <2>2. NextAt(k) # offset
      <3>1. TInv /\ Len(code) \in Nat /\ SlotLayout /\ Ordered
        BY <1>1 DEF VInv, TInv, TypeOK, Layout
      <3>2. k + 1 \in 1..Len(code)
        BY <1>1, <1>6, <3>1
      <3>3. NextAt(k) = code[k + 1].at
        BY <1>1, <1>6, <3>1 DEF SlotLayout
      <3>4. /\ code[k + 1].at < NextAt(k + 1) /\ NextAt(k + 1) <= offset
            /\ code[k + 1].at \in Nat /\ NextAt(k + 1) \in Nat /\ offset \in Nat
        BY <3>1, <3>2, CodeTypes DEF Ordered, TInv, TypeOK
      <3> QED BY <3>3, <3>4
    <2>3. Len(code[k].types) <= stack_size_max
      BY <1>1 DEF FlowParts, Roomy
    <2> QED BY <1>2, <1>3, <1>4, <1>6, <2>1, <2>2, <2>3
  <1> QED BY <1>5, <1>6

\* A handler reads what the validator says that its instruction needs.
LEMMA ReadsNeeds ==
  ASSUME NEW k, Going(k), k # Len(code)
  PROVE  Reads(k) = Needs(Ins(k)) /\ Enough(k)
  <1>1. Ins(k) \in Instrs /\ NextAt(k) # offset /\ Flows(k)
        /\ code[k].types = TypesOf(stack) /\ Len(TypesOf(stack)) = Len(stack)
    BY GoingFacts
  <1>2. Ins(k).op \in ControlOps \cup LocalOps \cup DataOps
    BY <1>1, InstrsAssumption
  <1>3. Reads(k) = Needs(Ins(k))
    BY <1>1, <1>2, ReadsIs, NeedsIs DEF ControlOps, LocalOps
  <1>4. Len(stack) >= Needs(Ins(k))
    BY <1>1 DEF Flows, Takes, Ins
  <1> QED BY <1>3, <1>4 DEF Enough

\* What a handler may do at an instruction before the last.
TypedRun(k) ==
  LET i == Ins(k)
      T == TypesOf(stack)
  IN  \/ Stop("trapped")
      \/ Stop("bad_room") /\ (i.op = "call" => Callees[i.fn + 1].imported)
      \/ /\ i.op \notin NoFall
         /\ \E s, l \in Seq(Values), n \in Int :
              /\ Continue(k, s, l, n)
              /\ TypesOf(s) = After(i, T) /\ TypesOf(l) = LocalTypes
      \/ \E n \in Nat, s \in Seq(Values), move \in BOOLEAN :
           /\ n < SlotCount(i) /\ Jump(U16(next_jt_idx + n), SlotAddr(k), s, move)
           /\ TypesOf(s) = Carried(i, T) /\ (move <=> i.op \notin {"if", "else"})
           /\ Len(s) <= stack_size_max
      \/ i.op = "return" /\ Return

\* Popping what the instruction needs and pushing what it leaves.
LEMMA AfterTypes ==
  ASSUME NEW k, Going(k), k # Len(code), NEW w \in Seq(Values),
         TypesOf(w) = Leaves(Ins(k), TypesOf(stack)), NEW n, n = Needs(Ins(k)), n \in Nat
  PROVE  /\ Pop(n) \o w \in Seq(Values) /\ TypesOf(Pop(n) \o w) = After(Ins(k), TypesOf(stack))
         /\ n \in 0..Len(stack)
  <1>1. stack \in Seq(Values) /\ Len(TypesOf(stack)) = Len(stack) /\ Len(stack) \in Nat
    BY GoingFacts
  <1>2. n \in 0..Len(stack)
    BY <1>1, ReadsNeeds DEF Enough
  <1>3. /\ Pop(n) \in Seq(Values)
        /\ TypesOf(Pop(n)) = SubSeq(TypesOf(stack), 1, Len(stack) - n)
    BY <1>1, <1>2, TypesOfPart DEF Pop
  <1>4. Pop(n) \o w \in Seq(Values) /\ TypesOf(Pop(n) \o w) = TypesOf(Pop(n)) \o TypesOf(w)
    BY <1>3, TypesOfConcat
  <1> QED BY <1>1, <1>2, <1>3, <1>4 DEF After

\* The same where nothing is pushed, and where nothing changes.
LEMMA AfterPop ==
  ASSUME NEW k, Going(k), k # Len(code), Leaves(Ins(k), TypesOf(stack)) = << >>,
         NEW n \in {0, 1}, n = Needs(Ins(k))
  PROVE  /\ Pop(n) \in Seq(Values) /\ TypesOf(Pop(n)) = After(Ins(k), TypesOf(stack))
         /\ Pop(0) = stack /\ n <= Len(stack)
         /\ n = 1 => TypesOf(Pop(1)) = Front(TypesOf(stack))
         /\ Len(Pop(n)) <= stack_size_max
  <1>1. stack \in Seq(Values) /\ Len(TypesOf(stack)) = Len(stack) /\ Len(stack) \in Nat
        /\ Len(stack) <= stack_size_max /\ stack_size_max \in Nat
    BY GoingFacts DEF Going, VInv, TInv, TypeOK
  <1>2. << >> \in Seq(Values) /\ TypesOf(<< >>) = << >>
    <2>1. << >> \in Seq(Values)
      OBVIOUS
    <2>2. TypesOf(<< >>) \in Seq(ValTypes) /\ Len(TypesOf(<< >>)) = 0
      BY <2>1, TypesOfType
    <2> QED BY <2>1, <2>2
  <1>3. /\ TypesOf(Pop(n) \o << >>) = After(Ins(k), TypesOf(stack)) /\ n \in 0..Len(stack)
    BY <1>2, AfterTypes
  <1>4. /\ Pop(n) \in Seq(Values) /\ Len(Pop(n)) = Len(stack) - n
        /\ TypesOf(Pop(n)) = SubSeq(TypesOf(stack), 1, Len(stack) - n)
    <2>1. n \in Nat /\ n <= Len(stack)
      BY <1>1, <1>3
    <2> QED BY <1>1, <1>3, <2>1, Popping, TypesOfPart DEF Pop
  <1>5. Pop(n) \o << >> = Pop(n)
    BY <1>4, ConcatEmptySeq
  <1>6. Pop(0) = stack
    BY <1>1, NoChange DEF Pop
  <1>7. n = 1 => TypesOf(Pop(1)) = Front(TypesOf(stack))
    BY <1>1, <1>4 DEF Front
  <1> QED BY <1>1, <1>3, <1>4, <1>5, <1>6, <1>7

\* nop, block, loop, unreachable, if, else, br, br_if, br_table, and an inner end.
LEMMA ControlTyped ==
  ASSUME NEW k, Going(k), k # Len(code),
         \/ RunNop(k) \/ RunUnreachable(k) \/ RunIf(k) \/ RunElse(k) \/ RunEnd(k)
         \/ RunReturn(k) \/ RunBr(k) \/ RunBrIf(k) \/ RunBrTable(k)
  PROVE  TypedRun(k)
  <1> DEFINE i == Ins(k)
             T == TypesOf(stack)
  <1>1. /\ stack \in Seq(Values) /\ local \in Seq(Values) /\ TypesOf(local) = LocalTypes
        /\ NextAt(k) # offset /\ next_jt_idx \in Nat /\ U16(next_jt_idx + 0) = next_jt_idx
        /\ Len(stack) <= stack_size_max /\ U16(next_jt_idx + 1) \in Int
    <2>1. next_jt_idx \in Nat /\ U16(next_jt_idx + 0) = next_jt_idx
      BY RunFacts DEF Going
    <2>2. next_jt_idx + 1 \in Int
      BY <2>1
    <2>3. U16(next_jt_idx + 1) \in 0..U16_MAX
      BY <2>2, U16Range
    <2> QED BY <2>1, <2>3, GoingFacts, WidthAssumption DEF Going
  <1>2. SlotAddr(k) = IF i.op = "br_table" THEN NextAt(k) ELSE Imm1(k)
    BY DEF SlotAddr, Ins, Imm1
  <1>3. Leaves(i, T) = << >> /\ Needs(i) = 0 /\ i.op \in {"nop", "block", "loop", "end"}
          => T = After(i, T)
    BY AfterPop
  <1>4. i.op \in {"if", "br_if"} =>
          /\ Pop(1) \in Seq(Values) /\ TypesOf(Pop(1)) = After(i, T)
          /\ TypesOf(Pop(1)) = Carried(i, T) /\ Len(Pop(1)) <= stack_size_max
    <2>1. i.op \in {"if", "br_if"} => Leaves(i, T) = << >> /\ Needs(i) = 1
      BY NeedsIs
    <2> QED BY <2>1, AfterPop DEF Carried
  <1>5. CASE RunNop(k) \/ RunEnd(k)
    <2>1. i.op \in {"nop", "block", "loop", "end"}
      BY <1>5 DEF RunNop, RunEnd
    <2>2. Continue(k, stack, local, next_jt_idx)
      BY <1>1, <1>5 DEF RunNop, RunEnd
    <2>3. T = After(i, T) /\ i.op \notin NoFall
      BY <1>3, <2>1, NeedsIs DEF NoFall
    <2> QED BY <1>1, <2>2, <2>3 DEF TypedRun
  <1>6. CASE RunUnreachable(k)
    BY <1>6 DEF RunUnreachable, TypedRun
  <1>7. CASE RunReturn(k)
    BY <1>7 DEF RunReturn, TypedRun
  <1>8. CASE RunElse(k) \/ RunBr(k)
    <2>1. SlotCount(i) = 1 /\ i.op \in {"else", "br"}
      BY <1>8 DEF RunElse, RunBr, SlotCount, JumpOps
    <2>2. PICK move \in BOOLEAN : /\ Jump(next_jt_idx, Imm1(k), stack, move)
                                  /\ move <=> i.op \notin {"if", "else"}
      BY <1>8 DEF RunElse, RunBr
    <2>3. Jump(U16(next_jt_idx + 0), SlotAddr(k), stack, move)
      BY <1>1, <1>2, <2>1, <2>2
    <2>4. T = Carried(i, T)
      BY <2>1 DEF Carried
    <2>5. 0 \in Nat /\ 0 < SlotCount(i)
      BY <2>1
    <2> QED BY <1>1, <2>2, <2>3, <2>4, <2>5 DEF TypedRun
  <1>9. CASE RunIf(k) \/ RunBrIf(k)
    <2>1. SlotCount(i) = 1 /\ i.op \in {"if", "br_if"} /\ i.op \notin NoFall
      BY <1>9 DEF RunIf, RunBrIf, SlotCount, JumpOps, NoFall
    <2>2. \/ Continue(k, Pop(1), local, U16(next_jt_idx + 1))
          \/ \E move \in BOOLEAN : /\ Jump(next_jt_idx, Imm1(k), Pop(1), move)
                                   /\ move <=> i.op \notin {"if", "else"}
      BY <1>9 DEF RunIf, RunBrIf
    <2>3. CASE Continue(k, Pop(1), local, U16(next_jt_idx + 1))
      BY <1>1, <1>4, <2>1, <2>3 DEF TypedRun
    <2>4. CASE \E move \in BOOLEAN : /\ Jump(next_jt_idx, Imm1(k), Pop(1), move)
                                     /\ move <=> i.op \notin {"if", "else"}
      <3>1. PICK move \in BOOLEAN : /\ Jump(next_jt_idx, Imm1(k), Pop(1), move)
                                    /\ move <=> i.op \notin {"if", "else"}
        BY <2>4
      <3>2. Jump(U16(next_jt_idx + 0), SlotAddr(k), Pop(1), move)
        BY <1>1, <1>2, <2>1, <3>1
      <3>3. 0 \in Nat /\ 0 < SlotCount(i)
        BY <2>1
      <3> QED BY <1>4, <2>1, <3>1, <3>2, <3>3 DEF TypedRun
    <2> QED BY <2>2, <2>3, <2>4
  <1>10. CASE RunBrTable(k)
    <2>1. i.op = "br_table" /\ i \in Instrs
      BY <1>10, GoingFacts DEF RunBrTable
    <2>2. SlotCount(i) = Len(i.ls) /\ Len(i.ls) \in Nat
      BY <2>1, InstrsAssumption DEF SlotCount
    <2>3. PICK n \in 0..(Len(i.ls) - 1) :
            Jump(U16(next_jt_idx + n), NextAt(k), Pop(1), TRUE)
      BY <1>10 DEF RunBrTable
    <2>4. n \in Nat /\ n < SlotCount(i)
      BY <2>2, <2>3
    <2>5. Leaves(i, T) = << >> /\ Needs(i) = 1
      BY <2>1, NeedsIs DEF Leaves, DataOps
    <2>6. Pop(1) \in Seq(Values) /\ TypesOf(Pop(1)) = Front(T) /\ Len(Pop(1)) <= stack_size_max
      BY <2>5, AfterPop
    <2>7. TypesOf(Pop(1)) = Carried(i, T)
      BY <2>1, <2>6 DEF Carried
    <2>8. Jump(U16(next_jt_idx + n), SlotAddr(k), Pop(1), TRUE) /\ i.op \notin {"if", "else"}
      BY <1>2, <2>1, <2>3
    <2> HIDE DEF i, T
    <2> QED BY <2>4, <2>6, <2>7, <2>8 DEF TypedRun, i, T
  <1> QED BY <1>5, <1>6, <1>7, <1>8, <1>9, <1>10

\* call and call_indirect.
LEMMA CallTyped ==
  ASSUME NEW k, Going(k), k # Len(code), RunCall(k) \/ RunCallIndirect(k)
  PROVE  TypedRun(k)
  <1> DEFINE i == Ins(k)
             T == TypesOf(stack)
  <1>1. /\ stack \in Seq(Values) /\ local \in Seq(Values) /\ TypesOf(local) = LocalTypes
        /\ next_jt_idx \in Int /\ k \in Nat /\ i \in Instrs /\ InRange(i)
        /\ Len(stack) \in Nat /\ stack_size_max \in Nat
        /\ Takes(i, T, stack_size_max) /\ Len(T) = Len(stack)
    <2>1. next_jt_idx \in Nat
      BY RunFacts DEF Going
    <2>2. Takes(i, T, stack_size_max)
      BY GoingFacts DEF Flows, Ins
    <2> QED BY <2>1, <2>2, GoingFacts DEF Going, VInv, TInv, TypeOK
  <1>2. CASE RunCall(k)
    <2> DEFINE fn == Callees[i.fn + 1]
               n == Len(fn.type.params)
    <2>1. i.op = "call"
      BY <1>2 DEF RunCall
    <2>2. i.fn + 1 \in 1..Len(Callees) /\ Needs(i) = n /\ n \in Nat
      <3>1. T \in Seq(StackTypes)
        BY GoingFacts, TypeNames
      <3> QED BY <1>1, <2>1, <3>1, CallRoom
    <2>3. fn.type \in FuncTypes /\ fn.local_count \in Nat
      BY <2>2, CalleeType
    <2>4. fn.type.results \in Seq(ValTypes)
      BY <2>3 DEF FuncTypes
    <2>5. /\ Made(k, fn.type.results) \in Seq(Values)
          /\ TypesOf(Made(k, fn.type.results)) = Leaves(i, T)
      BY <1>1, <2>1, <2>4, MakingValues, TypesOfMade, NeedsIs
    <2>6. PICK w : w = Made(k, fn.type.results)
      OBVIOUS
    <2>7. /\ Pop(n) \o w \in Seq(Values) /\ TypesOf(Pop(n) \o w) = After(i, T)
          /\ n \in 0..Len(stack)
      BY <2>2, <2>5, <2>6, AfterTypes
    <2>8. \/ Stop("bad_room") /\ Len(Pop(n)) + fn.local_count > stack_size_max
          \/ Stop("trapped") \/ Continue(k, Pop(n) \o w, local, next_jt_idx)
      BY <1>2, <2>6 DEF RunCall
    <2>9. Len(Pop(n)) = Len(stack) - n
      <3>1. n \in Nat /\ n <= Len(stack)
        BY <1>1, <2>7
      <3> QED BY <1>1, <3>1, Popping
    <2>10. Len(T) - n + DeclaredLocals(fn) <= stack_size_max
      BY <1>1, <2>1, <2>2 DEF Takes
    <2>11. Len(Pop(n)) + fn.local_count > stack_size_max => fn.imported
      <3> DEFINE m == fn.local_count
      <3>1. ~fn.imported => Len(T) - n + m <= stack_size_max
        BY <2>10 DEF DeclaredLocals
      <3>2. m \in Nat
        BY <2>3
      <3> HIDE DEF fn, m, n, T
      <3>3. ~fn.imported => Len(Pop(n)) + m <= stack_size_max
        BY <1>1, <2>9, <3>1
      <3> QED BY <1>1, <2>2, <2>7, <2>9, <3>2, <3>3 DEF m
    <2>12. i.op \notin NoFall
      BY <2>1 DEF NoFall
    <2> HIDE DEF n
    <2> QED BY <1>1, <2>7, <2>8, <2>11, <2>12 DEF TypedRun
  <1>3. CASE RunCallIndirect(k)
    <2>1. i.op = "call_indirect"
      BY <1>3 DEF RunCallIndirect
    <2>2. i.type.results \in Seq(ValTypes)
      BY <1>1, <2>1, InstrsAssumption DEF FuncTypes
    <2>3. Reads(k) = Needs(i) /\ Needs(i) = DataEffect(i).pop
          /\ Leaves(i, T) = DataEffect(i).push
      BY <2>1, ReadsNeeds, NeedsIs DEF DataOps
    <2>4. DataEffect(i).push = i.type.results
      BY <2>1 DEF DataEffect, RefEffect, Effect
    <2>5. Reads(k) \in Nat
      BY <1>1, <2>3, DataEffectType DEF Effects
    <2>6. PICK w, n : w = Made(k, i.type.results) /\ n = Reads(k)
      OBVIOUS
    <2>7. w \in Seq(Values) /\ TypesOf(w) = Leaves(i, T)
      BY <1>1, <2>2, <2>3, <2>4, <2>6, MakingValues, TypesOfMade
    <2>8. Pop(n) \o w \in Seq(Values) /\ TypesOf(Pop(n) \o w) = After(i, T)
      BY <2>3, <2>5, <2>6, <2>7, AfterTypes
    <2>9. \/ Stop("bad_room") \/ Stop("trapped")
          \/ Continue(k, Pop(n) \o w, local, next_jt_idx)
      BY <1>3, <2>6 DEF RunCallIndirect
    <2>10. i.op \notin NoFall /\ i.op # "call"
      BY <2>1 DEF NoFall
    <2> QED BY <1>1, <2>8, <2>9, <2>10 DEF TypedRun
  <1> QED BY <1>2, <1>3

\* One value more on top of a stack.
LEMMA TypesOfOne ==
  ASSUME NEW v \in Values
  PROVE  <<v>> \in Seq(Values) /\ TypesOf(<<v>>) = <<v.t>> /\ v.t \in ValTypes
  <1>1. v.t \in ValTypes
    BY DEF Values
  <1>2. <<v>> \in Seq(Values) /\ <<v.t>> \in Seq(ValTypes)
    BY <1>1
  <1>3. PICK s, u : s = <<v>> /\ u = <<v.t>>
    OBVIOUS
  <1>4. /\ s \in Seq(Values) /\ Len(s) = 1 /\ s[1] = v
        /\ u \in Seq(ValTypes) /\ Len(u) = 1 /\ u[1] = v.t
    BY <1>2, <1>3
  <1>5. /\ TypesOf(s) \in Seq(ValTypes) /\ Len(TypesOf(s)) = 1
        /\ TypesOf(s)[1] = v.t
    <2>1. 1 \in 1..Len(s)
      BY <1>4
    <2> QED BY <1>4, <2>1, TypesOfType
  <1>6. TypesOf(s) = u
    BY <1>4, <1>5, SeqEqual
  <1> QED BY <1>1, <1>3, <1>4, <1>6

\* Pushing one value is putting a stack of one on top.
LEMMA AppendOne ==
  ASSUME NEW s \in Seq(Values), NEW v \in Values
  PROVE  Append(s, v) = s \o <<v>>
  BY AppendIsConcat

\* The locals, select and the other data instructions.
LEMMA DataTyped ==
  ASSUME NEW k, Going(k), k # Len(code), RunSelect(k) \/ RunLocal(k) \/ RunData(k)
  PROVE  TypedRun(k)
  <1> DEFINE i == Ins(k)
             T == TypesOf(stack)
             n == Len(stack)
  <1>1. /\ stack \in Seq(Values) /\ local \in Seq(Values) /\ TypesOf(local) = LocalTypes
        /\ next_jt_idx \in Int /\ k \in Nat /\ i \in Instrs /\ InRange(i)
        /\ n \in Nat /\ Takes(i, T, stack_size_max) /\ Len(T) = n
        /\ T \in Seq(ValTypes) /\ (i.op \in EntityOps => i.there)
        /\ Len(local) = Len(LocalTypes) /\ n >= Needs(i)
    <2>1. next_jt_idx \in Nat /\ Len(local) = Len(LocalTypes) /\ k \in 1..Len(code)
      BY RunFacts DEF Going
    <2>2. Takes(i, T, stack_size_max)
      BY GoingFacts DEF Flows, Ins
    <2>3. i.op \in EntityOps => i.there
      BY <2>1 DEF Going, FlowParts, There, Ins
    <2> QED BY <2>1, <2>2, <2>3, GoingFacts DEF Going, Takes
  <1>2. i.op \notin NoFall
    BY DEF RunSelect, RunLocal, RunData, NoFall, DataOps, LocalOps
  <1>3. ASSUME NEW s \in Seq(Values), NEW l \in Seq(Values),
               Continue(k, s, l, next_jt_idx), TypesOf(s) = After(i, T), TypesOf(l) = LocalTypes
        PROVE  TypedRun(k)
    BY <1>1, <1>2, <1>3 DEF TypedRun
  <1>4. CASE RunSelect(k)
    <2>1. PICK j \in {1, 2} : Continue(k, Append(Pop(3), Topmost(3)[j]), local, next_jt_idx)
      BY <1>4 DEF RunSelect
    <2>2. i.op \in {"select", "select_t"}
      BY <1>4 DEF RunSelect
    <2>3. Needs(i) = 3 /\ Leaves(i, T) = <<T[n - 1]>> /\ n >= 3 /\ T[n - 1] = T[n - 2]
      <3>1. Needs(i) = 3 /\ Leaves(i, T) = <<T[Len(T) - 1]>>
        BY <2>2, NeedsIs
      <3>2. T[Len(T) - 1] = T[Len(T) - 2]
        BY <1>1, <2>2 DEF Takes
      <3> QED BY <1>1, <3>1, <3>2
    <2>4. 3 \in 0..n /\ n - 1 \in 1..n /\ n - 2 \in 1..n
      BY <1>1, <2>3
    <2>5. Topmost(3)[j] = stack[n - 3 + j] /\ n - 3 + j \in {n - 1, n - 2}
      <3>1. \A m \in 1..3 : Topmost(3)[m] = stack[n - 3 + m]
        BY <1>1, <2>4, Upper DEF Topmost
      <3> QED BY <1>1, <2>1, <3>1
    <2>6. PICK v : v = Topmost(3)[j]
      OBVIOUS
    <2>7. v \in Values /\ v.t = T[n - 1]
      <3>1. \A m \in 1..n : stack[m] \in Values /\ T[m] = stack[m].t
        BY <1>1, TypesOfType
      <3> QED BY <2>3, <2>4, <2>5, <2>6, <3>1
    <2>8. <<v>> \in Seq(Values) /\ TypesOf(<<v>>) = Leaves(i, T)
      BY <2>3, <2>7, TypesOfOne
    <2>9. Pop(3) \o <<v>> \in Seq(Values) /\ TypesOf(Pop(3) \o <<v>>) = After(i, T)
      <3>1. PICK m : m = 3
        OBVIOUS
      <3>2. Pop(m) \o <<v>> \in Seq(Values) /\ TypesOf(Pop(m) \o <<v>>) = After(i, T)
        BY <2>3, <2>8, <3>1, AfterTypes
      <3> QED BY <3>1, <3>2
    <2>10. Append(Pop(3), v) = Pop(3) \o <<v>>
      <3>1. Pop(3) \in Seq(Values)
        BY <1>1, <2>3, Popping
      <3> QED BY <2>7, <3>1, AppendOne
    <2> QED BY <1>1, <1>3, <2>1, <2>6, <2>9, <2>10
  <1>5. CASE RunLocal(k)
    <2> DEFINE j == i.idx + 1
               l == [local EXCEPT ![j] = Topmost(1)[1]]
    <2>1. i.op \in LocalOps
      BY <1>5 DEF RunLocal
    <2>2. j \in 1..Len(local) /\ j \in 1..Len(LocalTypes)
      <3>1. i.idx \in Nat /\ i.idx < Len(LocalTypes)
        BY <1>1, <2>1, InstrsAssumption DEF InRange
      <3> QED BY <1>1, <3>1
    <2>3. local[j] \in Values /\ local[j].t = LocalTypes[j]
      BY <1>1, <2>2, TypesOfType
    <2>4. CASE i.op = "local_get"
      <3>1. Continue(k, Append(stack, local[j]), local, next_jt_idx)
        BY <1>5, <2>4 DEF RunLocal
      <3>2. PICK v : v = local[j]
        OBVIOUS
      <3>3. Needs(i) = 0 /\ Leaves(i, T) = <<LocalTypes[j]>>
        BY <2>4, NeedsIs
      <3>4. v \in Values /\ <<v>> \in Seq(Values) /\ TypesOf(<<v>>) = Leaves(i, T)
        BY <2>3, <3>2, <3>3, TypesOfOne
      <3>5. Pop(0) = stack
        BY <1>1, NoChange DEF Pop
      <3>6. stack \o <<v>> \in Seq(Values) /\ TypesOf(stack \o <<v>>) = After(i, T)
        <4>1. PICK m, w : m = 0 /\ w = <<v>>
          OBVIOUS
        <4>2. w \in Seq(Values) /\ TypesOf(w) = Leaves(i, T) /\ m = Needs(i) /\ m \in Nat
          BY <3>3, <3>4, <4>1
        <4>3. Pop(m) \o w \in Seq(Values) /\ TypesOf(Pop(m) \o w) = After(i, T)
          BY <4>2, AfterTypes
        <4> QED BY <3>5, <4>1, <4>3
      <3>7. Append(stack, v) = stack \o <<v>>
        BY <1>1, <3>4, AppendOne
      <3> QED BY <1>1, <1>3, <3>1, <3>2, <3>6, <3>7
    <2>5. CASE i.op \in {"local_set", "local_tee"}
      <3>1. Needs(i) = 1 /\ n >= 1 /\ n \in 1..n
        <4>1. Needs(i) = 1
          BY <2>5, NeedsIs
        <4> HIDE DEF n, i
        <4> QED BY <1>1, <4>1
      <3>2. PICK v : v = Topmost(1)[1]
        OBVIOUS
      <3>3. v = stack[n]
        <4>1. 1 \in 0..n
          BY <1>1, <3>1
        <4>2. \A m \in 1..1 : Topmost(1)[m] = stack[n - 1 + m]
          BY <1>1, <4>1, Upper DEF Topmost
        <4> QED BY <1>1, <3>2, <4>2
      <3>4. v \in Values /\ v.t = LocalTypes[j] /\ T[n] = LocalTypes[j]
        <4>1. stack[n] \in Values /\ T[n] = stack[n].t
          BY <1>1, <3>1, TypesOfType
        <4>2. T[Len(T)] = LocalTypes[j]
          BY <1>1, <2>5 DEF Takes
        <4> QED BY <1>1, <3>3, <4>1, <4>2
      <3>5. /\ [local EXCEPT ![j] = v] \in Seq(Values)
            /\ TypesOf([local EXCEPT ![j] = v]) = LocalTypes
        <4> DEFINE w == [local EXCEPT ![j] = v]
        <4> HIDE DEF j
        <4>1. /\ w \in Seq(Values) /\ Len(w) = Len(local)
              /\ \A m \in 1..Len(local) : w[m] = IF m = j THEN v ELSE local[m]
          BY <1>1, <2>2, <3>4
        <4>2. /\ TypesOf(w) \in Seq(ValTypes) /\ Len(TypesOf(w)) = Len(local)
              /\ \A m \in 1..Len(local) : TypesOf(w)[m] = w[m].t
          BY <4>1, TypesOfType
        <4>3. /\ LocalTypes \in Seq(ValTypes)
              /\ \A m \in 1..Len(local) : LocalTypes[m] = local[m].t
          BY <1>1, TypesOfType
        <4>4. \A m \in 1..Len(local) : TypesOf(w)[m] = LocalTypes[m]
          <5> SUFFICES ASSUME NEW m \in 1..Len(local)
                       PROVE  TypesOf(w)[m] = LocalTypes[m]
            OBVIOUS
          <5>1. TypesOf(w)[m] = w[m].t
            BY <4>2
          <5>2. CASE m = j
            <6>1. w[m] = v
              BY <4>1, <5>2
            <6> QED BY <3>4, <5>1, <5>2, <6>1
          <5>3. CASE m # j
            <6>1. w[m] = local[m]
              BY <4>1, <5>3
            <6> QED BY <4>3, <5>1, <6>1
          <5> QED BY <5>2, <5>3
        <4>5. TypesOf(w) = LocalTypes
          BY <1>1, <4>2, <4>3, <4>4, SeqEqual
        <4> QED BY <4>1, <4>5
      <3>6. l = [local EXCEPT ![j] = v]
        BY <3>2
      <3>7. CASE i.op = "local_set"
        <4>1. Continue(k, Pop(1), l, next_jt_idx)
          BY <1>5, <3>7 DEF RunLocal
        <4>2. Leaves(i, T) = << >>
          BY <3>7, NeedsIs
        <4>3. Pop(1) \in Seq(Values) /\ TypesOf(Pop(1)) = After(i, T)
          BY <3>1, <4>2, AfterPop
        <4> HIDE DEF l
        <4> QED BY <1>3, <3>5, <3>6, <4>1, <4>3
      <3>8. CASE i.op = "local_tee"
        <4>1. Continue(k, stack, l, next_jt_idx)
          BY <1>5, <3>8 DEF RunLocal
        <4>2. Leaves(i, T) = <<LocalTypes[j]>>
          BY <3>8, NeedsIs
        <4>3. PICK u : u = <<LocalTypes[j]>>
          OBVIOUS
        <4>4. u \in Seq(ValTypes) /\ Len(u) = 1 /\ u[1] = T[n]
          <5>1. v.t \in ValTypes
            BY <3>4 DEF Values
          <5>2. u = <<v.t>> /\ T[n] = v.t
            BY <3>4, <4>3
          <5> HIDE DEF T, n
          <5> QED BY <5>1, <5>2
        <4>5. SubSeq(T, 1, Len(T) - Len(u)) \o u = T
          <5>1. \A m \in 1..Len(u) : T[Len(T) - Len(u) + m] = u[m]
            BY <1>1, <4>4
          <5>2. Len(u) <= Len(T)
            BY <1>1, <3>1, <4>4
          <5> HIDE DEF T
          <5> QED BY <1>1, <4>4, <5>1, <5>2, Glue
        <4>6. T = After(i, T)
          BY <3>1, <4>2, <4>3, <4>4, <4>5 DEF After
        <4> HIDE DEF l
        <4> QED BY <1>1, <1>3, <3>5, <3>6, <4>1, <4>6
      <3> QED BY <2>5, <3>7, <3>8
    <2> QED BY <2>1, <2>4, <2>5 DEF LocalOps
  <1>6. CASE RunData(k)
    <2>1. i.op \in DataOps \ {"select", "select_t"}
      BY <1>6 DEF RunData
    <2>2. PICK e : e = DataEffect(i)
      OBVIOUS
    <2>3. e.pop \in Nat /\ e.push \in Seq(ValTypes)
      BY <1>1, <2>2, DataEffectType DEF Effects
    <2>4. Needs(i) = e.pop /\ Leaves(i, T) = e.push
      BY <2>1, <2>2, NeedsIs
    <2>5. PICK w, m : w = Made(k, e.push) /\ m = e.pop
      OBVIOUS
    <2>6. w \in Seq(Values) /\ TypesOf(w) = Leaves(i, T)
      BY <1>1, <2>3, <2>4, <2>5, MakingValues, TypesOfMade
    <2>7. Pop(m) \o w \in Seq(Values) /\ TypesOf(Pop(m) \o w) = After(i, T)
      BY <2>3, <2>4, <2>5, <2>6, AfterTypes
    <2>8. Stop("trapped") \/ Continue(k, Pop(m) \o w, local, next_jt_idx)
      BY <1>1, <1>6, <2>2, <2>5 DEF RunData
    <2>9. CASE Stop("trapped")
      BY <2>9 DEF TypedRun
    <2> QED BY <1>1, <1>3, <2>7, <2>8, <2>9
  <1> QED BY <1>4, <1>5, <1>6

\* Every handler before the last instruction.
LEMMA RunsTyped ==
  ASSUME NEW k, Going(k), k # Len(code), RunStep(k)
  PROVE  TypedRun(k)
  <1>1. ~ReadBelowBase(k)
    BY ReadsNeeds DEF ReadBelowBase
  <1> QED BY <1>1, ControlTyped, CallTyped, DataTyped DEF RunStep

----------------------------------------------------------------------------
(***************************************************************************)
(* Type soundness of the activation.  Its invariant speaks of functions    *)
(* that passed every check and whose jump table fits its u16 fields.       *)
(***************************************************************************)
Checked == skipped = {} /\ Shallow /\ Numbered

Sound ==
  Checked =>
    /\ status \notin {"bad_stack", "bad_mem"}
    /\ status = "running" => Arrives(pc, TypesOf(stack))
    /\ status = "returned" => TypesOf(stack) = f.type.results
    /\ status # "idle" => TypesOf(local) = LocalTypes
    /\ RoomForOwnCallees

\* validator_on_decode_end leaves no block open.
Ready == phase = "ready" => ctrl_stack = << >>

\* A running activation is where GoingFacts speaks of it.
LEMMA SoundGoing ==
  ASSUME VInv, Activated, FlowInv, Ready, Sound, Checked, NEW k \in 1..Len(code), At(k)
  PROVE  Going(k)
  <1>1. status = "running" /\ phase = "ready"
    BY RunFacts DEF At
  <1>2. FlowParts /\ ctrl_stack = << >>
    BY <1>1 DEF FlowInv, Checked, Ready
  <1>3. Arrives(pc, TypesOf(stack)) /\ TypesOf(local) = LocalTypes
    BY <1>1 DEF Sound
  <1> QED BY <1>2, <1>3 DEF Going

\* Wherever an activation arrives, its stack has room.
LEMMA ArrivesFits ==
  ASSUME Roomy, ctrl_stack = << >>, NEW a, NEW U, Arrives(a, U)
  PROVE  Len(U) <= stack_size_max
  <1>1. PICK k \in 1..Len(code) :
          IF k = Len(code) THEN U = f.type.results ELSE code[k].types = U
    BY DEF Arrives
  <1>2. code # << >>
    BY <1>1
  <1> QED BY <1>1, <1>2 DEF Roomy

\* The slot that the handler of instruction k jumps through is one of k's own.
LEMMA OwnSlot ==
  ASSUME VInv, Activated, CursorSafe, Closed, Numbered,
         NEW k \in 1..Len(code), At(k), NEW i \in Nat, i < SlotCount(Ins(k))
  PROVE  \E j \in Nat :
           /\ U16(next_jt_idx + i) = j /\ SlotOk(j, SlotAddr(k))
           /\ j + 1 \in (code[k].slot + 1)..EndSlot(k) /\ j + 1 \in 1..Len(jt)
  <1> DEFINE n == code[k].slot
             C == SlotCount(Ins(k))
             J == Len(jt)
             j == n + i
  <1>1. CursorAt(k)
    <2>1. PICK m \in 1..Len(code) : pc = code[m].at /\ CursorAt(m)
      BY DEF CursorSafe, At
    <2>2. m = k
      BY <2>1, OneAt DEF At
    <2> QED BY <2>1, <2>2
  <1>2. /\ n \in Nat /\ C \in Nat /\ J \in Nat /\ J <= U16_MAX /\ U16_MAX \in Nat
        /\ EndSlot(k) = n + C /\ n + C <= J
        /\ \A s \in (n + 1)..(n + C) : jt[s].pc = SlotAddr(k)
    <2>1. TInv /\ Ordered /\ SlotLayout /\ Ins(k) \in Instrs
      BY RunFacts DEF VInv, Layout
    <2>2. n \in Nat /\ C \in Nat /\ EndSlot(k) = n + C
      BY <2>1, CodeTypes, Sizes DEF EndSlot, Ins
    <2>3. EndSlot(k) <= J /\ J \in Nat
      BY <2>1 DEF Ordered, TInv, TypeOK
    <2>4. \A s \in (n + 1)..(n + C) : jt[s].pc = SlotAddr(k)
      BY <2>1, <2>2 DEF SlotLayout
    <2> QED BY <2>2, <2>3, <2>4, WidthAssumption DEF Numbered
  <1>3. next_jt_idx = n
    BY <1>1, <1>2 DEF CursorAt
  <1>4. /\ j \in Nat /\ j < J /\ j <= J /\ j + 1 \in (n + 1)..(n + C)
        /\ j + 1 \in 1..J
    BY <1>2, SMTT(30)
  <1>5. U16(j) = j
    BY <1>2, <1>4, U16Id, SMTT(30)
  <1>6. SlotOk(j, SlotAddr(k))
    BY <1>2, <1>4 DEF SlotOk
  <1> QED BY <1>2, <1>3, <1>4, <1>5, <1>6

\* Where the activation goes on behind its instruction.
LEMMA ContinueSound ==
  ASSUME NEW k, Going(k), k # Len(code), NEW s \in Seq(Values), NEW l, NEW i,
         Continue(k, s, l, i), TypesOf(s) = After(Ins(k), TypesOf(stack)),
         Ins(k).op \notin NoFall
  PROVE  /\ stack' = s /\ local' = l /\ pc' = NextAt(k) /\ status' = status
         /\ Arrives(NextAt(k), TypesOf(s))
  <1>1. Flows(k) /\ code[k].types = TypesOf(stack)
    BY GoingFacts
  <1>2. Arrives(NextAt(k), TypesOf(s))
    BY <1>1 DEF Flows, Ins
  <1>3. Len(TypesOf(s)) <= stack_size_max
    <2>1. PICK a, U : a = NextAt(k) /\ U = TypesOf(s)
      OBVIOUS
    <2>2. Roomy /\ ctrl_stack = << >> /\ Arrives(a, U)
      BY <1>2, <2>1 DEF Going, FlowParts
    <2>3. Len(U) <= stack_size_max
      BY <2>2, ArrivesFits
    <2> QED BY <2>1, <2>3
  <1>4. Len(TypesOf(s)) = Len(s) /\ Len(s) \in Nat /\ stack_size_max \in Nat
    BY TypesOfType DEF Going, VInv, TInv, TypeOK
  <1>5. ~(Len(s) > stack_size_max)
    BY <1>3, <1>4
  <1> QED BY <1>2, <1>5 DEF Continue

\* Where it jumps.
LEMMA JumpSound ==
  ASSUME NEW k, Going(k), k # Len(code), CursorSafe, Checked,
         NEW n \in Nat, n < SlotCount(Ins(k)), NEW s \in Seq(Values), NEW move \in BOOLEAN,
         Jump(U16(next_jt_idx + n), SlotAddr(k), s, move),
         TypesOf(s) = Carried(Ins(k), TypesOf(stack)),
         move <=> Ins(k).op \notin {"if", "else"}, Len(s) <= stack_size_max
  PROVE  \E U, a :
           /\ U \in Seq(Values) /\ stack' = U /\ local' = local /\ pc' = a /\ status' = status
           /\ Arrives(a, TypesOf(U))
  <1>1. /\ VInv /\ Activated /\ ctrl_stack = << >> /\ k \in 1..Len(code) /\ At(k)
        /\ Closed /\ Numbered /\ Shallow
    BY DEF Going, Checked, Closed
  <1>2. PICK j \in Nat :
          /\ U16(next_jt_idx + n) = j /\ SlotOk(j, SlotAddr(k))
          /\ j + 1 \in (code[k].slot + 1)..EndSlot(k) /\ j + 1 \in 1..Len(jt)
    BY <1>1, OwnSlot
  <1>3. PICK slot : slot = jt[j + 1]
    OBVIOUS
  <1>4. slot \in Slots
    BY <1>1, <1>2, <1>3 DEF VInv, TInv, TypeOK
  <1>5. Jump(j, SlotAddr(k), s, move)
    BY <1>2
  <1>6. SlotFlows(k, j + 1) /\ code[k].types = TypesOf(stack)
    BY <1>2, GoingFacts DEF Flows
  <1>7. ~Waiting(j + 1)
    BY <1>1 DEF Waiting
  <1>8. /\ Arrives(Target(slot), Landed(Ins(k), TypesOf(stack), slot))
        /\ Ins(k).op \in {"br", "br_if", "br_table"} =>
             slot.stack_offset + slot.arity <= Len(Carried(Ins(k), TypesOf(stack)))
    BY <1>3, <1>6, <1>7 DEF SlotFlows, Ins
  <1>9. Ins(k).op \in {"if", "else", "br", "br_if", "br_table"}
    BY DEF SlotCount, JumpOps
  <1>10. move => MoveOk(slot, s)
    <2>1. /\ slot.stack_offset \in Nat /\ slot.arity \in Nat
      BY <1>4 DEF Slots
    <2>2. Len(TypesOf(s)) = Len(s) /\ Len(s) \in Nat /\ stack_size_max \in Nat
      BY <1>1, TypesOfType DEF VInv, TInv, TypeOK
    <2>3. move => slot.stack_offset + slot.arity <= Len(s)
      BY <1>8, <1>9, <2>2
    <2>4. stack_size_max < 32767
      BY <1>1 DEF Shallow
    <2> QED BY <2>1, <2>2, <2>3, <2>4 DEF MoveOk
  <1>11. PICK U : U = IF move THEN Moved(slot, s) ELSE s
    OBVIOUS
  <1>12. /\ pc' = Target(slot) /\ stack' = U /\ local' = local /\ status' = status
    BY <1>2, <1>3, <1>5, <1>10, <1>11 DEF Jump
  <1>13. TypesOf(U) = Landed(Ins(k), TypesOf(stack), slot)
    <2>1. CASE move
      BY <1>4, <1>10, <1>11, <2>1, TypesOfMoved DEF Landed
    <2>2. CASE ~move
      BY <1>11, <2>2 DEF Landed
    <2> QED BY <2>1, <2>2
  <1>14. U \in Seq(Values)
    <2>1. \/ Stop("bad_slot") /\ ~SlotOk(j, SlotAddr(k))
          \/ Stop("bad_stack")
          \/ stack' \in Seq(Values)
      BY <1>1, <1>5, JumpType
    <2>2. status' = "running"
      BY <1>1, <1>12 DEF At
    <2> QED BY <1>12, <2>1, <2>2 DEF Stop
  <1>15. PICK a : a = Target(slot)
    OBVIOUS
  <1>16. pc' = a /\ Arrives(a, TypesOf(U))
    BY <1>8, <1>12, <1>13, <1>15
  <1> QED BY <1>12, <1>14, <1>16

\* The validator's state does not change during the activation.
LEMMA ArrivesSame ==
  ASSUME UNCHANGED vars, NEW a, NEW U, Arrives(a, U)
  PROVE  Arrives(a, U)'
  <1>1. /\ ctrl_stack' = ctrl_stack /\ offset' = offset /\ val_stack' = val_stack
        /\ code' = code /\ f' = f
    BY DEF vars
  <1> QED BY <1>1 DEF Arrives, InDeadCode

\* The interpreter changes nothing of the function it runs.
LEMMA CheckedStays ==
  ASSUME UNCHANGED vars
  PROVE  /\ Checked' <=> Checked
         /\ LocalTypes' = LocalTypes /\ f' = f /\ code' = code /\ skipped' = skipped
  BY DEF vars, Checked, Shallow, Numbered, LocalTypes

\* The end of the function: the stack holds the results and no more.
LEMMA EndSound ==
  ASSUME NEW k, Going(k), k = Len(code), RunStep(k)
  PROVE  Return /\ TypesOf(stack') = f.type.results
  <1>1. /\ stack \in Seq(Values) /\ Len(TypesOf(stack)) = Len(stack) /\ Len(stack) \in Nat
        /\ TypesOf(stack) = f.type.results /\ Ins(k).op = "end" /\ NextAt(k) = offset
    BY GoingFacts
  <1>2. Reads(k) = Len(f.type.results)
    BY <1>1, ReadsIs
  <1>3. Enough(k)
    BY <1>1, <1>2 DEF Enough
  <1>4. RunEnd(k)
    BY <1>1, <1>3 DEF RunStep, RunNop, RunUnreachable, RunIf, RunElse, RunReturn, RunBr,
       RunBrIf, RunBrTable, RunCall, RunCallIndirect, RunSelect, RunLocal, RunData,
       ReadBelowBase, LocalOps, DataOps
  <1>5. Return
    BY <1>1, <1>4 DEF RunEnd
  <1>6. stack' = stack
    <2>1. stack' = SubSeq(stack, Len(stack) - Len(stack) + 1, Len(stack))
      BY <1>1, <1>5 DEF Return, Topmost
    <2>2. Len(stack) - Len(stack) + 1 = 1
      BY <1>1
    <2> QED BY <1>1, <2>1, <2>2
  <1> QED BY <1>1, <1>5, <1>6

\* A return before the end: the results are on top.
LEMMA ReturnSound ==
  ASSUME NEW k, Going(k), k # Len(code), Ins(k).op = "return", Return
  PROVE  TypesOf(stack') = f.type.results
  <1>1. /\ stack \in Seq(Values) /\ Len(TypesOf(stack)) = Len(stack) /\ Len(stack) \in Nat
        /\ f.type.results \in Seq(ValTypes)
        /\ Takes(Ins(k), TypesOf(stack), stack_size_max)
    BY GoingFacts DEF Flows, Ins
  <1>2. PICK n : n = Len(f.type.results)
    OBVIOUS
  <1>3. Needs(Ins(k)) = n
    BY <1>2, NeedsIs
  <1>4. /\ n <= Len(stack) /\ n \in Nat
        /\ SubSeq(TypesOf(stack), Len(stack) - n + 1, Len(stack)) = f.type.results
    <2>1. n \in Nat
      BY <1>1, <1>2
    <2> QED BY <1>1, <1>3, <2>1 DEF Takes
  <1>5. n \in 0..Len(stack)
    BY <1>1, <1>4
  <1>6. TypesOf(SubSeq(stack, Len(stack) - n + 1, Len(stack))) = f.type.results
    BY <1>1, <1>4, <1>5, TypesOfPart
  <1> QED BY <1>2, <1>6 DEF Return, Topmost

\* Every step of the activation keeps its types.
LEMMA RunSound ==
  ASSUME RunInv, FlowInv, Ready, Sound, NEW k \in 1..Len(code), RunStep(k)
  PROVE  Sound'
  <1>1. VInv /\ Activated /\ CursorSafe
    BY DEF RunInv
  <1>2. At(k) /\ UNCHANGED vars
    BY <1>1, RunsShape
  <1>3. /\ Checked' <=> Checked
        /\ LocalTypes' = LocalTypes /\ f' = f /\ code' = code /\ skipped' = skipped
    BY <1>2, CheckedStays
  <1> SUFFICES ASSUME Checked
               PROVE  /\ status' \notin {"bad_stack", "bad_mem"}
                      /\ status' = "running" => Arrives(pc, TypesOf(stack))'
                      /\ status' = "returned" => TypesOf(stack)' = f.type.results
                      /\ TypesOf(local)' = LocalTypes
                      /\ RoomForOwnCallees'
    BY <1>3 DEF Sound
  <1>4. Going(k)
    BY <1>1, <1>2, SoundGoing
  <1>5. TypesOf(local) = LocalTypes /\ status = "running" /\ pc = code[k].at
    BY <1>2, <1>4 DEF Going, At
  <1>6. TypesOf(local)' = TypesOf(local') /\ TypesOf(stack)' = TypesOf(stack')
    BY DEF TypesOf
  <1>7. ASSUME NEW U \in Seq(Values), NEW l, NEW a, stack' = U, local' = l, pc' = a,
               status' = status, Arrives(a, TypesOf(U)), TypesOf(l) = LocalTypes
        PROVE  /\ status' \notin {"bad_stack", "bad_mem"}
               /\ status' = "running" => Arrives(pc, TypesOf(stack))'
               /\ status' = "returned" => TypesOf(stack)' = f.type.results
               /\ TypesOf(local)' = LocalTypes
               /\ RoomForOwnCallees'
    <2>1. status' = "running"
      BY <1>5, <1>7
    <2>2. TypesOf(local)' = LocalTypes
      BY <1>6, <1>7
    <2>3. PICK T : T = TypesOf(U)
      OBVIOUS
    <2>4. Arrives(a, T)'
      <3>1. Arrives(a, T)
        BY <1>7, <2>3
      <3> QED BY <1>2, <3>1, ArrivesSame
    <2>5. pc' = a /\ TypesOf(stack)' = T
      BY <1>6, <1>7, <2>3
    <2>6. Arrives(pc, TypesOf(stack))'
      BY <2>4, <2>5 DEF Arrives
    <2> QED BY <2>1, <2>2, <2>6 DEF RoomForOwnCallees
  <1>8. ASSUME Return, TypesOf(stack') = f.type.results
        PROVE  /\ status' \notin {"bad_stack", "bad_mem"}
               /\ status' = "running" => Arrives(pc, TypesOf(stack))'
               /\ status' = "returned" => TypesOf(stack)' = f.type.results
               /\ TypesOf(local)' = LocalTypes
               /\ RoomForOwnCallees'
    <2>1. status' = "returned" /\ local' = local
      BY <1>8 DEF Return
    <2> QED BY <1>5, <1>6, <1>8, <2>1 DEF RoomForOwnCallees
  <1>9. CASE k = Len(code)
    BY <1>4, <1>8, <1>9, EndSound
  <1>10. CASE k # Len(code)
    <2>1. TypedRun(k)
      BY <1>4, <1>10, RunsTyped
    <2>2. CASE Stop("trapped")
      <3>1. status' = "trapped" /\ local' = local
        BY <2>2 DEF Stop
      <3> QED BY <1>5, <1>6, <3>1 DEF RoomForOwnCallees
    <2>3. CASE Stop("bad_room") /\ (Ins(k).op = "call" => Callees[Ins(k).fn + 1].imported)
      <3>1. status' = "bad_room" /\ local' = local /\ pc' = pc
        BY <2>3 DEF Stop
      <3>2. ASSUME NEW j \in 1..Len(code'), pc' = code'[j].at, Ins(j)'.op = "call"
            PROVE  Callees[Ins(j)'.fn + 1].imported
        <4>1. j \in 1..Len(code) /\ code[j].at = code[k].at
          BY <1>3, <1>5, <3>1, <3>2
        <4>2. j = k
          BY <1>1, <4>1, OneAt
        <4>3. Ins(j)' = Ins(k)
          BY <1>3, <4>2 DEF Ins
        <4> QED BY <2>3, <3>2, <4>3
      <3>3. RoomForOwnCallees'
        BY <3>2 DEF RoomForOwnCallees
      <3> QED BY <1>5, <1>6, <3>1, <3>3
    <2>4. CASE /\ Ins(k).op \notin NoFall
               /\ \E s, l \in Seq(Values), n \in Int :
                    /\ Continue(k, s, l, n)
                    /\ TypesOf(s) = After(Ins(k), TypesOf(stack)) /\ TypesOf(l) = LocalTypes
      <3>1. PICK s \in Seq(Values), l \in Seq(Values), n \in Int :
              /\ Continue(k, s, l, n)
              /\ TypesOf(s) = After(Ins(k), TypesOf(stack)) /\ TypesOf(l) = LocalTypes
        BY <2>4
      <3>2. /\ stack' = s /\ local' = l /\ pc' = NextAt(k) /\ status' = status
            /\ Arrives(NextAt(k), TypesOf(s))
        BY <1>4, <1>10, <2>4, <3>1, ContinueSound
      <3>3. PICK a : a = NextAt(k)
        OBVIOUS
      <3>4. pc' = a /\ Arrives(a, TypesOf(s))
        BY <3>2, <3>3
      <3> QED BY <1>7, <3>1, <3>2, <3>4
    <2>5. CASE \E n \in Nat, s \in Seq(Values), move \in BOOLEAN :
                 /\ n < SlotCount(Ins(k))
                 /\ Jump(U16(next_jt_idx + n), SlotAddr(k), s, move)
                 /\ TypesOf(s) = Carried(Ins(k), TypesOf(stack))
                 /\ (move <=> Ins(k).op \notin {"if", "else"})
                 /\ Len(s) <= stack_size_max
      <3>1. PICK U, a :
              /\ U \in Seq(Values) /\ stack' = U /\ local' = local /\ pc' = a /\ status' = status
              /\ Arrives(a, TypesOf(U))
        BY <1>1, <1>4, <1>10, <2>5, JumpSound
      <3>2. PICK l : l = local
        OBVIOUS
      <3> QED BY <1>5, <1>7, <3>1, <3>2
    <2>6. CASE Ins(k).op = "return" /\ Return
      BY <1>4, <1>8, <1>10, <2>6, ReturnSound
    <2> QED BY <2>1, <2>2, <2>3, <2>4, <2>5, <2>6 DEF TypedRun
  <1> QED BY <1>9, <1>10

\* The entry: the first instruction is reached with an empty stack.
LEMMA StartSound ==
  ASSUME RunInv, FlowInv, Ready, Start
  PROVE  Sound'
  <1>1. /\ phase = "ready" /\ status' = "running" /\ pc' = 0 /\ stack' = << >>
        /\ UNCHANGED vars
        /\ local' = [i \in 1..Len(LocalTypes) |->
                       [t  |-> LocalTypes[i],
                        by |-> IF i <= Len(f.type.params) THEN ARG ELSE ZERO]]
    BY DEF Start
  <1>2. /\ Checked' <=> Checked
        /\ LocalTypes' = LocalTypes /\ f' = f /\ code' = code /\ skipped' = skipped
    BY <1>1, CheckedStays
  <1> SUFFICES ASSUME Checked
               PROVE  Arrives(pc, TypesOf(stack))' /\ TypesOf(local)' = LocalTypes
    BY <1>1, <1>2 DEF Sound, RoomForOwnCallees
  <1>3. Arrives(0, << >>)
    BY <1>1 DEF FlowInv, Checked, FlowParts, Entered
  <1>4. Arrives(pc, TypesOf(stack))'
    <2>1. PICK a, U : a = 0 /\ U = << >>
      OBVIOUS
    <2>2. Arrives(a, U)'
      BY <1>1, <1>3, <2>1, ArrivesSame
    <2>3. TypesOf(stack)' = U
      <3>1. TypesOf(stack)' = [i \in 1..Len(stack') |-> stack'[i].t]
        BY DEF TypesOf
      <3>2. Len(stack') = 0 /\ 1..0 = {}
        BY <1>1
      <3> QED BY <1>1, <2>1, <3>1, <3>2
    <2>4. pc' = a
      BY <1>1, <2>1
    <2> QED BY <2>2, <2>3, <2>4 DEF Arrives
  <1>5. TypesOf(local)' = LocalTypes
    <2>1. LocalTypes \in Seq(ValTypes)
      BY LocalTypesType DEF RunInv, VInv
    <2>2. PICK L, u : L = LocalTypes /\ u = local'
      OBVIOUS
    <2>3. L \in Seq(ValTypes) /\ L = [i \in 1..Len(L) |-> L[i]]
      BY <2>1, <2>2
    <2>4. PICK n : n = Len(L)
      OBVIOUS
    <2>5. u = [i \in 1..n |-> [t |-> L[i], by |-> IF i <= Len(f.type.params) THEN ARG ELSE ZERO]]
      BY <1>1, <2>2, <2>4
    <2>6. Len(u) = n /\ \A i \in 1..n : u[i].t = L[i]
      BY <2>3, <2>4, <2>5
    <2>7. TypesOf(u) = L
      BY <2>3, <2>4, <2>6 DEF TypesOf
    <2>8. TypesOf(local)' = TypesOf(u)
      BY <2>2 DEF TypesOf
    <2> QED BY <2>2, <2>7, <2>8
  <1> QED BY <1>4, <1>5

----------------------------------------------------------------------------
SoundInv == RunInv /\ FlowInv /\ Ready /\ Sound

\* Before anything is decoded there is nothing to be sound about.
LEMMA InitSound ==
  ASSUME RunInit
  PROVE  SoundInv
  <1>1. RunInv /\ Init /\ status = "idle"
    BY InitRun DEF RunInit
  <1>2. FlowInv
    BY <1>1, InitFlow
  <1>3. Ready
    BY <1>1 DEF Init, Ready
  <1>4. Sound
    BY <1>1 DEF Sound, RoomForOwnCallees
  <1> QED BY <1>1, <1>2, <1>3, <1>4 DEF SoundInv

\* The validator's steps keep what the interpreter relies on.
LEMMA NextReady ==
  ASSUME Ready, [Next]_vars
  PROVE  Ready'
  <1>1. CASE \E ins \in Instrs : Step(ins)
    <2>1. PICK ins \in Instrs : Step(ins)
      BY <1>1
    <2>2. phase = "decode" /\ phase' = phase
      BY <2>1 DEF Step, Decode, on_unreachable, on_nop, on_block, on_else, on_end,
         on_br_or_if, on_br_table, on_return, on_call, on_data
    <2> QED BY <2>2 DEF Ready
  <1>2. CASE on_decode_end
    BY <1>2 DEF on_decode_end, Ready
  <1>3. CASE Reject \/ Truncated \/ EmptyVecAccess
    BY <1>3 DEF Reject, Truncated, EmptyVecAccess, Quit, Ready
  <1>4. CASE UNCHANGED vars
    BY <1>4 DEF vars, Ready
  <1> QED BY <1>1, <1>2, <1>3, <1>4 DEF Next

\* Every handler finds its operands and leaves the types that the next
\* instruction was validated with.
LEMMA NextSound ==
  ASSUME SoundInv, [RunNext]_allvars
  PROVE  SoundInv'
  <1>1. RunInv /\ VInv /\ Activated /\ CursorSafe /\ FlowInv /\ Ready /\ Sound
    BY DEF SoundInv, RunInv
  <1>2. RunInv'
    BY <1>1, NextRun
  <1>3. [Next]_vars
    <2>1. CASE \E k \in 1..Len(code) : RunStep(k)
      BY <1>1, <2>1, RunsShape
    <2> QED BY <2>1 DEF RunNext, Validate, Start, Execute, BadFetch, Finished, allvars
  <1>4. FlowInv' /\ Ready'
    BY <1>1, <1>3, NextFlow, NextReady
  <1>5. Sound'
    <2>1. CASE Validate
      <3>1. status' = "idle"
        BY <1>1, <2>1, ValidateIdle DEF Validate, runvars
      <3> QED BY <3>1 DEF Sound, RoomForOwnCallees
    <2>2. CASE Start
      BY <1>1, <2>2, StartSound
    <2>3. CASE \E k \in 1..Len(code) : RunStep(k)
      BY <1>1, <2>3, RunSound
    <2>4. CASE BadFetch
      <3>1. /\ status = "running" /\ \A k \in 1..Len(code) : pc # code[k].at
            /\ UNCHANGED vars
        BY <2>4 DEF BadFetch
      <3>2. ~(Closed /\ Numbered)
        BY <1>1, <3>1 DEF CursorSafe
      <3>3. ~Checked'
        BY <3>1, <3>2, CheckedStays DEF Checked, Closed
      <3> QED BY <3>3 DEF Sound
    <2>5. CASE UNCHANGED allvars
      <3>1. UNCHANGED vars /\ UNCHANGED runvars
        BY <2>5 DEF allvars
      <3>2. /\ status' = status /\ pc' = pc /\ stack' = stack /\ local' = local
            /\ code' = code /\ f' = f /\ skipped' = skipped /\ (Checked' <=> Checked)
            /\ LocalTypes' = LocalTypes
        BY <3>1, CheckedStays DEF runvars
      <3>3. TypesOf(stack)' = TypesOf(stack) /\ TypesOf(local)' = TypesOf(local)
            /\ RoomForOwnCallees' = RoomForOwnCallees
        BY <3>2 DEF TypesOf, RoomForOwnCallees, Ins
      <3>4. Arrives(pc, TypesOf(stack)) => Arrives(pc, TypesOf(stack))'
        <4>1. PICK a, U : a = pc /\ U = TypesOf(stack)
          OBVIOUS
        <4>2. Arrives(a, U) => Arrives(a, U)'
          BY <3>1, ArrivesSame
        <4>3. a = pc' /\ U = TypesOf(stack)'
          BY <3>2, <3>3, <4>1
        <4> QED BY <4>1, <4>2, <4>3 DEF Arrives
      <3> QED BY <1>1, <3>2, <3>3, <3>4 DEF Sound
    <2> QED BY <2>1, <2>2, <2>3, <2>4, <2>5 DEF RunNext, Execute, Finished
  <1> QED BY <1>2, <1>4, <1>5 DEF SoundInv

\* The invariant holds in every reachable state.
LEMMA SoundInvariant == RunSpec => []SoundInv
  <1>1. RunInit => SoundInv
    BY InitSound
  <1>2. SoundInv /\ [RunNext]_allvars => SoundInv'
    BY NextSound
  <1> QED BY <1>1, <1>2, PTL DEF RunSpec

\* The invariant makes the activation type-sound.
LEMMA SoundTyped ==
  ASSUME SoundInv, Shallow, Numbered
  PROVE  StackTyped
  <1> SUFFICES ASSUME skipped = {}
               PROVE  /\ status \notin {"bad_stack", "bad_mem"}
                      /\ status = "running" =>
                           \E k \in 1..Len(code) :
                             /\ pc = code[k].at
                             /\ IF k = Len(code)
                                  THEN TypesOf(stack) = f.type.results
                                  ELSE ~code[k].dead /\ TypesOf(stack) = code[k].types
                      /\ status = "returned" => TypesOf(stack) = f.type.results
                      /\ status # "idle" => TypesOf(local) = LocalTypes
    BY DEF StackTyped
  <1>1. /\ status \notin {"bad_stack", "bad_mem"}
        /\ status = "running" => Arrives(pc, TypesOf(stack))
        /\ status = "returned" => TypesOf(stack) = f.type.results
        /\ status # "idle" => TypesOf(local) = LocalTypes
    BY DEF SoundInv, Sound, Checked
  <1>2. status = "running" => ctrl_stack = << >>
    BY DEF SoundInv, RunInv, Activated, Ready
  <1> QED BY <1>1, <1>2 DEF Arrives

\* The invariant gives the callees of the module their room.
LEMMA SoundRoom ==
  ASSUME SoundInv, Shallow, Numbered
  PROVE  RoomForOwnCallees
  BY DEF SoundInv, Sound, Checked, RoomForOwnCallees

(***************************************************************************)
(* Type soundness of the in-place interpreter: in every function for which *)
(* the validator made all its checks, and whose stack heights and jump     *)
(* table index fit the slots' u16 fields and the assertion on stack_offset *)
(* (in_place_dt.c), a running activation is in reachable code with exactly *)
(* the types on its stack that the validator saw there, never reads below  *)
(* the stack's base nor writes above stack_size_max, and returns values of *)
(* the function's result types.                                            *)
(***************************************************************************)
THEOREM TypeSound == RunSpec => [](Shallow /\ Numbered => StackTyped)
  BY SoundTyped, SoundInvariant, PTL

(***************************************************************************)
(* In those functions a direct call of a function of the same module finds *)
(* room for the callee's locals in the caller's stack: only a call of an   *)
(* imported function may lack it.                                          *)
(***************************************************************************)
THEOREM OwnCalleesFit == RunSpec => [](Shallow /\ Numbered => RoomForOwnCallees)
  BY SoundRoom, SoundInvariant, PTL
=============================================================================
