----------------------------- MODULE BytesProofs -----------------------------
(***************************************************************************)
(* Theorems about the byte stream and about the bounds checks, for every   *)
(* width of their numbers.                                                 *)
(***************************************************************************)
EXTENDS Stream, Access, WellFoundedInduction, TLAPS

----------------------------------------------------------------------------
(***************************************************************************)
(* The byte stream: no cursor leaves its slice and no byte is handed out   *)
(* twice, for buffers of any length, slices inside each other to any depth *)
(* and numbers of any width.                                               *)
(***************************************************************************)
Slices == [ptr : Nat, len : Nat, p : Nat]

\* SlicesNested with the types that its arithmetic needs.
Shape ==
  /\ buffer \in Seq(Byte)
  /\ streams \in Seq(Slices)
  /\ Len(streams) >= 1

NInv == Shape /\ SlicesNested

----------------------------------------------------------------------------
\* A set of naturals has a least element, and Min is it.
LEMMA LeastOf ==
  ASSUME NEW T, T \subseteq Nat, T # {}
  PROVE  Min(T) \in T /\ \A y \in T : Min(T) <= y
  <1>1. \E x \in T : \A y \in T : ~(<<y, x>> \in OpToRel(<, Nat))
    BY NatLessThanWellFounded, WFMin
  <1>2. PICK x \in T : \A y \in T : ~(<<y, x>> \in OpToRel(<, Nat))
    BY <1>1
  <1>3. ASSUME NEW y \in T PROVE x <= y
    <2>1. ~(y < x)
      BY <1>2 DEF OpToRel
    <2> QED BY <2>1
  <1>4. \E m \in T : \A y \in T : m <= y
    BY <1>3
  <1> QED BY <1>4 DEF Min

\* Where a slice ends, from the fields of its record.
LEMMA StreamFields ==
  ASSUME NEW a, NEW b, NEW c
  PROVE  /\ Stream(a, b, c).ptr = a
         /\ Stream(a, b, c).len = b
         /\ Stream(a, b, c).p = c
  BY DEF Stream

\* Three naturals make a stream.
LEMMA StreamIsSlice ==
  ASSUME NEW a \in Nat, NEW b \in Nat, NEW c \in Nat
  PROVE  Stream(a, b, c) \in Slices
  BY DEF Stream, Slices

\* What a reader took.
LEMMA GotFields ==
  ASSUME NEW v, NEW n
  PROVE  Got(v, n).ok /\ Got(v, n).n = n
  BY DEF Got

\* An error is not a success.
LEMMA ErrNotOk == ~Err.ok
  BY DEF Err

\* A number ends within what remains of its slice.
LEMMA LastByteInside ==
  ASSUME NEW st, NEW w, LastBytes(st, w) # {}
  PROVE  Min(LastBytes(st, w)) \in 1..stream_remaining(st)
  <1>1. LastBytes(st, w) \subseteq Nat
    BY DEF LastBytes
  <1>2. Min(LastBytes(st, w)) \in LastBytes(st, w)
    BY <1>1, LeastOf
  <1> QED BY <1>2 DEF LastBytes

\* A number that was read, signed or not, lies within the slice.
LEMMA UnsignedInside ==
  ASSUME NEW st, NEW w, ReadUnsigned(st, w).ok
  PROVE  ReadUnsigned(st, w).n \in 1..stream_remaining(st)
  <1>1. LastBytes(st, w) # {}
    BY ErrNotOk DEF ReadUnsigned
  <1>2. ReadUnsigned(st, w).n = Min(LastBytes(st, w))
    BY ErrNotOk, GotFields DEF ReadUnsigned
  <1> QED BY <1>1, <1>2, LastByteInside

\* The same with a sign.
LEMMA SignedInside ==
  ASSUME NEW st, NEW w, ReadSigned(st, w).ok
  PROVE  ReadSigned(st, w).n \in 1..stream_remaining(st)
  <1>1. LastBytes(st, w) # {}
    BY ErrNotOk DEF ReadSigned
  <1>2. ReadSigned(st, w).n = Min(LastBytes(st, w))
    BY ErrNotOk, GotFields DEF ReadSigned
  <1> QED BY <1>1, <1>2, LastByteInside

\* The last byte of a number was there.
LEMMA SevenInside ==
  ASSUME NEW st \in Slices, NEW s, ReadSeven(st, s).ok
  PROVE  ReadSeven(st, s).n \in 1..stream_remaining(st)
  <1>1. ~(stream_remaining(st) < 1)
    BY ErrNotOk DEF ReadSeven
  <1>2. ReadSeven(st, s).n = 1
    BY ErrNotOk, GotFields DEF ReadSeven
  <1>3. stream_remaining(st) \in Int
    BY DEF Slices, stream_remaining
  <1> QED BY <1>1, <1>2, <1>3

\* So were the bytes of a fixed length.
LEMMA BytesInside ==
  ASSUME NEW st \in Slices, NEW n \in {1, 2}, ReadBytes(st, n).ok
  PROVE  ReadBytes(st, n).n \in 1..stream_remaining(st)
  <1>1. ~(stream_remaining(st) < n)
    BY ErrNotOk DEF ReadBytes
  <1>2. ReadBytes(st, n).n = n
    BY ErrNotOk, GotFields DEF ReadBytes
  <1>3. stream_remaining(st) \in Int
    BY DEF Slices, stream_remaining
  <1> QED BY <1>1, <1>2, <1>3

----------------------------------------------------------------------------
\* A step of the innermost cursor that stays in its slice.
LEMMA MoveKeeps ==
  ASSUME NInv, NEW n \in Int, Moved(n), UNCHANGED buffer,
         Inner.p + n >= Inner.ptr, Inner.p + n <= Inner.ptr + Inner.len
  PROVE  NInv'
  <1> DEFINE top == Len(streams)
  <1>1. top \in Nat /\ top \in DOMAIN streams /\ Inner \in Slices
    BY DEF NInv, Shape, Inner
  <1>2. Inner.ptr \in Nat /\ Inner.len \in Nat /\ Inner.p \in Nat
    BY <1>1 DEF Slices
  <1>3. Forward(Inner, n) \in Slices
    BY <1>2, StreamIsSlice DEF Forward
  <1>4. streams' = [streams EXCEPT ![top] = Forward(Inner, n)]
    BY DEF Moved, Inner
  <1>5. Len(streams') = top /\ streams' \in Seq(Slices)
    BY <1>1, <1>3, <1>4 DEF NInv, Shape
  <1>6. \A i \in 1..top : streams'[i] = IF i = top THEN Forward(Inner, n) ELSE streams[i]
    BY <1>1, <1>4 DEF NInv, Shape
  <1>7. /\ Forward(Inner, n).ptr = Inner.ptr
        /\ Forward(Inner, n).len = Inner.len
        /\ Forward(Inner, n).p = Inner.p + n
    BY StreamFields DEF Forward
  <1>8. Shape'
    BY <1>5 DEF NInv, Shape
  <1>9. ASSUME NEW i \in 1..top
        PROVE  streams'[i].ptr = streams[i].ptr /\ streams'[i].len = streams[i].len
    BY <1>6, <1>7 DEF Inner
  <1>10. ASSUME NEW i \in 1..top
         PROVE  /\ stream_is_valid(streams'[i])
                /\ streams'[i].ptr + streams'[i].len <= Len(buffer')
    <2>1. stream_is_valid(streams[i]) /\ streams[i].ptr + streams[i].len <= Len(buffer)
      BY DEF NInv, Shape, SlicesNested
    <2>2. CASE i = top
      BY <2>1, <2>2, <1>6, <1>7, <1>9 DEF stream_is_valid, Inner
    <2>3. CASE i # top
      BY <2>1, <2>3, <1>6
    <2> QED BY <2>2, <2>3
  <1>11. ASSUME NEW i \in 1..(top - 1)
         PROVE  /\ streams'[i].ptr <= streams'[i + 1].ptr
                /\ streams'[i + 1].ptr + streams'[i + 1].len <= streams'[i].p
    <2>1. i \in 1..top /\ i + 1 \in 1..top /\ i # top
      BY <1>1
    <2>2. /\ streams[i].ptr <= streams[i + 1].ptr
          /\ streams[i + 1].ptr + streams[i + 1].len <= streams[i].p
      BY DEF NInv, SlicesNested
    <2>3. streams'[i] = streams[i]
      BY <2>1, <1>6
    <2> QED BY <2>1, <2>2, <2>3, <1>9
  <1>12. DOMAIN streams' = 1..top /\ Len(streams') = top
    BY <1>1, <1>5
  <1>13. SlicesNested'
    BY <1>10, <1>11, <1>12 DEF SlicesNested
  <1> QED BY <1>8, <1>13 DEF NInv

\* Reading what lies within the slice keeps the chain in order.
LEMMA TakeKeeps ==
  ASSUME NInv, NEW got, Take(got), got.n \in 1..stream_remaining(Inner)
  PROVE  NInv'
  <1>1. Inner \in Slices /\ stream_is_valid(Inner)
    <2>1. Len(streams) \in DOMAIN streams
      BY DEF NInv, Shape
    <2> QED BY <2>1 DEF NInv, Shape, SlicesNested, Inner
  <1>2. /\ Inner.p + got.n >= Inner.ptr
        /\ Inner.p + got.n <= Inner.ptr + Inner.len
        /\ got.n \in Int
    BY <1>1 DEF Slices, stream_is_valid, stream_remaining
  <1> QED BY <1>2, MoveKeeps DEF Take

\* The innermost slice is given up.
LEMMA DoneKeeps == ASSUME NInv, Done PROVE NInv'
  <1> DEFINE top == Len(streams) - 1
  <1>1. top \in Nat /\ top >= 1 /\ streams' = SubSeq(streams, 1, top) /\ buffer' = buffer
    BY DEF NInv, Shape, Done
  <1>2. Len(streams') = top /\ streams' \in Seq(Slices)
    BY <1>1 DEF NInv, Shape
  <1>3. \A i \in 1..top : streams'[i] = streams[i]
    BY <1>1 DEF NInv, Shape
  <1>4. Shape'
    BY <1>1, <1>2 DEF NInv, Shape
  <1>5. SlicesNested'
    <2>1. ASSUME NEW i \in 1..top
          PROVE  /\ stream_is_valid(streams'[i])
                 /\ streams'[i].ptr + streams'[i].len <= Len(buffer')
      BY <1>1, <1>3 DEF NInv, Shape, SlicesNested
    <2>2. ASSUME NEW i \in 1..(top - 1)
          PROVE  /\ streams'[i].ptr <= streams'[i + 1].ptr
                 /\ streams'[i + 1].ptr + streams'[i + 1].len <= streams'[i].p
      BY <1>1, <1>3 DEF NInv, Shape, SlicesNested
    <2> QED BY <1>2, <1>4, <2>1, <2>2 DEF SlicesNested, Shape
  <1> QED BY <1>4, <1>5 DEF NInv

\* A slice is taken: the cursor of the stream is behind it.
LEMMA SliceKeeps == ASSUME NInv, stream_slice PROVE NInv'
  <1> DEFINE top == Len(streams)
  <1>1. PICK size \in 1..stream_remaining(Inner) :
          streams' = Append([streams EXCEPT ![top] = AfterSlice(@, size)],
                            Stream(Inner.p, size, Inner.p))
    BY DEF stream_slice
  <1>2. buffer' = buffer
    BY DEF stream_slice
  <1>3. top \in Nat /\ top \in DOMAIN streams /\ Inner \in Slices /\ stream_is_valid(Inner)
        /\ Inner.ptr + Inner.len <= Len(buffer)
    <2>1. top \in Nat /\ top \in DOMAIN streams
      BY DEF NInv, Shape
    <2> QED BY <2>1 DEF NInv, Shape, SlicesNested, Inner
  <1>4. /\ Inner.ptr \in Nat /\ Inner.len \in Nat /\ Inner.p \in Nat /\ size \in Nat
        /\ size >= 1 /\ Inner.ptr <= Inner.p /\ Inner.p + size <= Inner.ptr + Inner.len
    BY <1>3 DEF Slices, stream_is_valid, stream_remaining
  <1> DEFINE old == Stream(Inner.ptr, Inner.len, Inner.p + size)
             new == Stream(Inner.p, size, Inner.p)
             moved == [streams EXCEPT ![top] = old]
  <1>5. old \in Slices /\ new \in Slices
    BY <1>4, StreamIsSlice
  <1>6. /\ old.ptr = Inner.ptr /\ old.len = Inner.len /\ old.p = Inner.p + size
        /\ new.ptr = Inner.p /\ new.len = size /\ new.p = Inner.p
    BY StreamFields
  <1>7. streams' = Append(moved, new)
    BY <1>1 DEF AfterSlice, Forward, Inner
  <1> HIDE DEF old, new
  <1>8. moved \in Seq(Slices) /\ Len(moved) = top
    BY <1>3, <1>5 DEF NInv, Shape
  <1>9. \A i \in 1..top : moved[i] = IF i = top THEN old ELSE streams[i]
    BY <1>3 DEF NInv, Shape
  <1> HIDE DEF moved
  <1>10. streams' \in Seq(Slices) /\ Len(streams') = top + 1
    BY <1>5, <1>7, <1>8
  <1>11. streams'[top + 1] = new /\ \A i \in 1..top : streams'[i] = moved[i]
    BY <1>3, <1>5, <1>7, <1>8
  <1>12. streams'[top] = old /\ \A i \in 1..(top - 1) : streams'[i] = streams[i]
    BY <1>3, <1>9, <1>11
  <1>13. Shape'
    BY <1>2, <1>3, <1>10 DEF NInv, Shape
  <1>14. ASSUME NEW i \in 1..(top + 1)
         PROVE  /\ stream_is_valid(streams'[i])
                /\ streams'[i].ptr + streams'[i].len <= Len(buffer')
    <2>1. CASE i = top + 1
      BY <2>1, <1>2, <1>3, <1>4, <1>6, <1>11 DEF stream_is_valid, NInv, Shape
    <2>2. CASE i = top
      BY <2>2, <1>2, <1>3, <1>4, <1>6, <1>12 DEF stream_is_valid
    <2>3. CASE i \in 1..(top - 1)
      <3>1. stream_is_valid(streams[i]) /\ streams[i].ptr + streams[i].len <= Len(buffer)
        BY <2>3, <1>3 DEF NInv, Shape, SlicesNested
      <3> QED BY <2>3, <3>1, <1>2, <1>12
    <2> QED BY <1>3, <2>1, <2>2, <2>3
  <1>15. ASSUME NEW i \in 1..top
         PROVE  /\ streams'[i].ptr <= streams'[i + 1].ptr
                /\ streams'[i + 1].ptr + streams'[i + 1].len <= streams'[i].p
    <2>1. CASE i = top
      BY <2>1, <1>4, <1>6, <1>11, <1>12
    <2>2. CASE i \in 1..(top - 1)
      <3>1. /\ streams[i].ptr <= streams[i + 1].ptr
            /\ streams[i + 1].ptr + streams[i + 1].len <= streams[i].p
        BY <2>2 DEF NInv, SlicesNested
      <3>2. /\ streams'[i] = streams[i]
            /\ streams'[i + 1].ptr = streams[i + 1].ptr
            /\ streams'[i + 1].len = streams[i + 1].len
        <4>1. CASE i + 1 = top
          BY <4>1, <2>2, <1>6, <1>12 DEF Inner
        <4>2. CASE i + 1 # top
          <5>1. i + 1 \in 1..(top - 1)
            BY <4>2, <2>2, <1>3
          <5> QED BY <5>1, <2>2, <1>12
        <4> QED BY <4>1, <4>2
      <3> QED BY <3>1, <3>2
    <2> QED BY <1>3, <2>1, <2>2
  <1>16. SlicesNested'
    <2>1. DOMAIN streams' = 1..(top + 1) /\ Len(streams') - 1 = top
      BY <1>3, <1>10
    <2> QED BY <2>1, <1>14, <1>15 DEF SlicesNested
  <1> QED BY <1>13, <1>16 DEF NInv

----------------------------------------------------------------------------
\* Every operation on the innermost stream keeps the chain in order.
LEMMA NestedStep == NInv /\ [StreamNext]_svars => NInv'
  <1> SUFFICES ASSUME NInv, [StreamNext]_svars PROVE NInv'
    OBVIOUS
  <1>0. Inner \in Slices
    <2>1. Len(streams) \in DOMAIN streams
      BY DEF NInv, Shape
    <2> QED BY <2>1 DEF NInv, Shape, Inner
  <1>1. CASE ReadNumber
    <2>1. PICK w \in WIDTHS : Take(ReadUnsigned(Inner, w)) \/ Take(ReadSigned(Inner, w))
      BY <1>1 DEF ReadNumber
    <2>2. CASE Take(ReadUnsigned(Inner, w))
      BY <2>2, UnsignedInside, TakeKeeps DEF Take
    <2>3. CASE Take(ReadSigned(Inner, w))
      BY <2>3, SignedInside, TakeKeeps DEF Take
    <2> QED BY <2>1, <2>2, <2>3
  <1>2. CASE ReadByte
    <2>1. ASSUME NEW s, Take(ReadSeven(Inner, s)) PROVE NInv'
      BY <1>0, <2>1, SevenInside, TakeKeeps DEF Take
    <2>2. ASSUME NEW n \in {1, 2}, Take(ReadBytes(Inner, n)) PROVE NInv'
      BY <1>0, <2>2, BytesInside, TakeKeeps DEF Take
    <2> QED BY <1>2, <2>1, <2>2 DEF ReadByte
  <1>3. CASE stream_seek
    <2>1. PICK len \in (-1)..BufferLen : CanSeek(Inner, len) /\ Moved(len)
      BY <1>3 DEF stream_seek
    <2>2. len \in Int /\ UNCHANGED buffer
      BY <1>3 DEF stream_seek
    <2> QED BY <2>1, <2>2, MoveKeeps DEF CanSeek
  <1>4. CASE stream_slice
    BY <1>4, SliceKeeps
  <1>5. CASE Done
    BY <1>5, DoneKeeps
  <1>6. CASE UNCHANGED svars
    BY <1>6 DEF svars, NInv, Shape, SlicesNested
  <1> QED BY <1>1, <1>2, <1>3, <1>4, <1>5, <1>6 DEF StreamNext

\* A stream of the whole buffer is a chain by itself.
LEMMA NestedInit == StreamInit => NInv
  <1> SUFFICES ASSUME StreamInit PROVE NInv
    OBVIOUS
  <1>1. buffer \in Seq(Byte)
    BY DEF StreamInit
  <1>2. Len(buffer) \in Nat /\ streams = <<Stream(0, Len(buffer), 0)>>
    BY <1>1 DEF StreamInit
  <1>3. Stream(0, Len(buffer), 0) \in Slices
    BY <1>2, StreamIsSlice
  <1>4. Shape
    BY <1>1, <1>2, <1>3 DEF Shape
  <1>5. SlicesNested
    BY <1>2, StreamFields DEF SlicesNested, stream_is_valid
  <1> QED BY <1>4, <1>5 DEF NInv

\* For buffers of any length and content, any depth of slices and any widths of
\* numbers: whatever is read, skipped, cut off and given up, in any order, each
\* cursor stays in its slice and each slice lies behind the cursor of the one it
\* was cut from, as every reader of stream.h asserts and the parser relies on.
THEOREM Nested == StreamSpec => []SlicesNested
  <1>1. NInv => SlicesNested
    BY DEF NInv
  <1> QED BY <1>1, NestedInit, NestedStep, PTL DEF StreamSpec

----------------------------------------------------------------------------
(***************************************************************************)
(* Arithmetic: induction over the numbers, powers, sums and remainders.    *)
(***************************************************************************)
\* A set with 0 that has with each number the next has all numbers.
LEMMA Induction ==
  ASSUME NEW S, 0 \in S, \A i \in Nat : i \in S => i + 1 \in S
  PROVE  Nat \subseteq S
  <1> SUFFICES ASSUME NEW n \in Nat, n \notin S PROVE FALSE
    OBVIOUS
  <1> DEFINE Missing == {k \in Nat : k \notin S}
  <1>1. PICK x : x \in Missing /\ \A y \in Missing : x <= y
    <2>1. Missing \subseteq Nat /\ Missing # {}
      OBVIOUS
    <2> HIDE DEF Missing
    <2> QED BY <2>1, LeastOf
  <1>2. x \in Nat /\ x \notin S /\ x # 0
    BY <1>1
  <1>3. x - 1 \in Nat /\ (x - 1) + 1 = x /\ ~(x <= x - 1)
    BY <1>2
  <1>4. x - 1 \in S
    BY <1>1, <1>3
  <1> QED BY <1>2, <1>3, <1>4

\* The powers up to n.
IsPowers(p, n) == p = [i \in 0..n |-> IF i = 0 THEN 1 ELSE 2 * p[i - 1]]

\* They exist.
LEMMA PowersExist ==
  ASSUME NEW n \in Nat
  PROVE  \E p : IsPowers(p, n)
  <1> DEFINE S == {k \in Nat : \E p : IsPowers(p, k)}
  <1>1. 0 \in S
    <2> DEFINE p == [i \in 0..0 |-> 1]
    <2>1. IsPowers(p, 0)
      BY DEF IsPowers
    <2> QED BY <2>1
  <1>2. ASSUME NEW k \in Nat, k \in S PROVE k + 1 \in S
    <2>1. PICK p : IsPowers(p, k)
      BY <1>2
    <2> DEFINE q == [i \in 0..(k + 1) |-> IF i = k + 1 THEN 2 * p[k] ELSE p[i]]
    <2>2. ASSUME NEW i \in 0..(k + 1)
          PROVE  q[i] = IF i = 0 THEN 1 ELSE 2 * q[i - 1]
      BY <2>1 DEF IsPowers
    <2>3. q = [i \in 0..(k + 1) |-> q[i]]
      OBVIOUS
    <2> HIDE DEF q
    <2>4. IsPowers(q, k + 1)
      BY <2>2, <2>3 DEF IsPowers
    <2> QED BY <2>4
  <1> HIDE DEF S
  <1>3. Nat \subseteq S
    BY <1>1, <1>2, Induction
  <1> QED BY <1>3 DEF S

\* All of them are powers.
LEMMA PowersOf ==
  ASSUME NEW n \in Nat, NEW p, IsPowers(p, n), NEW m \in Nat, m <= n
  PROVE  p[m] = Pow2(m)
  <1> DEFINE r == CHOOSE q : IsPowers(q, m)
             S == {k \in Nat : k <= m => p[k] = r[k]}
  <1>1. Pow2(m) = r[m]
    BY DEF Pow2, IsPowers
  <1>2. IsPowers(r, m)
    BY PowersExist, Zenon
  <1> HIDE DEF r
  <1>3. 0 \in S
    BY <1>2 DEF IsPowers
  <1>4. ASSUME NEW k \in Nat, k \in S PROVE k + 1 \in S
    <2> SUFFICES ASSUME k + 1 <= m PROVE p[k + 1] = r[k + 1]
      OBVIOUS
    <2>1. p[k] = r[k]
      BY <1>4
    <2>2. p[k + 1] = 2 * p[(k + 1) - 1]
      BY DEF IsPowers
    <2>3. r[k + 1] = 2 * r[(k + 1) - 1]
      BY <1>2 DEF IsPowers
    <2>4. (k + 1) - 1 = k
      OBVIOUS
    <2> QED BY <2>1, <2>2, <2>3, <2>4
  <1> HIDE DEF S
  <1>5. m \in S
    BY <1>3, <1>4, Induction
  <1> QED BY <1>1, <1>5 DEF S

\* A power is twice the one before.
LEMMA PowNext ==
  ASSUME NEW n \in Nat
  PROVE  Pow2(0) = 1 /\ Pow2(n + 1) = 2 * Pow2(n)
  <1>1. PICK p : IsPowers(p, n + 1)
    BY PowersExist
  <1>2. p[0] = 1 /\ p[n + 1] = 2 * p[(n + 1) - 1] /\ (n + 1) - 1 = n
    BY <1>1 DEF IsPowers
  <1>3. p[0] = Pow2(0) /\ p[n + 1] = Pow2(n + 1) /\ p[n] = Pow2(n)
    BY <1>1, PowersOf
  <1> QED BY <1>2, <1>3

\* Powers are positive numbers.
LEMMA PowNat ==
  ASSUME NEW n \in Nat
  PROVE  Pow2(n) \in Nat /\ Pow2(n) >= 1
  <1> DEFINE S == {k \in Nat : Pow2(k) \in Nat /\ Pow2(k) >= 1}
  <1>1. 0 \in S
    BY PowNext
  <1>2. ASSUME NEW k \in Nat, k \in S PROVE k + 1 \in S
    BY <1>2, PowNext
  <1> HIDE DEF S
  <1>3. n \in S
    BY <1>1, <1>2, Induction
  <1> QED BY <1>3 DEF S

\* The power of a sum is a product.
LEMMA PowSum ==
  ASSUME NEW a \in Nat, NEW n \in Nat
  PROVE  Pow2(a + n) = Pow2(a) * Pow2(n)
  <1> DEFINE S == {k \in Nat : Pow2(a + k) = Pow2(a) * Pow2(k)}
  <1>1. 0 \in S
    BY PowNext, PowNat
  <1>2. ASSUME NEW k \in Nat, k \in S PROVE k + 1 \in S
    <2>1. PICK x, y : x = Pow2(a) /\ y = Pow2(k)
      OBVIOUS
    <2>2. x \in Int /\ y \in Int
      BY <2>1, PowNat
    <2>3. a + k \in Nat /\ a + (k + 1) = (a + k) + 1
      OBVIOUS
    <2>4. Pow2(a + (k + 1)) = 2 * (x * y)
      BY <1>2, <2>1, <2>3, PowNext
    <2>5. Pow2(k + 1) = 2 * y
      BY <2>1, PowNext
    <2>6. 2 * (x * y) = x * (2 * y)
      BY <2>2
    <2> QED BY <2>1, <2>4, <2>5, <2>6
  <1> HIDE DEF S
  <1>3. n \in S
    BY <1>1, <1>2, Induction
  <1> QED BY <1>3 DEF S

\* Powers grow.
LEMMA PowGrows ==
  ASSUME NEW a \in Nat, NEW n \in Nat, a <= n
  PROVE  Pow2(a) <= Pow2(n)
  <1>1. n - a \in Nat /\ a + (n - a) = n
    OBVIOUS
  <1>2. PICK x, y : x = Pow2(a) /\ y = Pow2(n - a)
    OBVIOUS
  <1>3. x \in Nat /\ y \in Nat /\ y >= 1
    BY <1>1, <1>2, PowNat
  <1>4. Pow2(n) = x * y
    BY <1>1, <1>2, PowSum
  <1>5. x <= x * y
    BY <1>3
  <1> QED BY <1>2, <1>4, <1>5

\* The sums of the first elements of f.
IsSums(s, f, n) == s = [i \in 0..n |-> IF i = 0 THEN 0 ELSE s[i - 1] + f[i - 1]]

\* They exist.
LEMMA SumsExist ==
  ASSUME NEW f, NEW n \in Nat
  PROVE  \E s : IsSums(s, f, n)
  <1> DEFINE S == {k \in Nat : \E s : IsSums(s, f, k)}
  <1>1. 0 \in S
    <2> DEFINE s == [i \in 0..0 |-> 0]
    <2>1. IsSums(s, f, 0)
      BY DEF IsSums
    <2> QED BY <2>1
  <1>2. ASSUME NEW k \in Nat, k \in S PROVE k + 1 \in S
    <2>1. PICK s : IsSums(s, f, k)
      BY <1>2
    <2> DEFINE q == [i \in 0..(k + 1) |-> IF i = k + 1 THEN s[k] + f[k] ELSE s[i]]
    <2>2. ASSUME NEW i \in 0..(k + 1)
          PROVE  q[i] = IF i = 0 THEN 0 ELSE q[i - 1] + f[i - 1]
      BY <2>1 DEF IsSums
    <2>3. q = [i \in 0..(k + 1) |-> q[i]]
      OBVIOUS
    <2> HIDE DEF q
    <2>4. IsSums(q, f, k + 1)
      BY <2>2, <2>3 DEF IsSums
    <2> QED BY <2>4
  <1> HIDE DEF S
  <1>3. Nat \subseteq S
    BY <1>1, <1>2, Induction
  <1> QED BY <1>3 DEF S

\* SumOf adds one element after the other.
LEMMA SumSteps ==
  ASSUME NEW f, NEW n \in Nat
  PROVE  \E s : /\ s[0] = 0
                /\ \A i \in Nat : i < n => s[i + 1] = s[i] + f[i]
                /\ SumOf(f, n) = s[n]
  <1> DEFINE s == CHOOSE q : IsSums(q, f, n)
  <1>1. SumOf(f, n) = s[n]
    BY DEF SumOf, IsSums
  <1>2. IsSums(s, f, n)
    BY SumsExist, Zenon
  <1> HIDE DEF s
  <1>3. s[0] = 0
    BY <1>2 DEF IsSums
  <1>4. ASSUME NEW i \in Nat, i < n PROVE s[i + 1] = s[i] + f[i]
    <2>1. i + 1 \in 0..n /\ i + 1 # 0 /\ (i + 1) - 1 = i
      BY <1>4
    <2> QED BY <1>2, <2>1 DEF IsSums
  <1> QED BY <1>1, <1>3, <1>4

\* A product is distributed over a sum and a difference.
LEMMA Distributes ==
  ASSUME NEW a \in Int, NEW b \in Int, NEW m \in Int
  PROVE  (a + b) * m = a * m + b * m /\ (a - b) * m = a * m - b * m
  OBVIOUS

\* A number is its quotient times the divisor and its remainder.
LEMMA DivMod ==
  ASSUME NEW a \in Int, NEW m \in Nat, m >= 1
  PROVE  /\ a % m \in Nat /\ a % m < m /\ a \div m \in Int
         /\ a = (a \div m) * m + (a % m)
  OBVIOUS

\* Nothing else is.
LEMMA DivUnique ==
  ASSUME NEW a \in Int, NEW m \in Nat, m >= 1, NEW q \in Int, NEW r \in Nat, r < m,
         a = q * m + r
  PROVE  a % m = r /\ a \div m = q
  <1>1. PICK d, e : d = a \div m /\ e = a % m
    OBVIOUS
  <1>2. d \in Int /\ e \in Nat /\ e < m /\ a = d * m + e
    BY <1>1, DivMod
  <1>3. q * m \in Int /\ d * m \in Int /\ (q - d) * m = q * m - d * m
    BY <1>2, Distributes
  <1>4. (q - d) * m = e - r
    BY <1>2, <1>3
  <1>5. q - d = 0
    BY <1>2, <1>4
  <1> QED BY <1>1, <1>2, <1>3, <1>5

\* Multiples of the divisor do not change a remainder.
LEMMA ModShift ==
  ASSUME NEW a \in Int, NEW m \in Nat, m >= 1, NEW q \in Int
  PROVE  (a + q * m) % m = a % m
  <1>1. PICK d, e : d = a \div m /\ e = a % m
    OBVIOUS
  <1>2. d \in Int /\ e \in Nat /\ e < m /\ a = d * m + e
    BY <1>1, DivMod
  <1>3. (d + q) * m = d * m + q * m /\ d * m \in Int /\ q * m \in Int /\ d + q \in Int
    BY <1>2, Distributes
  <1>4. a + q * m = (d + q) * m + e /\ a + q * m \in Int
    BY <1>2, <1>3
  <1> QED BY <1>1, <1>2, <1>3, <1>4, DivUnique

----------------------------------------------------------------------------
(***************************************************************************)
(* The bytes of a number.                                                  *)
(***************************************************************************)
\* The last byte of the greatest length holds some of the bits, not all.
LEMMA Widths ==
  ASSUME NEW w \in WIDTHS
  PROVE  /\ w \in Nat /\ GROUP \in Nat /\ GROUP >= 2
         /\ LEB_MAX_LEN(w) \in Nat /\ LEB_MAX_LEN(w) >= 1
         /\ LastBits(w) \in Nat /\ LastBits(w) >= 1 /\ LastBits(w) < GROUP
         /\ w = GROUP * (LEB_MAX_LEN(w) - 1) + LastBits(w)
  <1>1. w \in Nat /\ w > GROUP /\ w % GROUP # 0 /\ GROUP \in Nat /\ GROUP >= 2
    BY GroupAssumption, WidthsAssumption
  <1>2. PICK q, r : q = w \div GROUP /\ r = w % GROUP
    OBVIOUS
  <1>3. /\ q \in Int /\ r \in Nat /\ r < GROUP /\ r # 0
        /\ w = q * GROUP + r
    BY <1>1, <1>2, DivMod
  <1>4. q * GROUP \in Int /\ q * GROUP = GROUP * q
    BY <1>1, <1>3
  <1>5. w - 1 = q * GROUP + (r - 1) /\ r - 1 \in Nat /\ r - 1 < GROUP /\ w - 1 \in Int
    BY <1>1, <1>3, <1>4
  <1>6. (w - 1) \div GROUP = q
    BY <1>1, <1>3, <1>5, DivUnique
  <1>7. q >= 0
    <2> SUFFICES ASSUME q <= -1 PROVE FALSE
      BY <1>3
    <2>1. q * GROUP <= (-1) * GROUP
      BY <1>1, <1>3
    <2> QED BY <2>1, <1>1, <1>3, <1>4
  <1>8. LEB_MAX_LEN(w) = q + 1 /\ LEB_MAX_LEN(w) - 1 = q
    BY <1>3, <1>6 DEF LEB_MAX_LEN
  <1>9. LastBits(w) = r
    BY <1>2 DEF LastBits
  <1> QED BY <1>1, <1>3, <1>4, <1>7, <1>8, <1>9

\* A byte is its payload and the continuation bit.
LEMMA ByteParts ==
  ASSUME NEW b \in Byte
  PROVE  /\ b \in Nat /\ Payload(b) \in Nat /\ Payload(b) < Pow2(GROUP)
         /\ More(b) => Payload(b) = b - Pow2(GROUP) /\ b >= Pow2(GROUP)
         /\ ~More(b) => Payload(b) = b /\ b < Pow2(GROUP)
  <1>1. PICK g : g = Pow2(GROUP)
    OBVIOUS
  <1>2. g \in Nat /\ g >= 1
    BY <1>1, GroupAssumption, PowNat
  <1>3. b \in Nat /\ b < 2 * g
    BY <1>1, <1>2 DEF Byte
  <1>4. CASE b >= g
    <2>1. b = 1 * g + (b - g) /\ b - g \in Nat /\ b - g < g
      BY <1>2, <1>3, <1>4
    <2>2. b % g = b - g
      BY <1>2, <1>3, <2>1, DivUnique
    <2> QED BY <1>1, <1>2, <1>3, <1>4, <2>1, <2>2 DEF More, Payload
  <1>5. CASE b < g
    <2>1. b = 0 * g + b
      BY <1>2, <1>3
    <2>2. b % g = b
      BY <1>2, <1>3, <1>5, <2>1, DivUnique
    <2> QED BY <1>1, <1>2, <1>3, <1>5, <2>2 DEF More, Payload
  <1> QED BY <1>2, <1>3, <1>4, <1>5

\* What lies ahead of the cursor in its slice are bytes.
LEMMA BytesAhead ==
  ASSUME NInv
  PROVE  /\ stream_remaining(Inner) \in Int
         /\ \A i \in Nat : i < stream_remaining(Inner) => ByteAt(Inner, i) \in Byte
  <1>1. /\ Inner \in Slices /\ Inner.ptr + Inner.len <= Len(buffer)
        /\ Len(buffer) \in Nat
    <2>1. Len(streams) \in DOMAIN streams
      BY DEF NInv, Shape
    <2> QED BY <2>1 DEF NInv, Shape, SlicesNested, Inner
  <1>2. stream_remaining(Inner) \in Int
    BY <1>1 DEF Slices, stream_remaining
  <1>3. ASSUME NEW i \in Nat, i < stream_remaining(Inner)
        PROVE  ByteAt(Inner, i) \in Byte
    <2>1. Inner.p + i + 1 \in 1..Len(buffer)
      BY <1>1, <1>3 DEF Slices, stream_remaining
    <2> QED BY <2>1 DEF ByteAt, NInv, Shape
  <1> QED BY <1>2, <1>3

\* The value that a reader gives.
LEMMA GotValue ==
  ASSUME NEW v, NEW n
  PROVE  Got(v, n).val = v
  BY DEF Got

\* Groups of bits above each other do not overlap.
LEMMA GroupsFit ==
  ASSUME NEW p, NEW s, NEW n \in Nat, s[0] = 0,
         \A i \in Nat : i < n => s[i + 1] = s[i] + p[i] * Pow2(GROUP * i),
         \A i \in Nat : i < n => p[i] \in Nat /\ p[i] < Pow2(GROUP),
         NEW m \in Nat, m <= n
  PROVE  s[m] \in Nat /\ s[m] < Pow2(GROUP * m)
  <1> DEFINE S == {k \in Nat : k <= n => s[k] \in Nat /\ s[k] < Pow2(GROUP * k)}
  <1>0. GROUP \in Nat
    BY GroupAssumption
  <1>1. 0 \in S
    BY <1>0, PowNext
  <1>2. ASSUME NEW k \in Nat, k \in S PROVE k + 1 \in S
    <2> SUFFICES ASSUME k + 1 <= n
                 PROVE  s[k + 1] \in Nat /\ s[k + 1] < Pow2(GROUP * (k + 1))
      OBVIOUS
    <2>1. PICK x, a, g, y : x = s[k] /\ a = p[k] /\ g = Pow2(GROUP) /\ y = Pow2(GROUP * k)
      OBVIOUS
    <2>2. x \in Nat /\ x < y /\ a \in Nat /\ a < g /\ s[k + 1] = x + a * y
      BY <1>2, <2>1
    <2>3. GROUP * k \in Nat /\ GROUP * (k + 1) = GROUP * k + GROUP
      BY <1>0
    <2>4. y \in Nat /\ g \in Nat /\ Pow2(GROUP * (k + 1)) = y * g
      BY <1>0, <2>1, <2>3, PowNat, PowSum
    <2>5. a + 1 <= g /\ (a + 1) * y = a * y + y
      BY <2>2, <2>4
    <2>6. (a + 1) * y <= y * g /\ a * y \in Nat
      BY <2>2, <2>4, <2>5
    <2>7. x + a * y < y * g
      BY <2>2, <2>4, <2>5, <2>6
    <2> QED BY <2>2, <2>4, <2>6, <2>7
  <1> HIDE DEF S
  <1>3. m \in S
    BY <1>1, <1>2, Induction
  <1> QED BY <1>3 DEF S

\* s are the sums of the groups p below byte n.
GroupSums(s, p, n) ==
  /\ s[0] = 0 /\ s[n] \in Nat
  /\ \A i \in Nat : i < n =>
       s[i + 1] = s[i] + p[i] * Pow2(GROUP * i) /\ p[i] \in Nat /\ s[i] \in Nat

\* Below byte n the number f adds the group p to the number at the next byte.
Prefixes(f, p, n) ==
  \A i \in Nat, y \in Int, k \in Nat :
    i < n /\ f[i + 1] = Got(y, k) => f[i] = Got(Pow2(GROUP) * y + p[i], k + 1)

\* A number of the specification is the sum of its groups, from its last byte, which
\* gives x, back to its first one.
LEMMA SpecSum ==
  ASSUME NEW p, NEW s, NEW f, NEW n \in Nat, NEW x \in Int, f[n] = Got(x, 1),
         GroupSums(s, p, n), Prefixes(f, p, n)
  PROVE  f[0] = Got(s[n] + x * Pow2(GROUP * n), n + 1)
  <1> DEFINE S == {k \in Nat : k <= n =>
                     \E y \in Int :
                       /\ f[n - k] = Got(y, k + 1)
                       /\ s[n - k] + y * Pow2(GROUP * (n - k)) = s[n] + x * Pow2(GROUP * n)}
  <1>0. GROUP \in Nat
    BY GroupAssumption
  <1>1. 0 \in S
    BY <1>0 DEF GroupSums
  <1>2. ASSUME NEW k \in Nat, k \in S PROVE k + 1 \in S
    <2> SUFFICES ASSUME k + 1 <= n
                 PROVE  \E y \in Int :
                          /\ f[n - (k + 1)] = Got(y, (k + 1) + 1)
                          /\ s[n - (k + 1)] + y * Pow2(GROUP * (n - (k + 1)))
                             = s[n] + x * Pow2(GROUP * n)
      OBVIOUS
    <2>1. PICK y \in Int :
            /\ f[n - k] = Got(y, k + 1)
            /\ s[n - k] + y * Pow2(GROUP * (n - k)) = s[n] + x * Pow2(GROUP * n)
      BY <1>2
    <2>2. PICK j : j = n - (k + 1)
      OBVIOUS
    <2>3. j \in Nat /\ j < n /\ j + 1 = n - k
      BY <2>2
    <2>4. PICK a, g, z, t : a = p[j] /\ g = Pow2(GROUP) /\ z = Pow2(GROUP * j) /\ t = s[j]
      OBVIOUS
    <2>5. GROUP * j \in Nat /\ GROUP * (j + 1) = GROUP * j + GROUP
      BY <1>0, <2>3
    <2>6. z \in Nat /\ g \in Nat /\ Pow2(GROUP * (j + 1)) = z * g
      BY <1>0, <2>4, <2>5, PowNat, PowSum
    <2>7. a \in Nat /\ t \in Nat /\ s[j + 1] = t + a * z
      BY <2>3, <2>4 DEF GroupSums
    <2>8. f[j] = Got(g * y + a, (k + 1) + 1)
      BY <2>1, <2>3, <2>4 DEF Prefixes
    <2>9. (t + a * z) + y * (z * g) = s[n] + x * Pow2(GROUP * n)
      BY <2>1, <2>3, <2>6, <2>7
    <2>10. t + (g * y + a) * z = (t + a * z) + y * (z * g) /\ g * y + a \in Int
      BY <2>6, <2>7
    <2> QED BY <2>2, <2>4, <2>8, <2>9, <2>10
  <1> HIDE DEF S
  <1>3. n \in S
    BY <1>1, <1>2, Induction
  <1>4. PICK y \in Int :
          /\ f[n - n] = Got(y, n + 1)
          /\ s[n - n] + y * Pow2(GROUP * (n - n)) = s[n] + x * Pow2(GROUP * n)
    BY <1>3 DEF S
  <1>5. n - n = 0 /\ GROUP * 0 = 0
    BY <1>0
  <1>6. s[0] + y * Pow2(0) = y
    BY PowNext DEF GroupSums
  <1> QED BY <1>4, <1>5, <1>6

----------------------------------------------------------------------------
(***************************************************************************)
(* The numbers of the specification.                                       *)
(***************************************************************************)
\* The number at byte i, given the one at the next byte.
UnsignedAt(st, w, i, rest) ==
  LET b == ByteAt(st, i)
      v == w - GROUP * i
  IN  IF stream_remaining(st) <= i THEN Err
      ELSE IF ~More(b) THEN IF v >= GROUP \/ b < Pow2(v) THEN Got(b, 1) ELSE Err
      ELSE IF v <= GROUP \/ ~rest.ok THEN Err
      ELSE Got(Pow2(GROUP) * rest.val + b - Pow2(GROUP), rest.n + 1)

SignedAt(st, w, i, rest) ==
  LET b == ByteAt(st, i)
      v == w - GROUP * i
  IN  IF stream_remaining(st) <= i THEN Err
      ELSE IF b < Pow2(GROUP - 1)
        THEN IF v > GROUP \/ b < Pow2(v - 1) THEN Got(b, 1) ELSE Err
      ELSE IF ~More(b)
        THEN IF v > GROUP \/ b >= Pow2(GROUP) - Pow2(v - 1)
               THEN Got(b - Pow2(GROUP), 1) ELSE Err
      ELSE IF v <= GROUP \/ ~rest.ok THEN Err
      ELSE Got(Pow2(GROUP) * rest.val + b - Pow2(GROUP), rest.n + 1)

NumberAt(st, w, kind, i, rest) ==
  IF kind = "signed" THEN SignedAt(st, w, i, rest) ELSE UnsignedAt(st, w, i, rest)

IsNumber(f, st, w, kind) ==
  f = [i \in 0..w |-> NumberAt(st, w, kind, i, f[i + 1])]

\* A number has no bits left at byte w, so that nothing behind it matters.
LEMMA EndsThere ==
  ASSUME NEW st, NEW w \in Nat, NEW kind, NEW r1, NEW r2
  PROVE  NumberAt(st, w, kind, w, r1) = NumberAt(st, w, kind, w, r2)
  <1>1. GROUP \in Nat /\ GROUP >= 2
    BY GroupAssumption
  <1>2. w <= GROUP * w /\ GROUP * w \in Nat
    BY <1>1
  <1>3. w - GROUP * w <= GROUP
    BY <1>1, <1>2
  <1> QED BY <1>3 DEF NumberAt, SignedAt, UnsignedAt

\* The specification defines a number at every byte.
LEMMA NumberExists ==
  ASSUME NEW st, NEW w \in Nat, NEW kind
  PROVE  \E f : IsNumber(f, st, w, kind)
  <1> DEFINE From(f, k) ==
               \A i \in 0..w : i >= w - k => f[i] = NumberAt(st, w, kind, i, f[i + 1])
             S == {k \in Nat : k <= w => \E f : f = [i \in 0..w |-> f[i]] /\ From(f, k)}
  <1>1. 0 \in S
    <2> DEFINE f == [i \in 0..w |-> NumberAt(st, w, kind, w, 0)]
    <2>1. f[w] = NumberAt(st, w, kind, w, 0)
      OBVIOUS
    <2>2. f = [i \in 0..w |-> f[i]]
      OBVIOUS
    <2> HIDE DEF f
    <2>3. f[w] = NumberAt(st, w, kind, w, f[w + 1])
      BY <2>1, EndsThere
    <2>4. From(f, 0)
      BY <2>3
    <2> QED BY <2>2, <2>4
  <1>2. ASSUME NEW k \in Nat, k \in S PROVE k + 1 \in S
    <2> SUFFICES ASSUME k + 1 <= w
                 PROVE  \E f : f = [i \in 0..w |-> f[i]] /\ From(f, k + 1)
      OBVIOUS
    <2>1. PICK f : f = [i \in 0..w |-> f[i]] /\ From(f, k)
      BY <1>2
    <2>2. PICK j : j = w - (k + 1)
      OBVIOUS
    <2>3. j \in 0..w /\ j # w /\ j + 1 \in 0..w /\ j + 1 # j
      BY <2>2
    <2> DEFINE g == [i \in 0..w |-> IF i = j THEN NumberAt(st, w, kind, j, f[j + 1])
                                    ELSE f[i]]
    <2>4. g = [i \in 0..w |-> g[i]]
      OBVIOUS
    <2>5. g[j] = NumberAt(st, w, kind, j, f[j + 1]) /\ \A i \in 0..w : i # j => g[i] = f[i]
      BY <2>3
    <2> HIDE DEF g
    <2>6. ASSUME NEW i \in 0..w, i >= w - (k + 1)
          PROVE  g[i] = NumberAt(st, w, kind, i, g[i + 1])
      <3>1. CASE i = j
        BY <2>3, <2>5, <3>1
      <3>2. CASE i # j
        <4>1. i >= w - k
          BY <2>2, <2>6, <3>2
        <4>2. f[i] = NumberAt(st, w, kind, i, f[i + 1]) /\ g[i] = f[i]
          BY <2>1, <2>5, <3>2, <4>1
        <4>3. CASE i = w
          BY <4>2, <4>3, EndsThere
        <4>4. CASE i # w
          <5>1. i + 1 \in 0..w /\ i + 1 # j
            BY <2>2, <4>1, <4>4
          <5> QED BY <2>5, <4>2, <5>1
        <4> QED BY <4>3, <4>4
      <3> QED BY <3>1, <3>2
    <2> QED BY <2>4, <2>6
  <1> HIDE DEF S
  <1>3. w \in S
    BY <1>1, <1>2, Induction
  <1>4. PICK f : f = [i \in 0..w |-> f[i]] /\ From(f, w)
    BY <1>3 DEF S
  <1>5. ASSUME NEW i \in 0..w
        PROVE  f[i] = NumberAt(st, w, kind, i, f[i + 1])
    <2>1. From(f, w)
      <3> HIDE DEF From
      <3> QED BY <1>4
    <2>2. i >= w - w
      OBVIOUS
    <2> QED BY <2>1, <2>2
  <1>6. IsNumber(f, st, w, kind)
    BY <1>4, <1>5 DEF IsNumber
  <1> QED BY <1>6

\* What the specification reads is the number at the first byte.
LEMMA SpecReads ==
  ASSUME NEW st, NEW w \in Nat
  PROVE  /\ \E f : /\ \A i \in 0..w : f[i] = UnsignedAt(st, w, i, f[i + 1])
                   /\ SpecUnsigned(st, w) = f[0]
         /\ \E f : /\ \A i \in 0..w : f[i] = SignedAt(st, w, i, f[i + 1])
                   /\ SpecSigned(st, w) =
                        IF f[0].ok THEN Got(f[0].val % Pow2(w), f[0].n) ELSE Err
  <1> DEFINE u == CHOOSE f : f = [i \in 0..w |-> UnsignedAt(st, w, i, f[i + 1])]
             s == CHOOSE f : f = [i \in 0..w |-> SignedAt(st, w, i, f[i + 1])]
  <1>1. SpecUnsigned(st, w) = u[0]
    BY DEF SpecUnsigned, UnsignedAt
  <1>2. SpecSigned(st, w) = IF s[0].ok THEN Got(s[0].val % Pow2(w), s[0].n) ELSE Err
    BY DEF SpecSigned, SignedAt
  <1>3. u = [i \in 0..w |-> UnsignedAt(st, w, i, u[i + 1])]
    <2>1. PICK f : IsNumber(f, st, w, "unsigned")
      BY NumberExists
    <2>2. f = [i \in 0..w |-> UnsignedAt(st, w, i, f[i + 1])]
      BY <2>1 DEF IsNumber, NumberAt
    <2> QED BY <2>2, Zenon
  <1>4. s = [i \in 0..w |-> SignedAt(st, w, i, s[i + 1])]
    <2>1. PICK f : IsNumber(f, st, w, "signed")
      BY NumberExists
    <2>2. f = [i \in 0..w |-> SignedAt(st, w, i, f[i + 1])]
      BY <2>1 DEF IsNumber, NumberAt
    <2> QED BY <2>2, Zenon
  <1> HIDE DEF u, s
  <1>5. \A i \in 0..w : u[i] = UnsignedAt(st, w, i, u[i + 1])
    BY <1>3
  <1>6. \A i \in 0..w : s[i] = SignedAt(st, w, i, s[i + 1])
    BY <1>4
  <1> QED BY <1>1, <1>2, <1>5, <1>6

----------------------------------------------------------------------------
(***************************************************************************)
(* The checked readers.                                                    *)
(***************************************************************************)
\* The first byte without a continuation bit is byte m of a number.
Ends(st, w, m) ==
  /\ m \in Nat /\ m < LEB_MAX_LEN(w) /\ m < stream_remaining(st)
  /\ ~More(ByteAt(st, m))
  /\ \A i \in Nat : i < m => More(ByteAt(st, i))

\* Where the loop of a checked reader stops.
LEMMA StopsAtEnd ==
  ASSUME NInv, NEW w \in WIDTHS, LastBytes(Inner, w) # {}
  PROVE  Ends(Inner, w, Min(LastBytes(Inner, w)) - 1)
  <1> DEFINE L == LastBytes(Inner, w)
  <1>1. PICK n : n = Min(L)
    OBVIOUS
  <1>2. n \in L /\ \A y \in L : n <= y
    <2>1. L \subseteq Nat
      BY DEF LastBytes
    <2> QED BY <1>1, <2>1, LeastOf
  <1>3. /\ n \in Nat /\ n >= 1 /\ n <= LEB_MAX_LEN(w)
        /\ n <= stream_remaining(Inner) /\ ~More(ByteAt(Inner, n - 1))
    BY <1>2 DEF LastBytes
  <1>4. LEB_MAX_LEN(w) \in Nat /\ stream_remaining(Inner) \in Int
    BY Widths, BytesAhead
  <1>5. ASSUME NEW i \in Nat, i < n - 1
        PROVE  More(ByteAt(Inner, i))
    <2>1. /\ i + 1 \in 1..LEB_MAX_LEN(w) /\ i + 1 <= stream_remaining(Inner)
          /\ ~(n <= i + 1) /\ (i + 1) - 1 = i
      BY <1>3, <1>4, <1>5
    <2>2. i + 1 \notin L
      BY <1>2, <2>1
    <2> QED BY <2>1, <2>2 DEF LastBytes
  <1> QED BY <1>1, <1>3, <1>4, <1>5 DEF Ends

\* The bits that are left at byte i of a number.
LEMMA BitsLeft ==
  ASSUME NEW w \in WIDTHS, NEW i \in Nat, i < LEB_MAX_LEN(w)
  PROVE  /\ i \in 0..w /\ GROUP * i \in Nat /\ GROUP * i < w
         /\ i < LEB_MAX_LEN(w) - 1 => w - GROUP * i > GROUP /\ GROUP * (i + 1) < w
         /\ i = LEB_MAX_LEN(w) - 1 => w - GROUP * i = LastBits(w) /\ GROUP * (i + 1) > w
  <1>1. PICK q, r : q = LEB_MAX_LEN(w) - 1 /\ r = LastBits(w)
    OBVIOUS
  <1>2. /\ w \in Nat /\ GROUP \in Nat /\ GROUP >= 2 /\ q \in Nat /\ r \in Nat /\ r >= 1
        /\ r < GROUP /\ w = GROUP * q + r /\ i <= q
    BY <1>1, Widths
  <1>3. GROUP * (i + 1) = GROUP * i + GROUP /\ GROUP * i \in Nat /\ GROUP * q \in Nat
    BY <1>2
  <1>4. i <= GROUP * i
    BY <1>2
  <1>5. GROUP * i <= GROUP * q
    BY <1>2
  <1>6. i < q => GROUP * (i + 1) <= GROUP * q
    BY <1>2
  <1> QED BY <1>1, <1>2, <1>3, <1>4, <1>5, <1>6

\* The payloads below the last byte and what a checked reader makes of them.
LEMMA Gathers ==
  ASSUME NInv, NEW w \in WIDTHS, NEW m, Ends(Inner, w, m)
  PROVE  \E p, s :
           /\ s[0] = 0 /\ s[m] \in Nat /\ s[m] < Pow2(GROUP * m)
           /\ \A i \in Nat : i < m =>
                /\ s[i + 1] = s[i] + p[i] * Pow2(GROUP * i)
                /\ p[i] = ByteAt(Inner, i) - Pow2(GROUP)
                /\ p[i] \in Nat /\ s[i] \in Nat
           /\ Gathered(Inner, m + 1, w) =
                (s[m] + ByteAt(Inner, m) * Pow2(GROUP * m)) % Pow2(w)
  <1> DEFINE p == [i \in 0..m |-> Payload(ByteAt(Inner, i))]
             t == [i \in 0..m |-> Payload(ByteAt(Inner, i)) * Pow2(GROUP * i)]
  <1>1. m \in Nat /\ m + 1 \in Nat /\ (m + 1) - 1 = m
    BY DEF Ends
  <1>2. \A i \in 0..m : ByteAt(Inner, i) \in Byte
    BY <1>1, BytesAhead DEF Ends
  <1>3. \A i \in Nat : i < m + 1 => p[i] \in Nat /\ p[i] < Pow2(GROUP)
    BY <1>1, <1>2, ByteParts
  <1>4. ASSUME NEW i \in Nat, i < m PROVE p[i] = ByteAt(Inner, i) - Pow2(GROUP)
    <2>1. ByteAt(Inner, i) \in Byte /\ More(ByteAt(Inner, i)) /\ i \in 0..m
      BY <1>1, <1>2, <1>4 DEF Ends
    <2> QED BY <2>1, ByteParts
  <1>5. p[m] = ByteAt(Inner, m)
    BY <1>1, <1>2, ByteParts DEF Ends
  <1>6. \A i \in Nat : i < m + 1 => t[i] = p[i] * Pow2(GROUP * i)
    BY <1>1
  <1>7. Gathered(Inner, m + 1, w) = SumOf(t, m + 1) % Pow2(w)
    BY <1>1 DEF Gathered
  <1> HIDE DEF p, t
  <1>8. PICK s : /\ s[0] = 0
                 /\ \A i \in Nat : i < m + 1 => s[i + 1] = s[i] + t[i]
                 /\ SumOf(t, m + 1) = s[m + 1]
    BY <1>1, SumSteps
  <1>9. \A i \in Nat : i < m + 1 => s[i + 1] = s[i] + p[i] * Pow2(GROUP * i)
    BY <1>6, <1>8
  <1>10. \A i \in Nat : i <= m + 1 => s[i] \in Nat /\ s[i] < Pow2(GROUP * i)
    BY <1>1, <1>3, <1>8, <1>9, GroupsFit
  <1>11. s[m + 1] = s[m] + ByteAt(Inner, m) * Pow2(GROUP * m)
    BY <1>1, <1>5, <1>9
  <1>12. \A i \in Nat : i < m => i < m + 1 /\ i <= m + 1
    BY <1>1
  <1>13. m <= m + 1
    BY <1>1
  <1> QED BY <1>1, <1>3, <1>4, <1>7, <1>8, <1>9, <1>10, <1>11, <1>12, <1>13

\* A number that fails at byte m fails at the first.
LEMMA SpecFails ==
  ASSUME NEW f, NEW m \in Nat, f[m] = Err,
         \A i \in Nat : i < m /\ ~f[i + 1].ok => f[i] = Err
  PROVE  f[0] = Err
  <1> DEFINE S == {k \in Nat : k <= m => f[m - k] = Err}
  <1>1. 0 \in S
    OBVIOUS
  <1>2. ASSUME NEW k \in Nat, k \in S PROVE k + 1 \in S
    <2> SUFFICES ASSUME k + 1 <= m PROVE f[m - (k + 1)] = Err
      OBVIOUS
    <2>1. PICK j : j = m - (k + 1)
      OBVIOUS
    <2>2. j \in Nat /\ j < m /\ j + 1 = m - k
      BY <2>1
    <2>3. f[j + 1] = Err
      BY <1>2, <2>2
    <2> QED BY <2>1, <2>2, <2>3, ErrNotOk
  <1> HIDE DEF S
  <1>3. m \in S
    BY <1>1, <1>2, Induction
  <1>4. f[m - m] = Err /\ m - m = 0
    BY <1>3 DEF S
  <1> QED BY <1>4

\* A number at a byte that goes on.
LEMMA GoesOn ==
  ASSUME NInv, NEW w \in WIDTHS, NEW i \in Nat, i < LEB_MAX_LEN(w),
         i < stream_remaining(Inner), More(ByteAt(Inner, i)), NEW rest, NEW kind
  PROVE  LET b == ByteAt(Inner, i)
         IN  NumberAt(Inner, w, kind, i, rest) =
               IF i = LEB_MAX_LEN(w) - 1 \/ ~rest.ok THEN Err
               ELSE Got(Pow2(GROUP) * rest.val + b - Pow2(GROUP), rest.n + 1)
  <1>1. stream_remaining(Inner) \in Int /\ ByteAt(Inner, i) \in Byte
    BY BytesAhead
  <1>2. ~(stream_remaining(Inner) <= i)
    BY <1>1
  <1>3. ~(ByteAt(Inner, i) < Pow2(GROUP - 1))
    <2>1. GROUP \in Nat /\ GROUP - 1 \in Nat /\ GROUP - 1 <= GROUP
      BY GroupAssumption
    <2>2. Pow2(GROUP - 1) <= Pow2(GROUP) /\ Pow2(GROUP - 1) \in Nat /\ Pow2(GROUP) \in Nat
      BY <2>1, PowGrows, PowNat
    <2> QED BY <1>1, <2>2, ByteParts
  <1>4. w - GROUP * i <= GROUP <=> i = LEB_MAX_LEN(w) - 1
    <2>1. LEB_MAX_LEN(w) \in Nat /\ GROUP \in Nat /\ LastBits(w) \in Nat /\ w \in Nat
          /\ LastBits(w) < GROUP /\ GROUP * i \in Nat
      BY Widths, BitsLeft
    <2> QED BY <2>1, BitsLeft
  <1> QED BY <1>2, <1>3, <1>4 DEF NumberAt, SignedAt, UnsignedAt

\* What the specification reads of a number that ends at byte m, in terms of what
\* the readers gather.
SpecIsSum(f, w, m) ==
  \E t \in Nat :
    /\ t < Pow2(GROUP * m)
    /\ Gathered(Inner, m + 1, w) = (t + ByteAt(Inner, m) * Pow2(GROUP * m)) % Pow2(w)
    /\ f[m] = Err => f[0] = Err
    /\ \A x \in Int : f[m] = Got(x, 1) => f[0] = Got(t + x * Pow2(GROUP * m), m + 1)

\* The payloads below the last byte and its own value make up both.
LEMMA SpecGathers ==
  ASSUME NInv, NEW w \in WIDTHS, NEW m, Ends(Inner, w, m), NEW kind, NEW f,
         \A i \in 0..w : f[i] = NumberAt(Inner, w, kind, i, f[i + 1])
  PROVE  SpecIsSum(f, w, m)
  <1>1. PICK p, s :
           /\ s[0] = 0 /\ s[m] \in Nat /\ s[m] < Pow2(GROUP * m)
           /\ \A i \in Nat : i < m =>
                /\ s[i + 1] = s[i] + p[i] * Pow2(GROUP * i)
                /\ p[i] = ByteAt(Inner, i) - Pow2(GROUP)
                /\ p[i] \in Nat /\ s[i] \in Nat
           /\ Gathered(Inner, m + 1, w) =
                (s[m] + ByteAt(Inner, m) * Pow2(GROUP * m)) % Pow2(w)
    BY Gathers
  <1>2. m \in Nat /\ m < LEB_MAX_LEN(w) /\ m < stream_remaining(Inner)
    BY DEF Ends
  <1>3. stream_remaining(Inner) \in Int /\ LEB_MAX_LEN(w) \in Nat
    BY BytesAhead, Widths
  <1>4. ASSUME NEW i \in Nat, i < m
        PROVE  /\ f[i] = IF ~f[i + 1].ok THEN Err
                         ELSE Got(Pow2(GROUP) * f[i + 1].val + ByteAt(Inner, i) - Pow2(GROUP),
                                  f[i + 1].n + 1)
               /\ ByteAt(Inner, i) \in Nat
    <2>1. i < LEB_MAX_LEN(w) /\ i < stream_remaining(Inner) /\ i # LEB_MAX_LEN(w) - 1
      BY <1>2, <1>3, <1>4
    <2>2. i \in 0..w /\ More(ByteAt(Inner, i))
      BY <1>4, <2>1, BitsLeft DEF Ends
    <2>3. ByteAt(Inner, i) \in Nat
      BY <2>1, BytesAhead, ByteParts
    <2> QED BY <2>1, <2>2, <2>3, GoesOn
  <1>5. f[m] = Err => f[0] = Err
    BY <1>2, <1>4, SpecFails
  <1>6. ASSUME NEW i \in Nat, NEW y \in Int, NEW k \in Nat, i < m, f[i + 1] = Got(y, k)
        PROVE  f[i] = Got(Pow2(GROUP) * y + p[i], k + 1)
    <2>1. f[i + 1].ok /\ f[i + 1].val = y /\ f[i + 1].n = k
      BY <1>6, GotFields, GotValue
    <2>2. f[i] = Got(Pow2(GROUP) * y + ByteAt(Inner, i) - Pow2(GROUP), k + 1)
      BY <1>4, <1>6, <2>1
    <2>3. PICK g, b : g = Pow2(GROUP) /\ b = ByteAt(Inner, i)
      OBVIOUS
    <2>4. g \in Int /\ b \in Int
      BY <1>4, <1>6, <2>3, GroupAssumption, PowNat
    <2>5. g * y + b - g = g * y + (b - g)
      BY <2>4
    <2>6. p[i] = b - g
      BY <1>1, <1>6, <2>3
    <2> QED BY <2>2, <2>3, <2>5, <2>6
  <1>7. ASSUME NEW x \in Int, f[m] = Got(x, 1)
        PROVE  f[0] = Got(s[m] + x * Pow2(GROUP * m), m + 1)
    <2>1. GroupSums(s, p, m)
      BY <1>1 DEF GroupSums
    <2>2. Prefixes(f, p, m)
      BY <1>6 DEF Prefixes
    <2> QED BY <1>2, <1>7, <2>1, <2>2, SpecSum
  <1> QED BY <1>1, <1>5, <1>7 DEF SpecIsSum

\* A number without an end is refused by the specification.
LEMMA SpecEndless ==
  ASSUME NInv, NEW w \in WIDTHS, LastBytes(Inner, w) = {}, NEW kind, NEW f,
         \A i \in 0..w : f[i] = NumberAt(Inner, w, kind, i, f[i + 1])
  PROVE  f[0] = Err
  <1>1. PICK m : m = LEB_MAX_LEN(w) - 1
    OBVIOUS
  <1>2. m \in Nat /\ LEB_MAX_LEN(w) \in Nat /\ m < LEB_MAX_LEN(w)
    BY <1>1, Widths
  <1>3. stream_remaining(Inner) \in Int
    BY BytesAhead
  <1>4. ASSUME NEW i \in Nat, i < LEB_MAX_LEN(w)
        PROVE  i = m \/ ~f[i + 1].ok => f[i] = Err
    <2>1. i \in 0..w
      BY <1>4, BitsLeft
    <2>2. CASE stream_remaining(Inner) <= i
      BY <2>1, <2>2 DEF NumberAt, SignedAt, UnsignedAt
    <2>3. CASE ~(stream_remaining(Inner) <= i)
      <3>1. i < stream_remaining(Inner)
        BY <1>3, <2>3
      <3>2. More(ByteAt(Inner, i))
        <4>1. i + 1 \in 1..LEB_MAX_LEN(w) /\ i + 1 <= stream_remaining(Inner) /\ (i + 1) - 1 = i
          BY <1>2, <1>3, <1>4, <3>1
        <4> QED BY <4>1 DEF LastBytes
      <3> QED BY <1>1, <1>4, <2>1, <3>1, <3>2, GoesOn
    <2> QED BY <2>2, <2>3
  <1>5. f[m] = Err
    BY <1>2, <1>4
  <1>6. \A i \in Nat : i < m => i < LEB_MAX_LEN(w)
    BY <1>2
  <1> QED BY <1>2, <1>4, <1>5, <1>6, SpecFails

\* A quotient is zero below the divisor.
LEMMA QuotientZero ==
  ASSUME NEW b \in Nat, NEW m \in Nat, m >= 1
  PROVE  b \div m = 0 <=> b < m
  <1>1. ASSUME b < m PROVE b \div m = 0
    <2>1. b = 0 * m + b
      OBVIOUS
    <2> QED BY <1>1, <2>1, DivUnique
  <1>2. ASSUME b \div m = 0 PROVE b < m
    <2>1. b = 0 * m + (b % m) /\ b % m < m /\ b % m \in Nat
      BY <1>2, DivMod
    <2> QED BY <2>1
  <1> QED BY <1>1, <1>2

\* The last byte of an unsigned number.
LEMMA LastUnsigned ==
  ASSUME NInv, NEW w \in WIDTHS, NEW m, Ends(Inner, w, m), NEW rest
  PROVE  UnsignedAt(Inner, w, m, rest) =
           IF m = LEB_MAX_LEN(w) - 1 /\ ~UnsignedEnd(ByteAt(Inner, m), w) THEN Err
           ELSE Got(ByteAt(Inner, m), 1)
  <1>1. PICK b, v : b = ByteAt(Inner, m) /\ v = w - GROUP * m
    OBVIOUS
  <1>2. /\ m \in Nat /\ m < LEB_MAX_LEN(w) /\ m < stream_remaining(Inner) /\ ~More(b)
        /\ stream_remaining(Inner) \in Int /\ b \in Byte
    BY <1>1, BytesAhead DEF Ends
  <1>3. /\ LEB_MAX_LEN(w) \in Nat /\ w \in Nat /\ GROUP \in Nat /\ GROUP * m \in Nat
        /\ LastBits(w) \in Nat /\ LastBits(w) < GROUP
    BY <1>2, Widths, BitsLeft
  <1>4. ~(stream_remaining(Inner) <= m)
    BY <1>2
  <1>5. UnsignedAt(Inner, w, m, rest) = IF v >= GROUP \/ b < Pow2(v) THEN Got(b, 1) ELSE Err
    BY <1>1, <1>2, <1>4 DEF UnsignedAt
  <1>6. CASE m = LEB_MAX_LEN(w) - 1
    <2>1. v = LastBits(w) /\ ~(v >= GROUP)
      BY <1>1, <1>2, <1>3, <1>6, BitsLeft
    <2>2. b < Pow2(v) <=> UnsignedEnd(b, w)
      <3>1. b \in Nat /\ Pow2(v) \in Nat /\ Pow2(v) >= 1
        BY <1>2, <1>3, <2>1, ByteParts, PowNat
      <3> QED BY <2>1, <3>1, QuotientZero DEF UnsignedEnd
    <2> QED BY <1>1, <1>5, <1>6, <2>1, <2>2
  <1>7. CASE m # LEB_MAX_LEN(w) - 1
    <2>1. m < LEB_MAX_LEN(w) - 1
      BY <1>2, <1>3, <1>7
    <2>2. v >= GROUP
      BY <1>1, <1>2, <1>3, <2>1, BitsLeft
    <2> QED BY <1>1, <1>5, <1>7, <2>2
  <1> QED BY <1>6, <1>7

\* The bits beyond the width of a signed number, as the reader and as the
\* specification compare them.
LEMMA SignedEndExact ==
  ASSUME NEW b \in Byte, ~More(b), NEW w \in WIDTHS
  PROVE  /\ b < Pow2(GROUP - 1) => (SignedEnd(b, w) <=> b < Pow2(LastBits(w) - 1))
         /\ ~(b < Pow2(GROUP - 1)) =>
              (SignedEnd(b, w) <=> b >= Pow2(GROUP) - Pow2(LastBits(w) - 1))
  <1>1. PICK h, k, g : /\ h = Pow2(LastBits(w) - 1) /\ k = Pow2(GROUP - LastBits(w) + 1)
                       /\ g = Pow2(GROUP)
    OBVIOUS
  <1>2. /\ GROUP \in Nat /\ GROUP - 1 \in Nat /\ LastBits(w) - 1 \in Nat
        /\ GROUP - LastBits(w) + 1 \in Nat
        /\ (LastBits(w) - 1) + (GROUP - LastBits(w) + 1) = GROUP
    BY Widths
  <1>3. /\ h \in Nat /\ h >= 1 /\ k \in Nat /\ k >= 1 /\ g \in Nat /\ g = h * k
    BY <1>1, <1>2, PowNat, PowSum
  <1>4. b \in Nat /\ b < g /\ Payload(b) = b
    BY <1>1, ByteParts
  <1>5. Pow2(GROUP - 1) \in Nat
    BY <1>2, PowNat
  <1>6. SignBit(b) <=> ~(b < Pow2(GROUP - 1))
    BY <1>4, <1>5 DEF SignBit
  <1>7. SignedEnd(b, w) <=> b \div h = IF SignBit(b) THEN k - 1 ELSE 0
    BY <1>1 DEF SignedEnd
  <1>8. b \div h = 0 <=> b < h
    BY <1>3, <1>4, QuotientZero
  <1>9. (k - 1) * h = g - h /\ (k - 1) * h \in Int
    BY <1>3
  <1>10. ASSUME b >= g - h PROVE b \div h = k - 1
    <2>1. b = (k - 1) * h + (b - (g - h)) /\ b - (g - h) \in Nat /\ b - (g - h) < h
      BY <1>3, <1>4, <1>9, <1>10
    <2> QED BY <1>3, <1>4, <2>1, DivUnique
  <1>11. ASSUME b \div h = k - 1 PROVE b >= g - h
    <2>1. PICK d, r : d = b \div h /\ r = b % h
      OBVIOUS
    <2>2. b = d * h + r /\ r \in Nat
      BY <1>3, <1>4, <2>1, DivMod
    <2>3. b = (k - 1) * h + r
      BY <1>11, <2>1, <2>2
    <2> QED BY <1>3, <1>4, <1>9, <2>2, <2>3
  <1> QED BY <1>1, <1>6, <1>7, <1>8, <1>10, <1>11

\* The last byte of a signed number.
LEMMA LastSigned ==
  ASSUME NInv, NEW w \in WIDTHS, NEW m, Ends(Inner, w, m), NEW rest
  PROVE  LET b == ByteAt(Inner, m)
         IN  SignedAt(Inner, w, m, rest) =
               IF m = LEB_MAX_LEN(w) - 1 /\ ~SignedEnd(b, w) THEN Err
               ELSE Got(IF SignBit(b) THEN b - Pow2(GROUP) ELSE b, 1)
  <1>1. PICK b, v : b = ByteAt(Inner, m) /\ v = w - GROUP * m
    OBVIOUS
  <1>2. /\ m \in Nat /\ m < LEB_MAX_LEN(w) /\ m < stream_remaining(Inner) /\ ~More(b)
        /\ stream_remaining(Inner) \in Int /\ b \in Byte
    BY <1>1, BytesAhead DEF Ends
  <1>3. /\ LEB_MAX_LEN(w) \in Nat /\ w \in Nat /\ GROUP \in Nat /\ GROUP * m \in Nat
        /\ LastBits(w) \in Nat /\ LastBits(w) < GROUP /\ GROUP - 1 \in Nat
    BY <1>2, Widths, BitsLeft
  <1>4. ~(stream_remaining(Inner) <= m)
    BY <1>2
  <1>5. SignBit(b) <=> ~(b < Pow2(GROUP - 1))
    <2>1. Pow2(GROUP - 1) \in Nat /\ b \in Nat /\ Payload(b) = b
      BY <1>2, <1>3, PowNat, ByteParts
    <2> QED BY <2>1 DEF SignBit
  <1>6. SignedAt(Inner, w, m, rest) =
          IF b < Pow2(GROUP - 1)
          THEN IF v > GROUP \/ b < Pow2(v - 1) THEN Got(b, 1) ELSE Err
          ELSE IF v > GROUP \/ b >= Pow2(GROUP) - Pow2(v - 1)
               THEN Got(b - Pow2(GROUP), 1) ELSE Err
    BY <1>1, <1>2, <1>4 DEF SignedAt
  <1>7. CASE m = LEB_MAX_LEN(w) - 1
    <2>1. v = LastBits(w) /\ ~(v > GROUP)
      BY <1>1, <1>2, <1>3, <1>7, BitsLeft
    <2> QED BY <1>1, <1>2, <1>5, <1>6, <1>7, <2>1, SignedEndExact
  <1>8. CASE m # LEB_MAX_LEN(w) - 1
    <2>1. m < LEB_MAX_LEN(w) - 1
      BY <1>2, <1>3, <1>8
    <2>2. v > GROUP
      BY <1>1, <1>2, <1>3, <2>1, BitsLeft
    <2> QED BY <1>1, <1>5, <1>6, <1>8, <2>2
  <1> QED BY <1>7, <1>8

\* A sum of groups that ends with the group b of k bits is below the next power.
LEMMA TopGroup ==
  ASSUME NEW t \in Nat, NEW a \in Nat, NEW k \in Nat, NEW b \in Nat, t < Pow2(a), b < Pow2(k)
  PROVE  t + b * Pow2(a) \in Nat /\ t + b * Pow2(a) < Pow2(a + k)
  <1>1. PICK x, y : x = Pow2(a) /\ y = Pow2(k)
    OBVIOUS
  <1>2. x \in Nat /\ y \in Nat /\ Pow2(a + k) = x * y
    BY <1>1, PowNat, PowSum
  <1>3. b + 1 <= y /\ (b + 1) * x = b * x + x /\ b * x \in Nat
    BY <1>1, <1>2
  <1>4. (b + 1) * x <= x * y
    BY <1>2, <1>3
  <1> QED BY <1>1, <1>2, <1>3, <1>4

\* The unsigned reader gives the number of the specification.
LEMMA UnsignedExact ==
  ASSUME NInv, NEW w \in WIDTHS
  PROVE  ReadUnsigned(Inner, w) = SpecUnsigned(Inner, w)
  <1>1. w \in Nat
    BY Widths
  <1>2. PICK f : /\ \A i \in 0..w : f[i] = UnsignedAt(Inner, w, i, f[i + 1])
                 /\ SpecUnsigned(Inner, w) = f[0]
    BY <1>1, SpecReads
  <1>3. \A i \in 0..w : f[i] = NumberAt(Inner, w, "unsigned", i, f[i + 1])
    BY <1>2 DEF NumberAt
  <1>4. CASE LastBytes(Inner, w) = {}
    <2>1. f[0] = Err
      BY <1>3, <1>4, SpecEndless
    <2> QED BY <1>2, <1>4, <2>1 DEF ReadUnsigned
  <1>5. CASE LastBytes(Inner, w) # {}
    <2>1. PICK n, m, b : /\ n = Min(LastBytes(Inner, w)) /\ m = n - 1
                         /\ b = ByteAt(Inner, m)
      OBVIOUS
    <2>2. Ends(Inner, w, m)
      BY <1>5, <2>1, StopsAtEnd
    <2>3. /\ m \in Nat /\ m < LEB_MAX_LEN(w) /\ LEB_MAX_LEN(w) \in Nat
          /\ b \in Byte /\ ~More(b)
      BY <2>1, <2>2, BytesAhead, Widths DEF Ends
    <2>4. n \in Nat /\ n = m + 1
      <3>1. n \in 1..stream_remaining(Inner)
        BY <1>5, <2>1, LastByteInside
      <3> QED BY <2>1, <3>1
    <2>5. PICK t \in Nat :
            /\ t < Pow2(GROUP * m)
            /\ Gathered(Inner, m + 1, w) =
                 (t + ByteAt(Inner, m) * Pow2(GROUP * m)) % Pow2(w)
            /\ f[m] = Err => f[0] = Err
            /\ \A x \in Int : f[m] = Got(x, 1) => f[0] = Got(t + x * Pow2(GROUP * m), m + 1)
      <3>1. SpecIsSum(f, w, m)
        BY <1>3, <2>2, SpecGathers
      <3> QED BY <3>1 DEF SpecIsSum
    <2>6. Gathered(Inner, m + 1, w) = (t + b * Pow2(GROUP * m)) % Pow2(w)
      BY <2>1, <2>5
    <2>7. m \in 0..w /\ GROUP * m \in Nat /\ GROUP \in Nat /\ GROUP * m < w
      BY <2>3, BitsLeft, Widths
    <2>8. f[m] = IF m = LEB_MAX_LEN(w) - 1 /\ ~UnsignedEnd(b, w) THEN Err ELSE Got(b, 1)
      BY <1>2, <2>1, <2>2, <2>7, LastUnsigned
    <2>9. ReadUnsigned(Inner, w) =
            IF m = LEB_MAX_LEN(w) - 1 /\ ~UnsignedEnd(b, w) THEN Err
            ELSE Got(Gathered(Inner, m + 1, w), m + 1)
      <3>1. n = LEB_MAX_LEN(w) <=> m = LEB_MAX_LEN(w) - 1
        BY <2>3, <2>4
      <3> QED BY <1>5, <2>1, <2>4, <3>1 DEF ReadUnsigned
    <2>10. CASE m = LEB_MAX_LEN(w) - 1 /\ ~UnsignedEnd(b, w)
      BY <1>2, <2>5, <2>8, <2>9, <2>10
    <2>11. CASE ~(m = LEB_MAX_LEN(w) - 1 /\ ~UnsignedEnd(b, w))
      <3>1. b \in Nat /\ b < Pow2(GROUP)
        BY <2>3, ByteParts
      <3>2. f[0] = Got(t + b * Pow2(GROUP * m), m + 1)
        BY <2>5, <2>8, <2>11, <3>1
      <3>3. t + b * Pow2(GROUP * m) \in Nat /\ t + b * Pow2(GROUP * m) < Pow2(w)
        <4>1. CASE m = LEB_MAX_LEN(w) - 1
          <5>1. LastBits(w) \in Nat /\ GROUP * m + LastBits(w) = w
            BY <1>1, <2>3, <2>7, <4>1, BitsLeft, Widths
          <5>2. b < Pow2(LastBits(w))
            <6>1. Pow2(LastBits(w)) \in Nat /\ Pow2(LastBits(w)) >= 1
              BY <5>1, PowNat
            <6> QED BY <2>11, <3>1, <4>1, <6>1, QuotientZero DEF UnsignedEnd
          <5> QED BY <2>5, <2>7, <3>1, <5>1, <5>2, TopGroup
        <4>2. CASE m # LEB_MAX_LEN(w) - 1
          <5>1. m < LEB_MAX_LEN(w) - 1
            BY <2>3, <4>2
          <5>2. GROUP * m + GROUP <= w /\ GROUP * m + GROUP \in Nat
            BY <1>1, <2>3, <2>7, <5>1, BitsLeft
          <5>3. /\ t + b * Pow2(GROUP * m) \in Nat
                /\ t + b * Pow2(GROUP * m) < Pow2(GROUP * m + GROUP)
            BY <2>5, <2>7, <3>1, TopGroup
          <5>4. /\ Pow2(GROUP * m + GROUP) <= Pow2(w)
                /\ Pow2(GROUP * m + GROUP) \in Nat /\ Pow2(w) \in Nat
            BY <1>1, <5>2, PowGrows, PowNat
          <5> QED BY <5>3, <5>4
        <4> QED BY <4>1, <4>2
      <3>4. (t + b * Pow2(GROUP * m)) % Pow2(w) = t + b * Pow2(GROUP * m)
        <4>1. PICK y : y = t + b * Pow2(GROUP * m)
          OBVIOUS
        <4>2. Pow2(w) \in Nat /\ Pow2(w) >= 1
          BY <1>1, PowNat
        <4>3. y = 0 * Pow2(w) + y /\ y \in Nat /\ y < Pow2(w)
          BY <3>3, <4>1, <4>2
        <4>4. y % Pow2(w) = y
          BY <4>2, <4>3, DivUnique
        <4> QED BY <4>1, <4>4
      <3> QED BY <1>2, <2>9, <2>11, <2>6, <3>2, <3>4
    <2> QED BY <2>10, <2>11
  <1> QED BY <1>4, <1>5

\* The extension of the sign is a subtraction of the bits that the bytes have,
\* modulo the width.
LEMMA ExtendsSign ==
  ASSUME NEW w \in WIDTHS, NEW m \in Nat, m < LEB_MAX_LEN(w), NEW t \in Nat,
         t < Pow2(GROUP * m), NEW b \in Nat, b < Pow2(GROUP)
  PROVE  Extended((t + b * Pow2(GROUP * m)) % Pow2(w), m + 1, w) =
           (t + (b - Pow2(GROUP)) * Pow2(GROUP * m)) % Pow2(w)
  <1>1. PICK y, x, g, z, e : /\ y = t + b * Pow2(GROUP * m) /\ x = Pow2(w)
                             /\ g = Pow2(GROUP) /\ z = Pow2(GROUP * m)
                             /\ e = Pow2(GROUP * (m + 1))
    OBVIOUS
  <1>2. /\ w \in Nat /\ GROUP \in Nat /\ LEB_MAX_LEN(w) \in Nat /\ GROUP * m \in Nat
        /\ GROUP * (m + 1) \in Nat /\ GROUP * (m + 1) = GROUP * m + GROUP
    BY Widths, BitsLeft
  <1>3. /\ x \in Nat /\ x >= 1 /\ g \in Nat /\ z \in Nat /\ e \in Nat /\ e >= 1
        /\ e = z * g
    BY <1>1, <1>2, PowNat, PowSum
  <1>4. y \in Nat /\ y < e
    BY <1>1, <1>2, TopGroup
  <1>5. t + (b - g) * z = y - e
    <2>1. (b - g) * z = b * z - g * z /\ g * z = z * g /\ b * z \in Int /\ g * z \in Int
      BY <1>3, Distributes
    <2> QED BY <1>1, <1>3, <2>1
  <1>6. CASE GROUP * (m + 1) < w
    <2>1. e <= x
      BY <1>1, <1>2, <1>6, PowGrows
    <2>2. y % x = y
      <3>1. y = 0 * x + y /\ y < x
        BY <1>3, <1>4, <2>1
      <3> QED BY <1>3, <1>4, <3>1, DivUnique
    <2>3. (y - e) % x = y + x - e
      <3>1. PICK a, q, r : a = y - e /\ q = -1 /\ r = y + x - e
        OBVIOUS
      <3>2. a \in Int /\ q \in Int /\ r \in Nat /\ r < x /\ a = q * x + r
        BY <1>3, <1>4, <2>1, <3>1
      <3>3. a % x = r
        BY <1>3, <3>2, DivUnique
      <3> QED BY <3>1, <3>3
    <2>4. Extended(y, m + 1, w) = y + x - e
      BY <1>1, <1>6 DEF Extended
    <2> QED BY <1>1, <1>5, <2>2, <2>3, <2>4
  <1>7. CASE ~(GROUP * (m + 1) < w)
    <2>1. GROUP * (m + 1) - w \in Nat /\ w + (GROUP * (m + 1) - w) = GROUP * (m + 1)
      BY <1>2, <1>7
    <2>2. PICK d : d = Pow2(GROUP * (m + 1) - w)
      OBVIOUS
    <2>3. d \in Nat /\ e = x * d
      BY <1>1, <1>2, <2>1, <2>2, PowNat, PowSum
    <2>4. PICK q : q = 0 - d
      OBVIOUS
    <2>5. (y - e) % x = y % x
      <3>1. q \in Int /\ q * x = 0 - x * d
        BY <1>3, <2>3, <2>4
      <3>2. y + q * x = y - e
        <4>1. q * x = 0 - e
          BY <2>3, <3>1
        <4> QED BY <1>3, <1>4, <4>1
      <3>3. (y + q * x) % x = y % x
        <4>1. y \in Int /\ x \in Nat /\ x >= 1 /\ q \in Int
          BY <1>3, <1>4, <3>1
        <4> QED BY <4>1, ModShift
      <3> QED BY <3>2, <3>3
    <2>6. Extended(y % x, m + 1, w) = y % x
      BY <1>7 DEF Extended
    <2> QED BY <1>1, <1>5, <2>5, <2>6
  <1> QED BY <1>6, <1>7

\* The signed reader gives the number of the specification.
LEMMA SignedExact ==
  ASSUME NInv, NEW w \in WIDTHS
  PROVE  ReadSigned(Inner, w) = SpecSigned(Inner, w)
  <1>1. w \in Nat
    BY Widths
  <1>2. PICK f : /\ \A i \in 0..w : f[i] = SignedAt(Inner, w, i, f[i + 1])
                 /\ SpecSigned(Inner, w) =
                      IF f[0].ok THEN Got(f[0].val % Pow2(w), f[0].n) ELSE Err
    BY <1>1, SpecReads
  <1>3. \A i \in 0..w : f[i] = NumberAt(Inner, w, "signed", i, f[i + 1])
    BY <1>2 DEF NumberAt
  <1>4. CASE LastBytes(Inner, w) = {}
    <2>1. f[0] = Err
      BY <1>3, <1>4, SpecEndless
    <2> QED BY <1>2, <1>4, <2>1, ErrNotOk DEF ReadSigned
  <1>5. CASE LastBytes(Inner, w) # {}
    <2>1. PICK n, m, b : /\ n = Min(LastBytes(Inner, w)) /\ m = n - 1
                         /\ b = ByteAt(Inner, m)
      OBVIOUS
    <2>2. Ends(Inner, w, m)
      BY <1>5, <2>1, StopsAtEnd
    <2>3. /\ m \in Nat /\ m < LEB_MAX_LEN(w) /\ LEB_MAX_LEN(w) \in Nat
          /\ b \in Byte /\ ~More(b)
      BY <2>1, <2>2, BytesAhead, Widths DEF Ends
    <2>4. n \in Nat /\ n = m + 1
      <3>1. n \in 1..stream_remaining(Inner)
        BY <1>5, <2>1, LastByteInside
      <3> QED BY <2>1, <3>1
    <2>5. PICK t \in Nat :
            /\ t < Pow2(GROUP * m)
            /\ Gathered(Inner, m + 1, w) =
                 (t + ByteAt(Inner, m) * Pow2(GROUP * m)) % Pow2(w)
            /\ f[m] = Err => f[0] = Err
            /\ \A x \in Int : f[m] = Got(x, 1) => f[0] = Got(t + x * Pow2(GROUP * m), m + 1)
      <3>1. SpecIsSum(f, w, m)
        BY <1>3, <2>2, SpecGathers
      <3> QED BY <3>1 DEF SpecIsSum
    <2>6. Gathered(Inner, m + 1, w) = (t + b * Pow2(GROUP * m)) % Pow2(w)
      BY <2>1, <2>5
    <2>7. m \in 0..w
      BY <2>3, BitsLeft
    <2>8. f[m] = IF m = LEB_MAX_LEN(w) - 1 /\ ~SignedEnd(b, w) THEN Err
                 ELSE Got(IF SignBit(b) THEN b - Pow2(GROUP) ELSE b, 1)
      BY <1>2, <2>1, <2>2, <2>7, LastSigned
    <2>9. ReadSigned(Inner, w) =
            IF m = LEB_MAX_LEN(w) - 1 /\ ~SignedEnd(b, w) THEN Err
            ELSE Got(IF SignBit(b) THEN Extended(Gathered(Inner, m + 1, w), m + 1, w)
                     ELSE Gathered(Inner, m + 1, w), m + 1)
      <3>1. n = LEB_MAX_LEN(w) <=> m = LEB_MAX_LEN(w) - 1
        BY <2>3, <2>4
      <3> QED BY <1>5, <2>1, <2>4, <3>1 DEF ReadSigned
    <2>10. CASE m = LEB_MAX_LEN(w) - 1 /\ ~SignedEnd(b, w)
      BY <1>2, <2>5, <2>8, <2>9, <2>10, ErrNotOk
    <2>11. CASE ~(m = LEB_MAX_LEN(w) - 1 /\ ~SignedEnd(b, w))
      <3>1. b \in Nat /\ b < Pow2(GROUP) /\ Pow2(GROUP) \in Nat
        BY <2>3, ByteParts, Widths, PowNat
      <3>2. PICK x : x = IF SignBit(b) THEN b - Pow2(GROUP) ELSE b
        OBVIOUS
      <3>3. x \in Int
        BY <3>1, <3>2
      <3>4. f[0] = Got(t + x * Pow2(GROUP * m), m + 1)
        BY <2>5, <2>8, <2>11, <3>2, <3>3
      <3>5. SpecSigned(Inner, w) = Got((t + x * Pow2(GROUP * m)) % Pow2(w), m + 1)
        BY <1>2, <3>4, GotFields, GotValue
      <3>6. CASE SignBit(b)
        <4>1. Extended(Gathered(Inner, m + 1, w), m + 1, w) =
                (t + x * Pow2(GROUP * m)) % Pow2(w)
          BY <2>3, <2>5, <2>6, <3>1, <3>2, <3>6, ExtendsSign
        <4> QED BY <2>9, <2>11, <3>5, <3>6, <4>1
      <3>7. CASE ~SignBit(b)
        BY <2>9, <2>11, <2>6, <3>2, <3>5, <3>7
      <3> QED BY <3>6, <3>7
    <2> QED BY <2>10, <2>11
  <1> QED BY <1>4, <1>5

\* For buffers of any content, slices to any depth and all widths of bytes and
\* numbers: the checked readers of stream.h, signed and unsigned, accept exactly the
\* numbers of the WebAssembly specification, with their values and lengths. The
\* parser and the decoder read every count, index and immediate through them.
THEOREM NumbersExact == StreamSpec => []LebExact
  <1>1. NInv => LebExact
    BY UnsignedExact, SignedExact DEF LebExact
  <1> QED BY <1>1, NestedInit, NestedStep, PTL DEF StreamSpec

----------------------------------------------------------------------------
(***************************************************************************)
(* The unchecked readers read what the checked ones read.                  *)
(***************************************************************************)
\* Within a slice the unchecked readers see its bytes.
LEMMA RawInside ==
  ASSUME NInv, NEW i \in Nat, i < stream_remaining(Inner)
  PROVE  RawByte(Inner, i) = ByteAt(Inner, i)
  <1>1. /\ Inner \in Slices /\ Inner.ptr + Inner.len <= Len(buffer)
        /\ Len(buffer) \in Nat
    <2>1. Len(streams) \in DOMAIN streams
      BY DEF NInv, Shape
    <2> QED BY <2>1 DEF NInv, Shape, SlicesNested, Inner
  <1>2. Inner.p + i < Len(buffer)
    BY <1>1 DEF Slices, stream_remaining
  <1> QED BY <1>2 DEF RawByte

\* The first byte without a continuation bit is the first for both.
LEMMA RawLength ==
  ASSUME NInv, NEW w \in WIDTHS, LastBytes(Inner, w) # {}
  PROVE  RawLen(Inner, w) = Min(LastBytes(Inner, w))
  <1> DEFINE max == LEB_MAX_LEN(w)
             L == LastBytes(Inner, w)
             R == {n \in 1..max : ~More(RawByte(Inner, n - 1))} \cup {max}
  <1>1. PICK n : n = Min(L)
    OBVIOUS
  <1>2. L \subseteq Nat
    BY DEF LastBytes
  <1>3. n \in L /\ \A y \in L : n <= y
    BY <1>1, <1>2, LeastOf
  <1>4. n \in Nat /\ n \in 1..max /\ n <= stream_remaining(Inner) /\ ~More(ByteAt(Inner, n - 1))
    BY <1>3 DEF LastBytes
  <1>5. stream_remaining(Inner) \in Int
    <2>1. Inner \in Slices
      BY DEF NInv, Shape, Inner
    <2> QED BY <2>1 DEF Slices, stream_remaining
  <1>6. max \in Nat
    <2>1. w \in Nat /\ w > GROUP /\ GROUP \in Nat /\ GROUP > 0
      BY GroupAssumption, WidthsAssumption
    <2>2. w - 1 \in Nat
      BY <2>1
    <2> QED BY <2>1, <2>2 DEF LEB_MAX_LEN
  <1>7. ASSUME NEW m \in 1..n
        PROVE  RawByte(Inner, m - 1) = ByteAt(Inner, m - 1)
    <2>1. m - 1 \in Nat /\ m - 1 < stream_remaining(Inner)
      BY <1>4, <1>5
    <2> QED BY <2>1, RawInside
  <1>8. n \in R
    BY <1>4, <1>7
  <1>9. ASSUME NEW m \in R
        PROVE  n <= m
    <2>1. m \in Nat /\ m \in 1..max
      BY <1>4, <1>6
    <2>2. SUFFICES ASSUME m < n PROVE FALSE
      BY <1>4, <2>1
    <2>3. m \in 1..n /\ m <= stream_remaining(Inner) /\ m # max
      BY <1>4, <1>5, <1>6, <2>1, <2>2
    <2>4. ~More(ByteAt(Inner, m - 1))
      BY <1>7, <2>3
    <2>5. m \in L
      BY <2>1, <2>3, <2>4 DEF LastBytes
    <2> QED BY <1>3, <1>4, <2>1, <2>2, <2>5
  <1>10. R \subseteq Nat /\ R # {}
    BY <1>6
  <1>11. Min(R) \in R /\ \A y \in R : Min(R) <= y
    BY <1>10, LeastOf
  <1>12. Min(R) = n
    <2>1. Min(R) \in Nat /\ n \in Nat /\ Min(R) <= n /\ n <= Min(R)
      BY <1>4, <1>8, <1>9, <1>10, <1>11
    <2> QED BY <2>1
  <1>13. RawLen(Inner, w) = Min(R)
    BY DEF RawLen
  <1> QED BY <1>1, <1>12, <1>13

\* One byte that was accepted is read alike.
LEMMA RawSeven ==
  ASSUME NInv, ReadSeven(Inner, TRUE).ok
  PROVE  ReadSevenUnchecked(Inner) = ReadSeven(Inner, TRUE)
  <1>1. Inner \in Slices
    BY DEF NInv, Shape, Inner
  <1>2. stream_remaining(Inner) \in Int
    BY <1>1 DEF Slices, stream_remaining
  <1>3. ~(stream_remaining(Inner) < 1) /\ ~More(ByteAt(Inner, 0))
    BY ErrNotOk DEF ReadSeven
  <1>4. RawByte(Inner, 0) = ByteAt(Inner, 0)
    BY <1>2, <1>3, RawInside
  <1> QED BY <1>3, <1>4 DEF ReadSeven, ReadSevenUnchecked

\* a and b are the same number in a width of x.
Congruent(a, b, x) == \E q \in Int : a = b + q * x

\* One byte of a number: added whole and without its continuation bit.
LEMMA RawGroup ==
  ASSUME NEW x \in Nat, x >= 1, NEW b \in Nat, NEW g \in Nat, NEW z \in Nat
  PROVE  /\ Congruent((b * z) % x, b * z, x)
         /\ Congruent(((b * z) % x) + (x - ((z * g) % x)), (b - g) * z, x)
  <1>1. b * z \in Int /\ z * g \in Int /\ (b - g) * z = b * z - z * g
    <2>1. (b - g) * z = b * z - g * z /\ g * z = z * g
      BY Distributes
    <2> QED BY <2>1
  <1>2. PICK d, e, c, r : /\ d = (b * z) \div x /\ e = (b * z) % x
                          /\ c = (z * g) \div x /\ r = (z * g) % x
    OBVIOUS
  <1>3. d \in Int /\ e \in Nat /\ b * z = d * x + e
    BY <1>1, <1>2, DivMod
  <1>4. c \in Int /\ r \in Nat /\ z * g = c * x + r
    BY <1>1, <1>2, DivMod
  <1>5. d * x \in Int /\ c * x \in Int
    BY <1>3, <1>4
  <1>6. e = b * z + (0 - d) * x /\ 0 - d \in Int
    <2>1. (0 - d) * x = 0 - d * x
      BY <1>3
    <2> QED BY <1>1, <1>3, <1>5, <2>1
  <1>7. e + (x - r) = (b - g) * z + (c - d + 1) * x /\ c - d + 1 \in Int
    <2>1. (c - d + 1) * x = c * x - d * x + x
      BY <1>3, <1>4
    <2> QED BY <1>1, <1>3, <1>4, <1>5, <2>1
  <1>8. Congruent(e, b * z, x) /\ Congruent(e + (x - r), (b - g) * z, x)
    BY <1>6, <1>7 DEF Congruent
  <1> QED BY <1>2, <1>8

\* The unchecked readers, which add whole bytes and take the continuation bits off
\* again in the width of the number, gather the same value.
LEMMA RawGathers ==
  ASSUME NInv, NEW w \in WIDTHS, NEW m, Ends(Inner, w, m)
  PROVE  RawSum(Inner, m + 1, w) = Gathered(Inner, m + 1, w)
  <1> DEFINE t == [i \in 0..m |-> Payload(ByteAt(Inner, i)) * Pow2(GROUP * i)]
             u == [i \in 0..m |->
                     ((RawByte(Inner, i) * Pow2(GROUP * i)) % Pow2(w))
                     + (IF i < m THEN Pow2(w) - (Pow2(GROUP * (i + 1)) % Pow2(w)) ELSE 0)]
  <1>1. m \in Nat /\ m + 1 \in Nat /\ (m + 1) - 1 = m
    BY DEF Ends
  <1>2. Gathered(Inner, m + 1, w) = SumOf(t, m + 1) % Pow2(w)
    BY <1>1 DEF Gathered
  <1>3. RawSum(Inner, m + 1, w) = SumOf(u, m + 1) % Pow2(w)
    BY <1>1 DEF RawSum
  <1>4. PICK x, g : x = Pow2(w) /\ g = Pow2(GROUP)
    OBVIOUS
  <1>5. x \in Nat /\ x >= 1 /\ g \in Nat /\ GROUP \in Nat
    BY <1>4, Widths, PowNat
  <1>6. ASSUME NEW i \in Nat, i < m + 1
        PROVE  t[i] \in Int /\ Congruent(u[i], t[i], x)
    <2>1. PICK b, z : b = ByteAt(Inner, i) /\ z = Pow2(GROUP * i)
      OBVIOUS
    <2>2. i \in 0..m /\ i < stream_remaining(Inner)
      BY <1>1, <1>6, BytesAhead DEF Ends
    <2>3. b \in Byte /\ RawByte(Inner, i) = b
      BY <2>1, <2>2, BytesAhead, RawInside
    <2>4. GROUP * i \in Nat /\ GROUP * (i + 1) = GROUP * i + GROUP
      BY <1>5
    <2>5. z \in Nat /\ Pow2(GROUP * (i + 1)) = z * g
      BY <1>4, <1>5, <2>1, <2>4, PowNat, PowSum
    <2>6. t[i] = Payload(b) * z
      BY <2>1, <2>2
    <2>7. u[i] = ((b * z) % x) + (IF i < m THEN x - ((z * g) % x) ELSE 0)
      BY <1>4, <2>1, <2>2, <2>3, <2>5
    <2> HIDE DEF t, u
    <2>8. b \in Nat /\ Payload(b) \in Nat
      BY <2>3, ByteParts
    <2>9. t[i] \in Int
      BY <2>5, <2>6, <2>8
    <2>10. CASE i < m
      <3>1. Payload(b) = b - g
        BY <1>4, <2>1, <2>3, <2>10, ByteParts DEF Ends
      <3>2. Congruent(((b * z) % x) + (x - ((z * g) % x)), (b - g) * z, x)
        BY <1>5, <2>5, <2>8, RawGroup
      <3>3. u[i] = ((b * z) % x) + (x - ((z * g) % x))
        BY <2>7, <2>10
      <3> QED BY <2>6, <2>9, <3>1, <3>2, <3>3
    <2>11. CASE ~(i < m)
      <3>1. i = m
        BY <1>1, <1>6, <2>11
      <3>2. Payload(b) = b
        BY <2>1, <2>3, <3>1, ByteParts DEF Ends
      <3>3. Congruent((b * z) % x, b * z, x)
        BY <1>5, <2>5, <2>8, RawGroup
      <3>4. (b * z) % x \in Int
        BY <1>5, <2>5, <2>8, DivMod
      <3>5. u[i] = (b * z) % x
        BY <2>7, <2>11, <3>4
      <3> QED BY <2>6, <2>9, <3>2, <3>3, <3>5
    <2> QED BY <2>10, <2>11
  <1> HIDE DEF t, u
  <1>7. PICK s : /\ s[0] = 0
                 /\ \A i \in Nat : i < m + 1 => s[i + 1] = s[i] + t[i]
                 /\ SumOf(t, m + 1) = s[m + 1]
    BY <1>1, SumSteps
  <1>8. PICK r : /\ r[0] = 0
                 /\ \A i \in Nat : i < m + 1 => r[i + 1] = r[i] + u[i]
                 /\ SumOf(u, m + 1) = r[m + 1]
    BY <1>1, SumSteps
  <1> DEFINE S == {k \in Nat : k <= m + 1 =>
                     s[k] \in Int /\ Congruent(r[k], s[k], x)}
  <1>9. 0 \in S
    <2>1. r[0] = s[0] + 0 * x
      BY <1>5, <1>7, <1>8
    <2> QED BY <1>7, <2>1 DEF Congruent
  <1>10. ASSUME NEW k \in Nat, k \in S PROVE k + 1 \in S
    <2> SUFFICES ASSUME k + 1 <= m + 1
                 PROVE  s[k + 1] \in Int /\ Congruent(r[k + 1], s[k + 1], x)
      OBVIOUS
    <2>1. k < m + 1 /\ k <= m + 1
      BY <1>1
    <2>2. s[k] \in Int
      BY <1>10, <2>1
    <2>3. PICK q \in Int : r[k] = s[k] + q * x
      BY <1>10, <2>1 DEF Congruent
    <2>4. t[k] \in Int
      BY <1>6, <2>1
    <2>5. PICK d \in Int : u[k] = t[k] + d * x
      BY <1>6, <2>1 DEF Congruent
    <2>6. s[k + 1] = s[k] + t[k] /\ r[k + 1] = r[k] + u[k]
      BY <1>7, <1>8, <2>1
    <2>7. (q + d) * x = q * x + d * x /\ q * x \in Int /\ d * x \in Int
      BY <1>5, Distributes
    <2>8. r[k + 1] = s[k + 1] + (q + d) * x
      BY <2>2, <2>3, <2>4, <2>5, <2>6, <2>7
    <2> QED BY <2>2, <2>4, <2>6, <2>8 DEF Congruent
  <1> HIDE DEF S
  <1>11. m + 1 \in S
    BY <1>1, <1>9, <1>10, Induction
  <1>12. s[m + 1] \in Int /\ Congruent(r[m + 1], s[m + 1], x)
    BY <1>1, <1>11 DEF S
  <1>13. r[m + 1] % x = s[m + 1] % x
    <2>1. PICK q \in Int : r[m + 1] = s[m + 1] + q * x
      BY <1>12 DEF Congruent
    <2> QED BY <1>5, <1>12, <2>1, ModShift
  <1> QED BY <1>2, <1>3, <1>4, <1>7, <1>8, <1>13

\* For buffers of any content, slices to any depth and all widths: a number that the
\* validator's reader accepted has the same value and takes as many bytes with the
\* unchecked reader of the interpreters (stream.h), so that the two never disagree on
\* an immediate or on where the next instruction is.
THEOREM UncheckedExact == StreamSpec => []UncheckedAgrees
  <1>1. ASSUME NInv
        PROVE  UncheckedAgrees
    <2>1. ASSUME NEW w \in WIDTHS, LastBytes(Inner, w) # {},
                 NEW n, n = Min(LastBytes(Inner, w))
          PROVE  /\ RawLen(Inner, w) = n
                 /\ RawSum(Inner, n, w) = Gathered(Inner, n, w)
                 /\ RawByte(Inner, n - 1) = ByteAt(Inner, n - 1)
                 /\ ~More(ByteAt(Inner, n - 1))
      <3>1. Ends(Inner, w, n - 1)
        BY <1>1, <2>1, StopsAtEnd
      <3>2. n \in Nat /\ (n - 1) + 1 = n
        <4>1. n \in 1..stream_remaining(Inner)
          BY <2>1, LastByteInside
        <4> QED BY <4>1
      <3>3. RawSum(Inner, n, w) = Gathered(Inner, n, w)
        BY <1>1, <3>1, <3>2, RawGathers
      <3>4. RawByte(Inner, n - 1) = ByteAt(Inner, n - 1)
        BY <1>1, <3>1, RawInside DEF Ends
      <3> QED BY <1>1, <2>1, <3>1, <3>3, <3>4, RawLength DEF Ends
    <2>2. ASSUME NEW w \in WIDTHS, ReadUnsigned(Inner, w).ok
          PROVE  ReadUnsignedUnchecked(Inner, w) = ReadUnsigned(Inner, w)
      <3>1. /\ LastBytes(Inner, w) # {}
            /\ ReadUnsigned(Inner, w) = LET n == Min(LastBytes(Inner, w))
                                        IN  Got(Gathered(Inner, n, w), n)
        BY <2>2, ErrNotOk DEF ReadUnsigned
      <3> QED BY <2>1, <3>1 DEF ReadUnsignedUnchecked
    <2>3. ASSUME NEW w \in WIDTHS, ReadSigned(Inner, w).ok
          PROVE  ReadSignedUnchecked(Inner, w) = ReadSigned(Inner, w)
      <3>1. PICK n : n = Min(LastBytes(Inner, w))
        OBVIOUS
      <3>2. /\ LastBytes(Inner, w) # {}
            /\ ReadSigned(Inner, w) =
                 Got(IF SignBit(ByteAt(Inner, n - 1)) THEN Extended(Gathered(Inner, n, w), n, w)
                     ELSE Gathered(Inner, n, w), n)
        BY <2>3, <3>1, ErrNotOk DEF ReadSigned
      <3> QED BY <2>1, <3>1, <3>2 DEF ReadSignedUnchecked
    <2> QED BY <1>1, <2>2, <2>3, RawSeven DEF UncheckedAgrees
  <1> QED BY <1>1, NestedInit, NestedStep, PTL DEF StreamSpec

----------------------------------------------------------------------------
(***************************************************************************)
(* The bounds checks of Access are exact for all widths: with the sizes    *)
(* of the tables within their limits, no sum of two or three operands      *)
(* reaches the width of an index.                                          *)
(***************************************************************************)
\* What the checks need to know of the sizes.
Sized ==
  /\ mem_size \in Nat
  /\ tab_size \in [Tables -> 0..TAB_MAX]

\* A sum below the width of an index is not cut.
LEMMA WideSmall ==
  ASSUME NEW n \in Nat, n < U64_RANGE
  PROVE  Wide(n) = n
  BY RangeAssumption DEF Wide

\* Widening makes a natural number of a word.
LEMMA WideNat ==
  ASSUME NEW n \in Nat
  PROVE  Wide(n) \in Nat
  BY RangeAssumption DEF Wide

\* The check of a range, for two operands.
LEMMA WithinExact ==
  ASSUME NEW x \in Word, NEW n \in Word, NEW len \in Nat
  PROVE  Within(Unsigned(x), Unsigned(n), len) <=> x + n <= len
  <1>1. x + n \in Nat /\ x + n < U64_RANGE
    BY RangeAssumption DEF Word
  <1> QED BY <1>1, WideSmall DEF Within, Unsigned

\* Base, offset and the size of what is loaded or stored.
LEMMA SizedLoads == Sized => LoadsExact
  <1> SUFFICES ASSUME Sized, NEW x \in Word, NEW y \in Word, NEW n \in OBJECTS
               PROVE  LoadOk(x, y, n) <=> x + y + n <= mem_size
    BY DEF LoadsExact
  <1>0. n \in 1..U32_RANGE
    BY SizesAssumption
  <1>1. x + y \in Nat /\ x + y < U64_RANGE
    BY RangeAssumption DEF Word
  <1>2. Address(x, y) = x + y
    BY <1>1, WideSmall DEF Address, Unsigned
  <1>3. x + y + n \in Nat /\ x + y + n < U64_RANGE
    BY <1>0, RangeAssumption DEF Word
  <1> QED BY <1>2, <1>3, WideSmall DEF LoadOk, Within

\* An index whose sign was widened is not below the size of a table, however long
\* the table is.
LEMMA SizedEntries == Sized => EntriesExact
  <1> SUFFICES ASSUME Sized, NEW t \in Tables, NEW x \in Word, NEW y \in Word
               PROVE  /\ TableAtOk(t, x) <=> x < tab_size[t]
                      /\ CallIndirectOk(t, x) <=> x < tab_size[t] /\ ~HasSign(x)
                      /\ ~HasSign(x) => (TableFillOk(t, x, y) <=> x + y <= tab_size[t])
    BY DEF EntriesExact
  <1>1. tab_size[t] \in Nat /\ tab_size[t] <= TAB_MAX
    BY SizesAssumption DEF Sized
  <1>2. TableAtOk(t, x) <=> x < tab_size[t]
    BY DEF TableAtOk, Unsigned
  <1>3. CallIndirectOk(t, x) <=> x < tab_size[t] /\ ~HasSign(x)
    <2>1. CASE HasSign(x)
      <3>1. Signed(x) = x + U64_RANGE - U32_RANGE
        BY <2>1 DEF Signed
      <3>2. ~(Signed(x) < tab_size[t])
        BY <1>1, <3>1, RangeAssumption, SizesAssumption DEF Word
      <3> QED BY <2>1, <3>2 DEF CallIndirectOk
    <2>2. CASE ~HasSign(x)
      BY <2>2 DEF CallIndirectOk, Signed
    <2> QED BY <2>1, <2>2
  <1>4. ASSUME ~HasSign(x)
        PROVE  TableFillOk(t, x, y) <=> x + y <= tab_size[t]
    <2>1. TableFillOk(t, x, y) <=> Within(Unsigned(x), Unsigned(y), tab_size[t])
      BY <1>4 DEF TableFillOk, Signed, Unsigned
    <2> QED BY <1>1, <2>1, WithinExact
  <1> QED BY <1>2, <1>3, <1>4

\* Copies and fills within the memory and between tables.
LEMMA SizedCopies == Sized => CopiesExact
  <1> SUFFICES ASSUME Sized, NEW x \in Word, NEW y \in Word, NEW n \in Word
               PROVE  /\ MemoryFillOk(x, n) <=> x + n <= mem_size
                      /\ MemoryCopyOk(x, y, n) <=> x + n <= mem_size /\ y + n <= mem_size
                      /\ \A t, u \in Tables :
                           TableCopyOk(t, u, x, y, n) <=>
                             x + n <= tab_size[t] /\ y + n <= tab_size[u]
    BY DEF CopiesExact
  <1>1. MemoryFillOk(x, n) <=> x + n <= mem_size
    BY WithinExact DEF Sized, MemoryFillOk
  <1>2. MemoryCopyOk(x, y, n) <=> x + n <= mem_size /\ y + n <= mem_size
    BY WithinExact DEF Sized, MemoryCopyOk, MemoryFillOk
  <1>3. ASSUME NEW t \in Tables, NEW u \in Tables
        PROVE  TableCopyOk(t, u, x, y, n) <=>
                 x + n <= tab_size[t] /\ y + n <= tab_size[u]
    <2>1. tab_size[t] \in Nat /\ tab_size[u] \in Nat
      BY SizesAssumption DEF Sized
    <2> QED BY <2>1, WithinExact DEF TableCopyOk
  <1> QED BY <1>1, <1>2, <1>3

\* Copies from a segment, which has nothing left once it is dropped.
LEMMA SizedInits == Sized => InitsExact
  <1> SUFFICES ASSUME Sized, NEW x \in Word, NEW y \in Word, NEW n \in Word, n > 0
               PROVE  /\ MemoryInitOk(x, y, n) <=>
                           x + n <= mem_size /\ y + n <= Left("data", DATA_LEN)
                      /\ \A t \in Tables :
                           TableInitOk(t, x, y, n) <=>
                             x + n <= tab_size[t] /\ y + n <= Left("elem", ELEM_LEN)
    BY DEF InitsExact
  <1>1. DATA_LEN \in Nat /\ ELEM_LEN \in Nat /\ ~(y + n <= 0)
    BY SizesAssumption DEF Word
  <1>2. MemoryInitOk(x, y, n) <=>
          x + n <= mem_size /\ y + n <= Left("data", DATA_LEN)
    <2>1. MemoryInitOk(x, y, n) <=>
            y + n <= DATA_LEN /\ x + n <= mem_size /\ "data" \notin gone
      BY <1>1, WithinExact DEF Sized, MemoryInitOk, MemoryFillOk
    <2> QED BY <1>1, <2>1 DEF Left
  <1>3. ASSUME NEW t \in Tables
        PROVE  TableInitOk(t, x, y, n) <=>
                 x + n <= tab_size[t] /\ y + n <= Left("elem", ELEM_LEN)
    <2>1. tab_size[t] \in Nat
      BY SizesAssumption DEF Sized
    <2>2. TableInitOk(t, x, y, n) <=>
            y + n <= ELEM_LEN /\ x + n <= tab_size[t] /\ "elem" \notin gone
      BY <1>1, <2>1, WithinExact DEF TableInitOk
    <2> QED BY <1>1, <2>2 DEF Left
  <1> QED BY <1>2, <1>3

----------------------------------------------------------------------------
\* Growing keeps the sizes within their limits.
LEMMA SizedStep == Sized /\ [AccessNext]_avars => Sized'
  <1> SUFFICES ASSUME Sized, [AccessNext]_avars PROVE Sized'
    OBVIOUS
  <1>1. CASE Instantiated
    BY <1>1, SizesAssumption DEF Instantiated, Sized
  <1>2. CASE MemoryGrow
    <2>1. PICK n_pages \in Word :
            mem_size' = Wide((mem_size \div PAGE + n_pages) * PAGE)
      BY <1>2 DEF MemoryGrow
    <2>2. mem_size \div PAGE \in Nat
      BY SizesAssumption DEF Sized
    <2>3. (mem_size \div PAGE + n_pages) * PAGE \in Nat
      BY <2>2, SizesAssumption DEF Word
    <2>4. tab_size' = tab_size
      BY <1>2 DEF MemoryGrow
    <2> QED BY <2>1, <2>3, <2>4, WideNat DEF Sized
  <1>3. CASE TableGrow
    <2>1. PICK t \in Tables, size \in Word :
            /\ Wide(tab_size[t] + size) <= TAB_MAX
            /\ tab_size' = [tab_size EXCEPT ![t] = Wide(@ + size)]
      BY <1>3 DEF TableGrow
    <2>2. tab_size[t] + size \in Nat
      BY SizesAssumption, RangeAssumption DEF Sized, Word
    <2>3. Wide(tab_size[t] + size) \in 0..TAB_MAX
      BY <2>1, <2>2, WideNat, SizesAssumption
    <2>4. mem_size' = mem_size
      BY <1>3 DEF TableGrow
    <2> QED BY <2>1, <2>3, <2>4 DEF Sized
  <1>4. CASE DataDrop \/ ElemDrop
    BY <1>4 DEF DataDrop, ElemDrop, Drop, Sized
  <1>5. CASE UNCHANGED avars
    BY <1>5 DEF avars, Sized
  <1> QED BY <1>1, <1>2, <1>3, <1>4, <1>5 DEF AccessNext

\* For every width, page size, limit and sequence of grows and drops, the memory
\* and table instructions of the interpreters go on exactly with the operands
\* that are in bounds: call_indirect of these with the ones that have no sign, and
\* table.fill, as far as its offset has none.
THEOREM BoundsExact == AccessSpec => []AccessExact
  <1>1. AccessInit => Sized
    BY SizesAssumption DEF AccessInit, Sized
  <1>2. Sized => AccessExact
    BY SizedLoads, SizedEntries, SizedCopies, SizedInits DEF AccessExact
  <1> QED BY <1>1, <1>2, SizedStep, PTL DEF AccessSpec
==============================================================================
