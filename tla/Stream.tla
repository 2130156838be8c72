------------------------------- MODULE Stream -------------------------------
(***************************************************************************)
(* Byte streams and the readers of LEB128 numbers (src/utils/stream.h).    *)
(*                                                                         *)
(* The parser cuts the buffer into slices of slices (sections, bodies,     *)
(* names) and reads the innermost; what it has checked once is read again  *)
(* by the interpreters with readers that check nothing.                    *)
(*                                                                         *)
(* Widths are scaled: a byte is a continuation bit and GROUP bits of       *)
(* payload (7 in the code), a number has a width of WIDTHS bits (32 and 64 *)
(* in the code, of which 4 and 1 are in the last byte).                    *)
(***************************************************************************)
EXTENDS Integers, Sequences, FiniteSetsExt

CONSTANTS
  GROUP,      \* bits of payload in a byte
  WIDTHS,     \* bits of the numbers
  BufferLen,  \* Bound: bytes of the buffer
  Depth       \* Bound: slices inside each other

ASSUME GroupAssumption == GROUP \in Nat \ {0, 1}
ASSUME WidthsAssumption == \A w \in WIDTHS : w \in Nat /\ w > GROUP /\ w % GROUP # 0

VARIABLES
  buffer,    \* the bytes
  streams    \* [ptr, len, p], the whole buffer first, the innermost slice last

\* 1 << n.
Pow2(n) ==
  LET p[i \in 0..n] == IF i = 0 THEN 1 ELSE 2 * p[i - 1]
  IN  p[n]

\* The sum of f[0], ..., f[n - 1].
SumOf(f, n) ==
  LET sum[i \in 0..n] == IF i = 0 THEN 0 ELSE sum[i - 1] + f[i - 1]
  IN  sum[n]

Byte == 0..(2 * Pow2(GROUP) - 1)

More(b)     == b >= Pow2(GROUP)          \* b & 0x80
Payload(b)  == b % Pow2(GROUP)           \* b & 0x7f
SignBit(b)  == Payload(b) >= Pow2(GROUP - 1)   \* b & 0x40

Stream(ptr, len, p) == [ptr |-> ptr, len |-> len, p |-> p]
Inner == streams[Len(streams)]

stream_is_valid(st)  == st.p >= st.ptr /\ st.ptr + st.len >= st.p
stream_remaining(st) == st.ptr + st.len - st.p

\* The byte i behind the cursor (0 is the one at it).
ByteAt(st, i) == buffer[st.p + i + 1]

\* What a reader gives back: whether it read, the value and the bytes it took.
Got(val, n) == [ok |-> TRUE, val |-> val, n |-> n]
Err == [ok |-> FALSE]

----------------------------------------------------------------------------
(***************************************************************************)
(* The checked readers.                                                    *)
(***************************************************************************)
LEB_MAX_LEN(w) == (w - 1) \div GROUP + 1
LastBits(w) == w % GROUP   \* of the number, in a last byte of the greatest length

\* The bytes that the loop of a reader may stop at.
LastBytes(st, w) ==
  {n \in 1..LEB_MAX_LEN(w) : n <= stream_remaining(st) /\ ~More(ByteAt(st, n - 1))}

\* The payload of the first n bytes, cut to w bits.
Gathered(st, n, w) ==
  SumOf([i \in 0..(n - 1) |-> Payload(ByteAt(st, i)) * Pow2(GROUP * i)], n) % Pow2(w)

\* The bits of the last byte that are beyond the width have to be zero.
UnsignedEnd(b, w) == b \div Pow2(LastBits(w)) = 0

\* Mutant: the sign bit is not compared with the bits beyond the width.
SignedEndLoose(b, w) ==
  IF SignBit(b) THEN b \div Pow2(LastBits(w)) = Pow2(GROUP - LastBits(w)) - 1
                ELSE b \div Pow2(LastBits(w)) = 0

\* They and the sign bit have to be equal in a signed number.
SignedEnd(b, w) ==
  LET high == b \div Pow2(LastBits(w) - 1)
  IN  IF SignBit(b) THEN high = Pow2(GROUP - LastBits(w) + 1) - 1 ELSE high = 0

\* Sign extension from the bits of n bytes, in w bits.
Extended(val, n, w) ==
  IF GROUP * n < w THEN val + Pow2(w) - Pow2(GROUP * n) ELSE val

ReadUnsigned(st, w) ==
  LET n == Min(LastBytes(st, w))
      b == ByteAt(st, n - 1)
  IN  IF LastBytes(st, w) = {} \/ (n = LEB_MAX_LEN(w) /\ ~UnsignedEnd(b, w)) THEN Err
      ELSE Got(Gathered(st, n, w), n)

ReadSigned(st, w) ==
  LET n == Min(LastBytes(st, w))
      b == ByteAt(st, n - 1)
      v == Gathered(st, n, w)
  IN  IF LastBytes(st, w) = {} \/ (n = LEB_MAX_LEN(w) /\ ~SignedEnd(b, w)) THEN Err
      ELSE Got(IF SignBit(b) THEN Extended(v, n, w) ELSE v, n)

\* vu7 and vi7: one byte without a continuation bit.
ReadSeven(st, signed) ==
  IF stream_remaining(st) < 1 \/ More(ByteAt(st, 0)) THEN Err
  ELSE LET b == ByteAt(st, 0)
       IN  Got(IF signed /\ SignBit(b) THEN b + Pow2(GROUP) ELSE b, 1)

\* u8, u32 and the floats: a number of bytes.
ReadBytes(st, n) == IF stream_remaining(st) < n THEN Err ELSE Got(0, n)

(***************************************************************************)
(* The unchecked readers, unrolled in the code.  They add whole bytes and  *)
(* take the continuation bits off again, and go on to the last byte that   *)
(* the width allows whatever they find.  A byte behind the buffer may be   *)
(* any; it is read as one that ends the number.                            *)
(***************************************************************************)
RawByte(st, i) == IF st.p + i < Len(buffer) THEN ByteAt(st, i) ELSE 0

RawLen(st, w) ==
  Min({n \in 1..LEB_MAX_LEN(w) : ~More(RawByte(st, n - 1))} \cup {LEB_MAX_LEN(w)})

RawSum(st, n, w) ==
  SumOf([i \in 0..(n - 1) |->
           ((RawByte(st, i) * Pow2(GROUP * i)) % Pow2(w))
           + (IF i < n - 1 THEN Pow2(w) - (Pow2(GROUP * (i + 1)) % Pow2(w)) ELSE 0)], n)
  % Pow2(w)

ReadUnsignedUnchecked(st, w) == Got(RawSum(st, RawLen(st, w), w), RawLen(st, w))

\* Mutant: a number of the greatest length is extended like one that goes on.
ReadSignedUncheckedLast(st, w) ==
  LET n == RawLen(st, w)
      v == RawSum(st, n, w)
  IN  Got(IF ~SignBit(RawByte(st, n - 1)) THEN v
          ELSE IF n = LEB_MAX_LEN(w) THEN Pow2(w) - 1
          ELSE Extended(v, n, w), n)

\* A number that goes on behind its last byte is extended from bit 0.
ReadSignedUnchecked(st, w) ==
  LET n == RawLen(st, w)
      v == RawSum(st, n, w)
      b == RawByte(st, n - 1)
  IN  Got(IF ~SignBit(b) THEN v
          ELSE IF More(b) THEN Pow2(w) - 1
          ELSE Extended(v, n, w), n)

ReadSevenUnchecked(st) ==
  LET b == RawByte(st, 0)
  IN  Got(IF SignBit(b) /\ ~More(b) THEN b + Pow2(GROUP) ELSE b, 1)

----------------------------------------------------------------------------
(***************************************************************************)
(* Reading the innermost slice.  A reader that fails leaves it as it was.  *)
(***************************************************************************)
Forward(st, n) == Stream(st.ptr, st.len, st.p + n)

Moved(n) == streams' = [streams EXCEPT ![Len(streams)] = Forward(@, n)]

Take(got) ==
  /\ got.ok
  /\ Moved(got.n)
  /\ UNCHANGED buffer

ReadNumber ==
  \E w \in WIDTHS : Take(ReadUnsigned(Inner, w)) \/ Take(ReadSigned(Inner, w))

\* A small number, a byte or a float.
ReadByte ==
  \/ Take(ReadSeven(Inner, FALSE)) \/ Take(ReadSeven(Inner, TRUE))
  \/ \E n \in {1, 2} : Take(ReadBytes(Inner, n))

\* stream_seek, forward or backward.
CanSeek(st, len) == st.p + len >= st.ptr /\ st.p + len <= st.ptr + st.len

stream_seek ==
  /\ \E len \in (-1)..BufferLen : CanSeek(Inner, len) /\ Moved(len)
  /\ UNCHANGED buffer

\* Mutant: a slice is copied and not taken from the stream.
AfterSliceCopied(st, size) == st

AfterSlice(st, size) == Forward(st, size)

\* stream_slice; the callers are expected not to ask for no bytes.
stream_slice ==
  /\ Len(streams) < Depth
  /\ \E size \in 1..stream_remaining(Inner) :
       streams' = Append([streams EXCEPT ![Len(streams)] = AfterSlice(@, size)],
                         Stream(Inner.p, size, Inner.p))
  /\ UNCHANGED buffer

\* The reader of the slice is done; the parser goes on behind it.
Done ==
  /\ Len(streams) > 1
  /\ streams' = SubSeq(streams, 1, Len(streams) - 1)
  /\ UNCHANGED buffer

\* stream_from on bytes of any content.
StreamInit ==
  /\ buffer \in UNION {[1..n -> Byte] : n \in 0..BufferLen}
  /\ streams = <<Stream(0, Len(buffer), 0)>>

StreamNext == ReadNumber \/ ReadByte \/ stream_seek \/ stream_slice \/ Done

svars == <<buffer, streams>>

StreamSpec == StreamInit /\ [][StreamNext]_svars

----------------------------------------------------------------------------
(***************************************************************************)
(* The numbers as the WebAssembly specification defines them: a byte that  *)
(* goes on is followed by a number of GROUP bits less.  A signed one is    *)
(* given modulo 2^width.                                                   *)
(***************************************************************************)
SpecUnsigned(st, w) ==
  LET U[i \in 0..w] ==   \* the number of v bits at byte i
        LET b == ByteAt(st, i)
            v == w - GROUP * i
        IN  IF stream_remaining(st) <= i THEN Err
            ELSE IF ~More(b) THEN IF v >= GROUP \/ b < Pow2(v) THEN Got(b, 1) ELSE Err
            ELSE IF v <= GROUP \/ ~U[i + 1].ok THEN Err
            ELSE Got(Pow2(GROUP) * U[i + 1].val + b - Pow2(GROUP), U[i + 1].n + 1)
  IN  U[0]

SpecSigned(st, w) ==
  LET S[i \in 0..w] ==
        LET b == ByteAt(st, i)
            v == w - GROUP * i
        IN  IF stream_remaining(st) <= i THEN Err
            ELSE IF b < Pow2(GROUP - 1)
              THEN IF v > GROUP \/ b < Pow2(v - 1) THEN Got(b, 1) ELSE Err
            ELSE IF ~More(b)
              THEN IF v > GROUP \/ b >= Pow2(GROUP) - Pow2(v - 1)
                     THEN Got(b - Pow2(GROUP), 1) ELSE Err
            ELSE IF v <= GROUP \/ ~S[i + 1].ok THEN Err
            ELSE Got(Pow2(GROUP) * S[i + 1].val + b - Pow2(GROUP), S[i + 1].n + 1)
  IN  IF S[0].ok THEN Got(S[0].val % Pow2(w), S[0].n) ELSE Err

(***************************************************************************)
(* At any place of any slice the checked readers accept what the           *)
(* WebAssembly specification does, with its value and its length: numbers  *)
(* that are too wide, too long or cut off by the slice are refused.        *)
(***************************************************************************)
LebExact ==
  \A w \in WIDTHS :
    /\ ReadUnsigned(Inner, w) = SpecUnsigned(Inner, w)
    /\ ReadSigned(Inner, w) = SpecSigned(Inner, w)

(***************************************************************************)
(* The interpreters read with the unchecked readers what the validator has *)
(* read with the checked ones: a number that was accepted has the same     *)
(* value and takes the same bytes, so that decoder and interpreter never   *)
(* disagree on where the next instruction is.                              *)
(***************************************************************************)
UncheckedAgrees ==
  /\ ReadSeven(Inner, TRUE).ok => ReadSevenUnchecked(Inner) = ReadSeven(Inner, TRUE)
  /\ \A w \in WIDTHS :
       /\ ReadUnsigned(Inner, w).ok =>
            ReadUnsignedUnchecked(Inner, w) = ReadUnsigned(Inner, w)
       /\ ReadSigned(Inner, w).ok =>
            ReadSignedUnchecked(Inner, w) = ReadSigned(Inner, w)

(***************************************************************************)
(* No cursor leaves its slice (stream_is_valid, which every reader         *)
(* asserts), and every open slice lies between the start of the one it was *)
(* cut from and that one's cursor: as long as a slice is open, its bytes   *)
(* are not read through the stream that it was cut from.                   *)
(***************************************************************************)
SlicesNested ==
  /\ \A i \in DOMAIN streams :
       /\ stream_is_valid(streams[i])
       /\ streams[i].ptr + streams[i].len <= Len(buffer)
  /\ \A i \in 1..(Len(streams) - 1) :
       /\ streams[i].ptr <= streams[i + 1].ptr
       /\ streams[i + 1].ptr + streams[i + 1].len <= streams[i].p
=============================================================================
