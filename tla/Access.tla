------------------------------- MODULE Access -------------------------------
(***************************************************************************)
(* The bounds checks of the memory and table instructions of both builds   *)
(* of the in-place interpreter (src/interpreter/in_place_dt.c and          *)
(* in_place_tco.c), with the widths of their operands.                     *)
(*                                                                         *)
(* An operand is a 32-bit word; it is widened, by zeros or by its sign     *)
(* depending on the member of value_u that is read, and indices are added  *)
(* up in 64 bits.  Widths are scaled; a memory may have as many bytes as   *)
(* there are words.  What the instructions move is left out: only          *)
(* memory.grow, table.grow and the two drops change the state here.        *)
(***************************************************************************)
EXTENDS Integers, FiniteSets

CONSTANTS
  U32_RANGE,     \* how many operands there are (2^32)
  U64_RANGE,     \* how many indices (2^64)
  PAGE,          \* WASM_PAGE_SIZE
  MEM_MAX,       \* lim.max of the memory, in pages
  TAB_MAX,       \* lim.max of the tables, u32_MAX at most
  Tables,        \* the tables of the instance
  DATA_LEN,      \* bytes of the data segment
  ELEM_LEN,      \* entries of the element
  OBJECTS        \* sizes of the numbers in memory

ASSUME RangeAssumption ==
  U32_RANGE \in Nat \ {0, 1} /\ U64_RANGE \in Nat /\ U64_RANGE >= 4 * U32_RANGE
ASSUME SizesAssumption ==
  /\ PAGE \in Nat \ {0} /\ MEM_MAX \in Nat /\ MEM_MAX * PAGE <= U32_RANGE
  /\ TAB_MAX \in Nat /\ TAB_MAX < U32_RANGE
  /\ DATA_LEN \in Nat /\ ELEM_LEN \in Nat
  /\ OBJECTS \subseteq 1..U32_RANGE

VARIABLES
  running,    \* the instance exists and its code runs
  mem_size,   \* vec_size_u8(pmem0)
  tab_size,   \* of each table, vec_size_ref(&t_addr->tdata)
  gone        \* "data" and "elem", once dropped

avars == <<running, mem_size, tab_size, gone>>

Word == 0..(U32_RANGE - 1)

\* u64 arithmetic, and the two ways an operand becomes a u64 (u_u32, u_i32).
Wide(n) == n % U64_RANGE
HasSign(x) == x >= U32_RANGE \div 2
Unsigned(x) == x
Signed(x) == IF HasSign(x) THEN x + U64_RANGE - U32_RANGE ELSE x

\* (idx + n) > len is the error.
Within(idx, n, len) == Wide(idx + n) <= len

----------------------------------------------------------------------------
(***************************************************************************)
(* Which operands each instruction goes on with.                           *)
(***************************************************************************)

\* Mutant: the address is added up in the width of its operands.
AddressNarrow(base, offset) == (base + offset) % U32_RANGE

Address(base, offset) == Wide(Unsigned(base) + offset)

LoadOk(base, offset, n) == Within(Address(base, offset), n, mem_size)

MemoryFillOk(dst, size) == Within(Unsigned(dst), Unsigned(size), mem_size)

MemoryCopyOk(dst, src, size) ==
  MemoryFillOk(src, size) /\ MemoryFillOk(dst, size)

MemoryInitOk(dst, src, size) ==
  /\ Within(Unsigned(src), Unsigned(size), DATA_LEN) /\ MemoryFillOk(dst, size)
  /\ size > 0 => "data" \notin gone

\* table.get and table.set cut the index to u32; call_indirect widens its sign.
TableAtOk(t, i) == Unsigned(i) < tab_size[t]
CallIndirectOk(t, i) == Signed(i) < tab_size[t]

TableInitOk(t, dst, src, size) ==
  /\ Within(Unsigned(src), Unsigned(size), ELEM_LEN)
  /\ Within(Unsigned(dst), Unsigned(size), tab_size[t])
  /\ size > 0 => "elem" \notin gone

TableCopyOk(to, from, dst, src, size) ==
  /\ Within(Unsigned(src), Unsigned(size), tab_size[from])
  /\ Within(Unsigned(dst), Unsigned(size), tab_size[to])

TableFillOk(t, offset, size) == Within(Signed(offset), Unsigned(size), tab_size[t])

----------------------------------------------------------------------------
(***************************************************************************)
(* What changes a size or a segment.  A resize may also fail.              *)
(***************************************************************************)
MemoryGrow ==
  /\ running
  /\ \E n_pages \in Word :
       LET sz == mem_size \div PAGE
       IN  /\ Wide(sz + n_pages) <= MEM_MAX
           /\ mem_size' = Wide((sz + n_pages) * PAGE)
  /\ UNCHANGED <<running, tab_size, gone>>

TableGrow ==
  /\ running
  /\ \E t \in Tables, size \in Word :
       /\ Wide(tab_size[t] + size) <= TAB_MAX
       /\ tab_size' = [tab_size EXCEPT ![t] = Wide(@ + size)]
  /\ UNCHANGED <<running, mem_size, gone>>

Drop(seg) ==
  /\ running
  /\ gone' = gone \cup {seg}
  /\ UNCHANGED <<running, mem_size, tab_size>>

DataDrop == Drop("data")
ElemDrop == Drop("elem")

\* An instance comes to be, with sizes within its limits.
Instantiated ==
  /\ ~running /\ running' = TRUE
  /\ mem_size' \in {p * PAGE : p \in 0..MEM_MAX}
  /\ tab_size' \in [Tables -> 0..TAB_MAX]
  /\ UNCHANGED gone

AccessInit ==
  /\ running = FALSE
  /\ mem_size = 0 /\ tab_size = [t \in Tables |-> 0] /\ gone = {}

\* A trap leaves everything as it is.
AccessNext == Instantiated \/ MemoryGrow \/ TableGrow \/ DataDrop \/ ElemDrop

AccessSpec == AccessInit /\ [][AccessNext]_avars

----------------------------------------------------------------------------
\* What is left of a segment.
Left(seg, len) == IF seg \in gone THEN 0 ELSE len

LoadsExact ==
  \A x, y \in Word, n \in OBJECTS : LoadOk(x, y, n) <=> x + y + n <= mem_size

EntriesExact ==
  \A t \in Tables, x, y \in Word :
    /\ TableAtOk(t, x) <=> x < tab_size[t]
    /\ CallIndirectOk(t, x) <=> x < tab_size[t] /\ ~HasSign(x)
    /\ ~HasSign(x) => (TableFillOk(t, x, y) <=> x + y <= tab_size[t])

CopiesExact ==
  \A x, y, n \in Word :
    /\ MemoryFillOk(x, n) <=> x + n <= mem_size
    /\ MemoryCopyOk(x, y, n) <=> x + n <= mem_size /\ y + n <= mem_size
    /\ \A t, u \in Tables :
         TableCopyOk(t, u, x, y, n) <=> x + n <= tab_size[t] /\ y + n <= tab_size[u]

InitsExact ==
  \A x, y, n \in Word : n > 0 =>
    /\ MemoryInitOk(x, y, n) <=>
         x + n <= mem_size /\ y + n <= Left("data", DATA_LEN)
    /\ \A t \in Tables :
         TableInitOk(t, x, y, n) <=>
           x + n <= tab_size[t] /\ y + n <= Left("elem", ELEM_LEN)

(***************************************************************************)
(* An instruction goes on exactly when what it reads and writes lies in    *)
(* the memory, the tables and the segments, for unsigned operands and      *)
(* without any width: nothing wraps around, a memory of 2^32 bytes         *)
(* included, and nothing is copied from a segment that was dropped.        *)
(* Two of them read an index through the signed member.  call_indirect     *)
(* goes on only with entries of the lower half of the words: in a table    *)
(* that is longer it refuses entries that are there, and never takes one   *)
(* that is not.  table.fill is included for offsets that have no sign.     *)
(***************************************************************************)
AccessExact ==
  running => LoadsExact /\ EntriesExact /\ CopiesExact /\ InitsExact

\* vec.h of vec_at, which table.fill calls for each entry: "You should always
\* check the vector _size before calling it."
FillChecksSize ==
  running => \A t \in Tables, offset, size \in Word :
    TableFillOk(t, offset, size) =>
      \A i \in 0..(size - 1) : Wide(Signed(offset) + i) < tab_size[t]
=============================================================================
