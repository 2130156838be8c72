--------------------------------- MODULE Vec ---------------------------------
(***************************************************************************)
(* The growing vectors of src/utils/vec.h and vec_impl.h: a sequence, the  *)
(* capacity of its allocation, and the flag that pins it.  A fixed vector  *)
(* keeps its allocation, so that pointers into it stay good, but still     *)
(* takes elements while there is room.  Allocations do not fail.           *)
(***************************************************************************)
EXTENDS Integers, Sequences, FiniteSetsExt

CONSTANT VEC_DEFAULT_CAPACITY

ASSUME CapacityAssumption == VEC_DEFAULT_CAPACITY \in Nat \ {0}

Vector(data, capacity, fixed) ==
  [data |-> data, capacity |-> capacity, fixed |-> fixed]

EmptyVec == Vector(<< >>, 0, FALSE)

\* v with other elements in the same place.
WithData(v, d) == Vector(d, v.capacity, v.fixed)

Vecs(S) == [data : Seq(S), capacity : Nat, fixed : BOOLEAN]

\* vec_is_valid, which every operation asserts.
HasRoom(v) == Len(v.data) <= v.capacity

\* Mutant: a full vector is written behind its end.
GrownNot(capacity, size) == capacity

\* The capacity after a push onto a vector of that capacity and size: a full
\* vector grows by half and one.
Grown(capacity, size) ==
  IF capacity > size THEN capacity
  ELSE IF capacity = 0 THEN VEC_DEFAULT_CAPACITY
  ELSE (capacity * 3) \div 2 + 1

\* All of s can be pushed.
CanPush(v, s) == ~v.fixed \/ Len(v.data) + Len(s) <= v.capacity

\* The capacities of a vector, capacity and size at first, while n elements are
\* pushed onto it.
Growth(capacity, size, n) ==
  LET grow[i \in 0..n] ==
        IF i = 0 THEN capacity ELSE Grown(grow[i - 1], size + i - 1)
  IN  grow

\* vec_push for each element of s.
vec_push_all(v, s) ==
  Vector(v.data \o s, Growth(v.capacity, Len(v.data), Len(s))[Len(s)], v.fixed)

\* Mutant: a fixed vector is allocated anew.
CanReserveAnyway(v) == TRUE

CanReserve(v) == ~v.fixed

\* vec_reserve and vec_set_fixed.
ReserveFixed(v, n) == Vector(v.data, Max({v.capacity, n}), TRUE)

\* vec_resize: shrinking forgets nothing but the size, growing adds zeros.
CanResize(v, n) == n <= v.capacity \/ ~v.fixed

vec_resize(v, n, zero) ==
  Vector([i \in 1..n |-> IF i \in DOMAIN v.data THEN v.data[i] ELSE zero],
         Max({v.capacity, n}), v.fixed)
=============================================================================
