---------------------------- MODULE MemoryProofs ----------------------------
(***************************************************************************)
(* Theorems about the memory pool, for every alignment, every page size    *)
(* that is a multiple of it and every limit of the mapping; and about the  *)
(* pointer arrays in it, for any number of arrays, items and other users   *)
(* of the pool; as long as no requested size is so large that the          *)
(* arithmetic of addresses wraps around.                                   *)
(***************************************************************************)
EXTENDS PtrArray, Integers, SequenceTheorems, TLAPS

\* The sizes for which the address arithmetic does not wrap.
NoWrap == \A n \in Sizes : Base + MaxLen + n + PageSize + Align < Top

----------------------------------------------------------------------------
(* Multiples and rounding. *)

\* Integer division rounds down.
LEMMA Division ==
  ASSUME NEW x \in Nat, NEW a \in Nat \ {0}
  PROVE  /\ x \div a \in Nat
         /\ (x \div a) * a <= x /\ x < (x \div a) * a + a
<1>1. x \div a \in Nat
  OBVIOUS
<1>2. (x \div a) * a <= x
  BY SMTT(30)
<1>3. x < (x \div a) * a + a
  BY SMTT(30)
<1> QED
  BY <1>1, <1>2, <1>3

\* Multiplication by a natural number is monotonic.
LEMMA Monotonic ==
  ASSUME NEW p \in Nat, NEW q \in Nat, NEW a \in Nat, p <= q
  PROVE  p * a <= q * a /\ p * a \in Nat
OBVIOUS

\* A product is a multiple of its positive factor.
LEMMA ProductIsMultiple ==
  ASSUME NEW k \in Nat, NEW a \in Nat \ {0}
  PROVE  k * a \in Nat /\ IsMultiple(k * a, a)
<1>1. k * a \in Nat /\ k <= k * a
  OBVIOUS
<1>2. k \in 0..(k * a)
  BY <1>1
<1> QED
  BY <1>1, <1>2 DEF IsMultiple

\* Sums of multiples are multiples.
LEMMA SumIsMultiple ==
  ASSUME NEW x \in Nat, NEW y \in Nat, NEW a \in Nat \ {0},
         IsMultiple(x, a), IsMultiple(y, a)
  PROVE  IsMultiple(x + y, a)
<1>1. PICK k \in 0..x : x = k * a
  BY DEF IsMultiple
<1>2. PICK l \in 0..y : y = l * a
  BY DEF IsMultiple
<1>3. k + l \in Nat /\ x + y = (k + l) * a
  BY <1>1, <1>2
<1> QED
  BY <1>3, ProductIsMultiple

\* A multiple of a multiple is a multiple.
LEMMA MultipleIsTransitive ==
  ASSUME NEW x \in Nat, NEW y \in Nat, NEW a \in Nat \ {0},
         IsMultiple(x, y), IsMultiple(y, a)
  PROVE  IsMultiple(x, a)
<1>1. PICK k \in 0..x : x = k * y
  BY DEF IsMultiple
<1>2. PICK l \in 0..y : y = l * a
  BY DEF IsMultiple
<1>3. k * l \in Nat /\ x = (k * l) * a
  BY <1>1, <1>2
<1> QED
  BY <1>3, ProductIsMultiple

\* RoundUp is the least multiple that is not smaller.
LEMMA Rounding ==
  ASSUME NEW x \in Nat, NEW a \in Nat \ {0}
  PROVE  /\ RoundUp(x, a) \in Nat
         /\ x <= RoundUp(x, a) /\ RoundUp(x, a) < x + a
         /\ IsMultiple(RoundUp(x, a), a)
         /\ \A m \in Nat : x <= m /\ IsMultiple(m, a) => RoundUp(x, a) <= m
<1> DEFINE y == x + (a - 1)
           q == y \div a
<1>1. y \in Nat
  OBVIOUS
<1>2. q \in Nat /\ q * a <= y /\ y < q * a + a
  BY <1>1, Division
<1>3. q * a \in Nat /\ IsMultiple(q * a, a)
  BY <1>2, ProductIsMultiple
<1>4. x <= q * a /\ q * a < x + a
  BY <1>2, <1>3
<1>5. ASSUME NEW m \in Nat, x <= m, IsMultiple(m, a)
      PROVE  q * a <= m
  <2>1. PICK k \in 0..m : m = k * a
    BY <1>5 DEF IsMultiple
  <2>2. CASE q <= k
    BY <1>2, <2>1, <2>2, Monotonic
  <2>3. CASE k + 1 <= q
    <3>1. (k + 1) * a <= q * a
      BY <1>2, <2>1, <2>3, Monotonic
    <3>2. (k + 1) * a = m + a
      BY <2>1
    <3> QED
      BY <1>3, <1>4, <1>5, <3>1, <3>2
  <2> QED
    BY <1>2, <2>1, <2>2, <2>3
<1>6. RoundUp(x, a) = q * a
  BY DEF RoundUp
<1> HIDE DEF q
<1> QED
  BY <1>3, <1>4, <1>5, <1>6

----------------------------------------------------------------------------
(* The inductive invariant. *)

\* The mapping is a whole number of pages and the next block is cut from
\* inside it or from its end.
MappingInv ==
  mapped => /\ len <= MaxLen /\ IsMultiple(len, PageSize)
            /\ Base <= next /\ next <= End

PoolInv ==
  /\ TypeOK /\ MappingInv /\ BlocksPlaced /\ BlocksDisjoint
  /\ ~mapped => blocks = {}

LEMMA PoolInitInv == Init => PoolInv
<1> SUFFICES ASSUME Init PROVE PoolInv
  OBVIOUS
<1>1. ~mapped /\ blocks = {}
  BY DEF Init
<1>2. TypeOK
  BY PageAssumption DEF Init, TypeOK
<1>3. MappingInv
  BY <1>1 DEF MappingInv
<1>4. BlocksPlaced /\ BlocksDisjoint
  BY <1>1 DEF BlocksPlaced, BlocksDisjoint
<1> QED
  BY <1>1, <1>2, <1>3, <1>4 DEF PoolInv

\* The place the next block is cut from is aligned and inside the mapping.
LEMMA AtFacts ==
  ASSUME PoolInv, mapped
  PROVE  /\ At \in Nat /\ IsMultiple(At, Align)
         /\ Base <= next /\ next <= At /\ At <= End
<1>0. next \in Nat /\ len \in Nat /\ Base \in Nat /\ Align \in Nat \ {0}
      /\ Base <= next /\ next <= End /\ IsMultiple(len, PageSize)
  BY PageAssumption DEF PoolInv, TypeOK, MappingInv
<1>1. IsMultiple(len, Align)
  BY <1>0, PageAssumption, MultipleIsTransitive
<1>2. End \in Nat /\ IsMultiple(End, Align)
  BY <1>0, <1>1, PageAssumption, SumIsMultiple DEF End
<1> QED
  BY <1>0, <1>2, Rounding DEF At

\* A block that is taken lies in the mapping, which is grown if need be.
LEMMA TakenFits ==
  ASSUME NoWrap, PoolInv, mapped, NEW n \in Sizes, Grows(n)
  PROVE  /\ n \in Nat /\ (At + n) % Top = At + n
         /\ len' \in Nat /\ len' <= MaxLen /\ IsMultiple(len', PageSize)
         /\ len <= len' /\ At + n <= Base + len'
<1>0. /\ n \in Nat /\ Base \in Nat /\ PageSize \in Nat \ {0}
      /\ Align \in Nat /\ MaxLen \in Nat /\ Top \in Nat
      /\ Base + MaxLen + n + PageSize + Align < Top
      /\ len \in Nat /\ len <= MaxLen /\ IsMultiple(len, PageSize)
  BY PageAssumption, SizeAssumption DEF NoWrap, PoolInv, TypeOK, MappingInv
<1>1. At \in Nat /\ At <= Base + len
  BY AtFacts DEF End
<1>2. ASSUME NEW x \in Nat, x < Top PROVE x % Top = x
  BY <1>0, <1>2
<1>3. (At + n) % Top = At + n
  BY <1>0, <1>1, <1>2
<1>4. CASE Fits(n)
  <2>1. At + n <= Base + len /\ len' = len
    BY <1>3, <1>4 DEF Fits, Grows, End
  <2> QED
    BY <1>0, <1>3, <2>1
<1>5. CASE ~Fits(n)
  <2>1. len' = NewLen(n) /\ NewLen(n) \in 1..MaxLen
    BY <1>5 DEF Grows
  <2>2. (len + n) % Top = len + n
    BY <1>0, <1>2
  <2>3. RoundUp(len + n, PageSize) \in Nat
        /\ len + n <= RoundUp(len + n, PageSize)
        /\ RoundUp(len + n, PageSize) < len + n + PageSize
        /\ IsMultiple(RoundUp(len + n, PageSize), PageSize)
    <3>1. len + n \in Nat
      BY <1>0
    <3> QED
      BY <1>0, <3>1, Rounding
  <2>4. RoundUp(len + n, PageSize) % Top = RoundUp(len + n, PageSize)
    BY <1>0, <1>2, <2>3
  <2>5. len' = RoundUp(len + n, PageSize) /\ len' <= MaxLen
    BY <1>0, <2>1, <2>2, <2>4 DEF NewLen
  <2> QED
    BY <1>0, <1>1, <1>3, <2>3, <2>5
<1> QED
  BY <1>4, <1>5

\* Taking a block keeps the invariant: it begins where all others end.
LEMMA TakeStep ==
  ASSUME NoWrap, PoolInv, mapped, mapped' = mapped, NEW n \in Sizes,
         Grows(n), Takes(n), copied' \subseteq [len : Nat, room : Nat]
  PROVE  PoolInv'
<1>0. TypeOK /\ BlocksPlaced /\ BlocksDisjoint /\ Base \in Nat
  BY PageAssumption DEF PoolInv
<1>1. /\ At \in Nat /\ IsMultiple(At, Align)
      /\ Base <= next /\ next <= At /\ next \in Nat
  BY AtFacts DEF PoolInv, TypeOK
<1>2. /\ n \in Nat
      /\ len' \in Nat /\ len' <= MaxLen /\ IsMultiple(len', PageSize)
      /\ At + n <= Base + len'
      /\ next' = At + n
  BY TakenFits DEF Takes
<1>3. blocks' = blocks \cup {[lo |-> At, len |-> n]} /\ result' = "ok"
  BY DEF Takes
<1>4. \A b \in blocks : /\ b.lo \in Nat /\ b.len \in Nat
                         /\ b.lo + b.len <= next
                         /\ Base <= b.lo /\ IsMultiple(b.lo, Align)
  BY <1>0 DEF TypeOK, Block, BlocksPlaced
<1>5. TypeOK'
  BY <1>0, <1>1, <1>2, <1>3 DEF TypeOK, Block
<1>6. next \in Nat /\ next <= next' /\ next' \in Nat
      /\ Base <= next' /\ next' <= Base + len'
  <2> DEFINE l == len'
  <2>1. At \in Nat /\ next \in Nat /\ n \in Nat /\ l \in Nat
    BY <1>1, <1>2
  <2>2. Base \in Nat /\ Base <= next /\ next <= At
    BY <1>0, <1>1
  <2>3. next' = At + n /\ At + n <= Base + l
    BY <1>2
  <2> HIDE DEF l
  <2>4. next <= At + n /\ At + n \in Nat /\ Base <= At + n
    BY <2>1, <2>2
  <2> QED
    BY <2>1, <2>2, <2>3, <2>4 DEF l
<1>9. MappingInv'
  BY <1>2, <1>6 DEF MappingInv, End
<1>7. BlocksPlaced'
  <2> SUFFICES ASSUME NEW b \in blocks'
               PROVE  /\ IsMultiple(b.lo, Align) /\ Base <= b.lo
                      /\ b.lo + b.len <= next' /\ next' <= Base + len'
    BY DEF BlocksPlaced, End
  <2>1. CASE b \in blocks
    <3>1. b.lo \in Nat /\ b.len \in Nat /\ b.lo + b.len <= next
          /\ Base <= b.lo /\ IsMultiple(b.lo, Align)
      BY <1>4, <2>1
    <3>2. b.lo + b.len <= next'
      BY <1>6, <3>1
    <3> QED
      BY <1>6, <3>1, <3>2
  <2>2. CASE b = [lo |-> At, len |-> n]
    <3>1. b.lo = At /\ b.len = n
      BY <2>2
    <3>2. Base <= At
      BY <1>0, <1>1
    <3>3. At + n <= next'
      BY <1>1, <1>2, <1>6
    <3> QED
      BY <1>1, <1>6, <3>1, <3>2, <3>3
  <2> QED
    BY <1>3, <2>1, <2>2
<1>8. BlocksDisjoint'
  BY <1>0, <1>1, <1>3, <1>4 DEF BlocksDisjoint
<1> QED
  BY <1>5, <1>7, <1>8, <1>9 DEF PoolInv

LEMMA PoolStep ==
  ASSUME NoWrap
  PROVE  PoolInv /\ [Next]_vars => PoolInv'
<1> SUFFICES ASSUME PoolInv, [Next]_vars PROVE PoolInv'
  OBVIOUS
<1>0. TypeOK /\ MappingInv /\ BlocksPlaced /\ BlocksDisjoint
      /\ (~mapped => blocks = {}) /\ Base \in Nat /\ PageSize \in Nat \ {0}
  BY PageAssumption DEF PoolInv
<1>1. ASSUME NEW n \in InitialSizes, PoolInit(n) PROVE PoolInv'
  <2>1. RoundUp(n, PageSize) \in Nat
        /\ IsMultiple(RoundUp(n, PageSize), PageSize)
    BY <1>0, SizeAssumption, Rounding
  <2>2. blocks = {} /\ blocks' = {} /\ copied' = copied
        /\ len' = RoundUp(n, PageSize) /\ result' \in {"ok", "nomem"}
        /\ mapped' \in BOOLEAN
        /\ (mapped' => next' = Base /\ len' <= MaxLen)
        /\ next' \in {next, Base}
    <3>1. /\ ~mapped /\ blocks' = blocks /\ copied' = copied
          /\ len' = RoundUp(n, PageSize)
      BY <1>1 DEF PoolInit
    <3>2. CASE /\ len' \in 1..MaxLen
               /\ mapped' = TRUE /\ next' = Base /\ result' = "ok"
      BY <1>0, <3>1, <3>2, SizeAssumption
    <3>3. CASE result' = "nomem" /\ mapped' = mapped /\ next' = next
      <4>1. mapped' = FALSE
        BY <1>0, <3>1, <3>3 DEF TypeOK
      <4>2. blocks = {} /\ next' \in {next, Base}
        BY <1>0, <3>1, <3>3
      <4> QED
        BY <3>1, <3>3, <4>1, <4>2
    <3> QED
      BY <1>1, <3>2, <3>3 DEF PoolInit
  <2>3. TypeOK'
    <3>1. next' \in Nat /\ len' \in Nat
      BY <1>0, <2>1, <2>2 DEF TypeOK
    <3>2. /\ blocks' \subseteq Block
          /\ copied' \subseteq [len : Nat, room : Nat]
      BY <1>0, <2>2 DEF TypeOK
    <3> QED
      BY <2>2, <3>1, <3>2 DEF TypeOK
  <2>4. MappingInv'
    <3> SUFFICES ASSUME mapped'
                 PROVE  /\ len' <= MaxLen /\ IsMultiple(len', PageSize)
                        /\ Base <= next' /\ next' <= Base + len'
      BY DEF MappingInv, End
    <3>1. next' = Base /\ len' <= MaxLen /\ len' \in Nat
          /\ IsMultiple(len', PageSize)
      BY <2>1, <2>2
    <3>2. Base <= next' /\ next' <= Base + len'
      <4> DEFINE l == len'
      <4>1. Base \in Nat /\ next' = Base /\ l \in Nat
        BY <1>0, <3>1
      <4> HIDE DEF l
      <4>2. Base <= Base /\ Base <= Base + l
        BY <4>1
      <4>3. next' = Base
        BY <4>1
      <4> QED
        BY <4>2, <4>3, Zenon DEF l
    <3> QED
      BY <3>1, <3>2
  <2>5. BlocksPlaced' /\ BlocksDisjoint'
    BY <2>2 DEF BlocksPlaced, BlocksDisjoint
  <2> QED
    BY <2>2, <2>3, <2>4, <2>5 DEF PoolInv
<1>2. CASE PoolUninit
  BY <1>0, <1>2 DEF PoolUninit, PoolInv, TypeOK, MappingInv, BlocksPlaced,
                    BlocksDisjoint, End
<1>3. CASE PoolReset
  BY <1>0, <1>3 DEF PoolReset, PoolInv, TypeOK, MappingInv, BlocksPlaced,
                    BlocksDisjoint, End
<1>4. ASSUME NEW n \in Sizes, Alloc(n) PROVE PoolInv'
  BY <1>4, TakeStep DEF Alloc
<1>5. ASSUME NEW n \in Sizes, AllocFails(n) PROVE PoolInv'
  BY <1>0, <1>5 DEF AllocFails, PoolInv, TypeOK, MappingInv, BlocksPlaced,
                    BlocksDisjoint, End
<1>6. ASSUME NEW b \in blocks, NEW l \in 0..b.len, ReallocLast(b.lo, l)
      PROVE  PoolInv'
  BY <1>0, <1>6 DEF ReallocLast, PoolInv, TypeOK, MappingInv, BlocksPlaced,
                    BlocksDisjoint, End
<1>7. ASSUME NEW b \in blocks, NEW l \in 0..b.len, NEW n \in Sizes,
             Realloc(b.lo, l, n)
      PROVE  PoolInv'
  <2>0. l \in Nat /\ n \in Nat
    BY <1>0, SizeAssumption DEF TypeOK, Block
  <2>1. copied' \subseteq [len : Nat, room : Nat]
    BY <1>7, <2>0 DEF Realloc
  <2> QED
    BY <1>7, <2>1, TakeStep DEF Realloc
<1>8. CASE UNCHANGED vars
  BY <1>0, <1>8 DEF vars, PoolInv, TypeOK, MappingInv, BlocksPlaced,
                    BlocksDisjoint, End
<1> QED
  BY <1>1, <1>2, <1>3, <1>4, <1>5, <1>6, <1>7, <1>8 DEF Next

\* The pool's state and the blocks it hands out have their types: no address
\* and no size is ever outside the naturals.
THEOREM PoolTypesHold ==
  ASSUME NoWrap
  PROVE  Spec => []TypeOK
<1>1. PoolInv /\ [Next]_vars => PoolInv'
  BY PoolStep
<1>2. PoolInv => TypeOK
  BY DEF PoolInv
<1> QED
  BY <1>1, <1>2, PoolInitInv, PTL DEF Spec

\* Blocks are aligned and inside the mapping, whatever is allocated,
\* reallocated and reset and however often the mapping grows.
THEOREM BlocksArePlaced ==
  ASSUME NoWrap
  PROVE  Spec => []BlocksPlaced
<1>1. PoolInv /\ [Next]_vars => PoolInv'
  BY PoolStep
<1>2. PoolInv => BlocksPlaced
  BY DEF PoolInv
<1> QED
  BY <1>1, <1>2, PoolInitInv, PTL DEF Spec

\* No two blocks share a byte.
THEOREM BlocksAreDisjoint ==
  ASSUME NoWrap
  PROVE  Spec => []BlocksDisjoint
<1>1. PoolInv /\ [Next]_vars => PoolInv'
  BY PoolStep
<1>2. PoolInv => BlocksDisjoint
  BY DEF PoolInv
<1> QED
  BY <1>1, <1>2, PoolInitInv, PTL DEF Spec

----------------------------------------------------------------------------
(* Pointer arrays in the pool. *)

\* What a slot can hold.
Values == Items \cup {Junk}

ArrayFields == [data : Nat, len : Nat, cap : 0..MaxCapacity]

ArrayTypeOK ==
  /\ array \in [Arrays -> ArrayFields]
  /\ made \subseteq Arrays
  /\ mem \in [Cells -> Values]

\* What the pool promises and what the arrays do with it, together: a block
\* of a new array begins where the others end because the pool says so, and
\* the pool may be reallocated from because the arrays ask for their blocks.
ArrayInv == PoolInv /\ ArrayTypeOK /\ SlotsOwned

----------------------------------------------------------------------------
(* Where arrays are, and what is in them. *)

\* An array lies in the part of the mapping that has been given away.
LEMMA ArrayPlaced ==
  ASSUME ArrayInv, NEW a \in made
  PROVE  /\ mapped /\ a \in Arrays /\ next \in Nat /\ Base \in Nat
         /\ array[a] \in ArrayFields
         /\ array[a].data \in Nat /\ array[a].len \in Nat
         /\ array[a].cap \in 0..MaxCapacity /\ MaxCapacity \in Nat
         /\ array[a].cap \in Nat /\ array[a].len <= array[a].cap
         /\ [lo |-> array[a].data, len |-> array[a].cap] \in blocks
         /\ Base <= array[a].data /\ array[a].data + array[a].cap <= next
         /\ next <= Base + MaxLen /\ MaxLen \in Nat
<1> DEFINE b == [lo |-> array[a].data, len |-> array[a].cap]
<1>1. /\ a \in Arrays /\ array[a] \in ArrayFields
      /\ array[a].data \in Nat /\ array[a].len \in Nat
      /\ array[a].cap \in 0..MaxCapacity /\ MaxCapacity \in Nat
  BY ArrayAssumption DEF ArrayInv, ArrayTypeOK, ArrayFields
<1>2. b \in blocks /\ array[a].len <= array[a].cap
  BY DEF ArrayInv, SlotsOwned
<1>3. mapped
  BY <1>2 DEF ArrayInv, PoolInv
<1>4. Base <= b.lo /\ b.lo + b.len <= next
  BY <1>2 DEF ArrayInv, PoolInv, BlocksPlaced
<1>5. next <= Base + len /\ len <= MaxLen /\ next \in Nat /\ len \in Nat
  BY <1>3 DEF ArrayInv, PoolInv, MappingInv, TypeOK, End
<1>6. Base \in Nat /\ MaxLen \in Nat
  BY PageAssumption, SizeAssumption
<1>7. next <= Base + MaxLen
  BY <1>5, <1>6
<1> QED
  BY <1>1, <1>2, <1>3, <1>4, <1>5, <1>6, <1>7

\* The slots of an array are addresses of the memory.
LEMMA SlotIsCell ==
  ASSUME ArrayInv, NEW a \in made, NEW i \in Nat, i < array[a].cap
  PROVE  array[a].data + i \in Cells
<1>1. /\ array[a].data \in Nat /\ array[a].cap \in Nat
      /\ Base \in Nat /\ MaxLen \in Nat /\ next \in Nat
      /\ Base <= array[a].data /\ array[a].data + array[a].cap <= next
      /\ next <= Base + MaxLen
  BY ArrayPlaced
<1>2. Base <= array[a].data + i /\ array[a].data + i <= Base + MaxLen - 1
  BY <1>1
<1> QED
  BY <1>1, <1>2 DEF Cells

\* Two arrays have no slot in common.
LEMMA ArraysApart ==
  ASSUME ArrayInv, NEW a \in made, NEW b \in made, a # b,
         NEW i \in Nat, i < array[a].cap, NEW j \in Nat, j < array[b].cap
  PROVE  array[a].data + i # array[b].data + j
<1> DEFINE p == [lo |-> array[a].data, len |-> array[a].cap]
           q == [lo |-> array[b].data, len |-> array[b].cap]
<1>1. /\ array[a].data \in Nat /\ array[a].cap \in Nat /\ p \in blocks
      /\ array[b].data \in Nat /\ array[b].cap \in Nat /\ q \in blocks
  BY ArrayPlaced
<1>2. array[a].data # array[b].data
  BY <1>1 DEF ArrayInv, SlotsOwned
<1>3. p # q /\ p.lo = array[a].data /\ p.len = array[a].cap
      /\ q.lo = array[b].data /\ q.len = array[b].cap
  BY <1>2
<1>4. p.lo + p.len <= q.lo \/ q.lo + q.len <= p.lo
  BY <1>1, <1>3 DEF ArrayInv, PoolInv, BlocksDisjoint
<1>5. \/ array[a].data + array[a].cap <= array[b].data
      \/ array[b].data + array[b].cap <= array[a].data
  BY <1>3, <1>4
<1> HIDE DEF p, q
<1> QED
  BY <1>1, <1>5

\* A function on 1..n is a sequence of length n.
LEMMA FunctionIsSeq ==
  ASSUME NEW S, NEW n \in Nat, NEW f \in [1..n -> S]
  PROVE  f \in Seq(S) /\ Len(f) = n /\ DOMAIN f = 1..n
<1>1. f \in Seq(S)
  BY SeqDef
<1>2. Len(f) \in Nat /\ DOMAIN f = 1..Len(f)
  BY <1>1, LenProperties
<1>3. 1..Len(f) = 1..n
  BY <1>2
<1>4. Len(f) = n
  BY <1>2, <1>3
<1> QED
  BY <1>1, <1>2, <1>4

\* The slots read in their order.
LEMMA SlotsRead ==
  ASSUME ArrayInv, NEW a \in made, NEW n \in Nat, n <= array[a].cap
  PROVE  /\ Slots(a, n) \in Seq(Values) /\ Len(Slots(a, n)) = n
         /\ DOMAIN Slots(a, n) = 1..n
         /\ \A i \in 1..n : /\ Slots(a, n)[i] = mem[array[a].data + i - 1]
                            /\ Slots(a, n)[i] \in Values
<1>1. array[a].data \in Nat /\ array[a].cap \in Nat
  BY ArrayPlaced
<1>2. ASSUME NEW i \in 1..n
      PROVE  mem[array[a].data + i - 1] \in Values
  <2>1. i - 1 \in Nat /\ i - 1 < array[a].cap
        /\ array[a].data + (i - 1) = array[a].data + i - 1
    BY <1>1
  <2>2. array[a].data + i - 1 \in Cells
    BY <2>1, SlotIsCell
  <2> QED
    BY <2>2 DEF ArrayInv, ArrayTypeOK
<1>3. Slots(a, n) \in [1..n -> Values]
  BY <1>2 DEF Slots
<1> QED
  BY <1>2, <1>3, FunctionIsSeq DEF Slots

LEMMA UsedRead ==
  ASSUME ArrayInv, NEW a \in made
  PROVE  /\ Used(a) \in Seq(Values) /\ Len(Used(a)) = array[a].len
         /\ DOMAIN Used(a) = 1..array[a].len
         /\ \A i \in 1..array[a].len :
              /\ Used(a)[i] = mem[array[a].data + i - 1]
              /\ Used(a)[i] \in Values
<1>1. array[a].len \in Nat /\ array[a].len <= array[a].cap
  BY ArrayPlaced
<1> QED
  BY <1>1, SlotsRead DEF Used

----------------------------------------------------------------------------
(* Cutting a block. *)

\* Any step of the pool that cuts a block of n slots.
Cuts(n) ==
  /\ mapped /\ mapped' = mapped
  /\ Grows(n) /\ Takes(n)
  /\ copied' \subseteq [len : Nat, room : Nat]

\* The block is behind all arrays and in the memory, and nothing else in
\* the memory changes.
LEMMA CutFills ==
  ASSUME NoWrap, ArrayInv, NEW n \in Sizes, Cuts(n),
         NEW s \in Seq(Values), Len(s) <= n, Fill(n, s)
  PROVE  /\ At \in Nat /\ n \in Nat /\ next <= At
         /\ mem' \in [Cells -> Values]
         /\ \A c \in Cells : c < At => mem'[c] = mem[c]
         /\ \A i \in 1..n : mem'[At + i - 1] = IF i <= Len(s) THEN s[i] ELSE Junk
<1>1. At \in Nat /\ Base <= next /\ next <= At /\ next \in Nat
  BY AtFacts DEF ArrayInv, Cuts, PoolInv, TypeOK
<1>2. n \in Nat /\ len' \in Nat /\ len' <= MaxLen /\ At + n <= Base + len'
  BY TakenFits DEF ArrayInv, Cuts
<1>3. Base \in Nat /\ MaxLen \in Nat
  BY PageAssumption, SizeAssumption
<1>4. At + n <= Base + MaxLen
  <2> DEFINE l == len'
  <2>1. l \in Nat /\ l <= MaxLen /\ At + n <= Base + l
    BY <1>2
  <2> HIDE DEF l
  <2> QED
    BY <1>1, <1>2, <1>3, <2>1
<1>5. Len(s) \in Nat /\ \A i \in 1..Len(s) : s[i] \in Values
  BY LenProperties, ElementOfSeq
<1>6. mem \in [Cells -> Values] /\ Junk \in Values
  BY DEF ArrayInv, ArrayTypeOK, Values
<1> DEFINE new(c) == IF c \notin At..(At + n - 1) THEN mem[c]
                     ELSE IF c - At < Len(s) THEN s[c - At + 1] ELSE Junk
<1>7. mem' = [c \in Cells |-> new(c)]
  BY DEF Fill
<1>8. ASSUME NEW c \in Cells PROVE new(c) \in Values
  <2>1. CASE c \in At..(At + n - 1) /\ c - At < Len(s)
    <3>1. c \in Int /\ At <= c
      BY <1>1, <1>2, <2>1
    <3>2. c - At + 1 \in 1..Len(s)
      BY <1>1, <1>5, <2>1, <3>1
    <3>3. s[c - At + 1] \in Values
      BY <1>5, <3>2
    <3> QED
      BY <2>1, <3>3
  <2>2. CASE ~(c \in At..(At + n - 1) /\ c - At < Len(s))
    BY <1>6, <2>2
  <2> QED
    BY <2>1, <2>2
<1>9. ASSUME NEW c \in Cells, c < At PROVE new(c) = mem[c]
  <2>1. c \in Int
    BY <1>3 DEF Cells
  <2>2. c \notin At..(At + n - 1)
    BY <1>1, <1>2, <1>9, <2>1
  <2> QED
    BY <2>2
<1>10. ASSUME NEW i \in 1..n
       PROVE  /\ At + i - 1 \in Cells
              /\ new(At + i - 1) = IF i <= Len(s) THEN s[i] ELSE Junk
  <2>1. i \in Int /\ 1 <= i /\ i <= n
    BY <1>2
  <2>2. At + i - 1 \in At..(At + n - 1) /\ At + i - 1 \in Cells
    BY <1>1, <1>2, <1>3, <1>4, <2>1 DEF Cells
  <2>3. (At + i - 1) - At = i - 1 /\ (At + i - 1) - At + 1 = i
    BY <1>1, <2>1
  <2>4. (i - 1 < Len(s)) <=> (i <= Len(s))
    BY <1>5, <2>1
  <2> QED
    BY <2>2, <2>3, <2>4
<1> HIDE DEF new
<1> QED
  BY <1>1, <1>2, <1>7, <1>8, <1>9, <1>10

\* An array that keeps its fields keeps its items, if its slots do not change.
LEMMA UsedKept ==
  ASSUME ArrayInv, NEW a \in made, array'[a] = array[a],
         \A i \in Nat : i < array[a].len =>
           mem'[array[a].data + i] = mem[array[a].data + i]
  PROVE  Used(a)' = Used(a)
<1>1. array[a].data \in Nat /\ array[a].len \in Nat
  BY ArrayPlaced
<1>2. ASSUME NEW i \in 1..array[a].len
      PROVE  mem'[array[a].data + i - 1] = mem[array[a].data + i - 1]
  <2>1. i - 1 \in Nat /\ i - 1 < array[a].len
        /\ array[a].data + i - 1 = array[a].data + (i - 1)
    BY <1>1
  <2> QED
    BY <2>1
<1>3. Used(a)' = [i \in 1..array[a].len |-> mem'[array[a].data + i - 1]]
  BY DEF Used, Slots
<1> QED
  BY <1>2, <1>3 DEF Used, Slots

\* Cutting a block changes no array that keeps its fields.
LEMMA CutKeepsUsed ==
  ASSUME NoWrap, ArrayInv, NEW n \in Sizes, Cuts(n),
         NEW s \in Seq(Values), Len(s) <= n, Fill(n, s),
         NEW a \in made, array'[a] = array[a]
  PROVE  Used(a)' = Used(a)
<1>1. /\ At \in Nat /\ next <= At
      /\ \A c \in Cells : c < At => mem'[c] = mem[c]
  BY CutFills
<1>2. /\ array[a].data \in Nat /\ array[a].len \in Nat /\ array[a].cap \in Nat
      /\ array[a].len <= array[a].cap
      /\ array[a].data + array[a].cap <= next /\ next \in Nat
  BY ArrayPlaced
<1>3. ASSUME NEW i \in Nat, i < array[a].len
      PROVE  mem'[array[a].data + i] = mem[array[a].data + i]
  <2>1. i < array[a].cap /\ array[a].data + i < At
    BY <1>1, <1>2, <1>3
  <2> QED
    BY <1>1, <2>1, SlotIsCell
<1> QED
  BY <1>3, UsedKept

\* The array that gets the block holds what it was filled with.
LEMMA CutHolds ==
  ASSUME NoWrap, ArrayInv, NEW n \in Sizes, Cuts(n),
         NEW s \in Seq(Values), Len(s) <= n, Fill(n, s),
         NEW a, array'[a].data = At, NEW l \in 0..n, array'[a].len = l
  PROVE  Used(a)' = [i \in 1..l |-> IF i <= Len(s) THEN s[i] ELSE Junk]
<1>1. /\ n \in Nat
      /\ \A i \in 1..n : mem'[At + i - 1] = IF i <= Len(s) THEN s[i] ELSE Junk
  BY CutFills
<1>2. Used(a)' = [i \in 1..l |-> mem'[At + i - 1]]
  BY DEF Used, Slots
<1>3. \A i \in 1..l : i \in 1..n
  BY <1>1
<1> QED
  BY <1>1, <1>2, <1>3

----------------------------------------------------------------------------
(* What each operation asks of the pool. *)

\* Every capacity is a size the pool is asked for.
LEMMA CapacityIsSize ==
  ASSUME NEW c \in 0..MaxCapacity
  PROVE  c \in Sizes /\ c \in Nat
<1>1. c \in Nat /\ c + 0 = c
  BY ArrayAssumption
<1>2. c + 0 \in Sizes
  BY AskedAssumption
<1> QED
  BY <1>1, <1>2

LEMMA AllocCuts ==
  ASSUME NEW n \in Sizes, Alloc(n)
  PROVE  Cuts(n) /\ Next
BY DEF Alloc, Cuts, Next

\* An array that moves reallocates its own block.
LEMMA MovedCuts ==
  ASSUME ArrayInv, NEW a \in made, NEW n \in Nat, NEW s, NEW l, Moved(a, n, s, l)
  PROVE  /\ array[a].cap + n \in 0..MaxCapacity
         /\ array[a].cap + n \in Sizes
         /\ Cuts(array[a].cap + n) /\ Next
         /\ Fill(array[a].cap + n, s)
         /\ Set(a, [data |-> At, len |-> l, cap |-> array[a].cap + n])
<1> DEFINE cap == array[a].cap + n
           b == [lo |-> array[a].data, len |-> array[a].cap]
<1>1. /\ array[a].cap \in Nat /\ array[a].len \in Nat /\ MaxCapacity \in Nat
      /\ array[a].len <= array[a].cap /\ b \in blocks
  BY ArrayPlaced
<1>2. /\ cap <= MaxCapacity /\ Realloc(array[a].data, array[a].len, cap)
      /\ Fill(cap, s) /\ Set(a, [data |-> At, len |-> l, cap |-> cap])
  BY DEF Moved
<1>3. cap \in 0..MaxCapacity
  BY <1>1, <1>2
<1>4. cap \in Sizes /\ cap \in Nat
  BY <1>3, CapacityIsSize
<1>5. array[a].len \in 0..b.len /\ b.lo = array[a].data
  BY <1>1
<1>6. Next
  BY <1>1, <1>2, <1>4, <1>5 DEF Next
<1>7. Cuts(cap)
  BY <1>1, <1>2, <1>4 DEF Realloc, Cuts
<1> QED
  BY <1>2, <1>3, <1>4, <1>6, <1>7

\* What fails for want of memory asks for one of the sizes.
LEMMA GrowFailsAsks ==
  ASSUME ArrayInv, NEW a, NEW n \in Increases \cup {GrowBy}, GrowFails(a, n)
  PROVE  Next /\ UNCHANGED arrayVars
<1> DEFINE b == [lo |-> array[a].data, len |-> array[a].cap]
<1>1. a \in made /\ UNCHANGED arrayVars
  BY DEF GrowFails
<1>2. /\ array[a].cap \in 0..MaxCapacity /\ array[a].cap \in Nat
      /\ array[a].len \in Nat
      /\ array[a].len <= array[a].cap /\ b \in blocks
  BY <1>1, ArrayPlaced
<1>3. CASE ReallocLast(array[a].data, array[a].len)
  <2>1. array[a].len \in 0..b.len /\ b.lo = array[a].data
    BY <1>2
  <2> QED
    BY <1>1, <1>2, <1>3, <2>1 DEF Next
<1>4. CASE AllocFails(array[a].cap + n)
  <2>1. array[a].cap + n \in Sizes
    BY <1>2, AskedAssumption
  <2> QED
    BY <1>1, <1>4, <2>1 DEF Next
<1> QED
  BY <1>3, <1>4 DEF GrowFails

\* The pool's theorems hold with the arrays: each of their steps is one of
\* the pool, or none.
LEMMA PoolServes == ArrayInv /\ [ArraysNext]_allVars => [Next]_vars
<1> SUFFICES ASSUME ArrayInv, [ArraysNext]_allVars PROVE [Next]_vars
  OBVIOUS
<1>0. Increases \subseteq Nat /\ GrowBy \in Nat
  BY ArrayAssumption
<1>1. CASE Starts
  BY <1>1 DEF Starts, Next
<1>2. CASE Discards
  BY <1>2 DEF Discards, Next
<1>3. ASSUME NEW n \in OtherSizes, OtherBlock(n) \/ OtherFails(n)
      PROVE  Next
  BY <1>3, AskedAssumption DEF OtherBlock, OtherFails, Next
<1>4. ASSUME NEW a \in Arrays, NEW n \in Capacities, MakeArray(a, n)
      PROVE  Next
  BY <1>4, ArrayAssumption, CapacityIsSize, AllocCuts DEF MakeArray
<1>5. ASSUME NEW a \in Arrays, NEW n \in Increases, GrowCapacity(a, n)
      PROVE  Next
  BY <1>0, <1>5, MovedCuts DEF GrowCapacity
<1>6. ASSUME NEW a \in Arrays, NEW n \in Increases \cup {GrowBy}, GrowFails(a, n)
      PROVE  Next
  BY <1>6, GrowFailsAsks
<1>7. ASSUME NEW a \in Arrays, NEW n \in Increases, Grow(a, n)
      PROVE  [Next]_vars
  <2> DEFINE l == array[a].len + n
  <2>1. CASE l = array[a].cap /\ UNCHANGED <<vars, mem>>
    BY <2>1
  <2>2. CASE l > array[a].cap /\ Moved(a, l - array[a].cap, Used(a), l)
    <3>1. a \in made
      BY <1>7 DEF Grow
    <3>2. array[a].cap \in Nat /\ array[a].len \in Nat /\ n \in Nat
      BY <1>0, <3>1, ArrayPlaced
    <3>3. l - array[a].cap \in Nat
      BY <2>2, <3>2
    <3> QED
      BY <2>2, <3>1, <3>3, MovedCuts
  <2> QED
    BY <1>7, <2>1, <2>2 DEF Grow
<1>8. ASSUME NEW a \in Arrays, NEW x \in Items, AppendInPlace(a, x)
      PROVE  UNCHANGED vars
  BY <1>8 DEF AppendInPlace
<1>9. ASSUME NEW a \in Arrays, NEW x \in Items, AppendGrowing(a, x)
      PROVE  Next
  BY <1>0, <1>9, MovedCuts DEF AppendGrowing
<1>10. ASSUME NEW a \in Arrays, NEW i \in 0..MaxCapacity,
              \/ \E x \in Items : SetItem(a, i, x)
              \/ RemoveItem(a, i) \/ Shrink(a, i)
       PROVE  UNCHANGED vars
  BY <1>10 DEF SetItem, RemoveItem, Shrink
<1>11. ASSUME NEW a \in Arrays, NEW b \in Arrays, Dup(a, b) \/ DupFails(a, b)
       PROVE  Next
  <2>1. a \in made
    BY <1>11 DEF Dup, DupFails
  <2>2. array[a].cap \in Sizes
    BY <2>1, ArrayPlaced, CapacityIsSize
  <2> QED
    BY <1>11, <2>2 DEF Dup, DupFails, Next
<1>12. CASE UNCHANGED allVars
  BY <1>12 DEF allVars, vars
<1> QED
  BY <1>1, <1>2, <1>3, <1>4, <1>5, <1>6, <1>7, <1>8, <1>9, <1>10, <1>11, <1>12
     DEF ArraysNext

----------------------------------------------------------------------------
(* The invariant. *)

LEMMA ArrayInitInv == ArraysInit => ArrayInv
<1> SUFFICES ASSUME ArraysInit PROVE ArrayInv
  OBVIOUS
<1>1. PoolInv
  BY PoolInitInv DEF ArraysInit
<1>2. ArrayTypeOK
  <2>1. 0 \in 0..MaxCapacity
    BY ArrayAssumption
  <2> QED
    BY <2>1 DEF ArraysInit, ArrayTypeOK, ArrayFields, Values
<1>3. SlotsOwned
  BY DEF ArraysInit, SlotsOwned
<1> QED
  BY <1>1, <1>2, <1>3 DEF ArrayInv

\* An array that is given the block that is cut, for the first time or in
\* place of the one it had, owns it alone.
LEMMA CutKeepsInv ==
  ASSUME NoWrap, ArrayInv, NEW n \in Sizes, n \in 0..MaxCapacity, Cuts(n),
         NEW s \in Seq(Values), Len(s) <= n, Fill(n, s),
         NEW a \in Arrays, NEW l \in Nat, l <= n,
         Set(a, [data |-> At, len |-> l, cap |-> n]),
         made' = made \cup {a}
  PROVE  ArrayInv'
<1> DEFINE f == [data |-> At, len |-> l, cap |-> n]
<1>1. PoolInv'
  BY TakeStep DEF ArrayInv, Cuts
<1>2. At \in Nat /\ n \in Nat /\ next <= At /\ mem' \in [Cells -> Values]
  BY CutFills
<1>3. f \in ArrayFields
  BY <1>2 DEF ArrayFields
<1>4. /\ array' = [array EXCEPT ![a] = f]
      /\ array \in [Arrays -> ArrayFields] /\ made \subseteq Arrays
  BY DEF Set, ArrayInv, ArrayTypeOK
<1>5. array'[a] = f /\ \A c \in Arrays \ {a} : array'[c] = array[c]
  BY <1>4
<1>6. ArrayTypeOK'
  BY <1>2, <1>3, <1>4 DEF ArrayTypeOK
<1>7. blocks \subseteq blocks' /\ [lo |-> At, len |-> n] \in blocks'
  BY DEF Cuts, Takes
<1>8. array'[a].data = At /\ array'[a].len = l /\ array'[a].cap = n
  BY <1>5
<1>9. ASSUME NEW c \in made \ {a}
      PROVE  /\ array'[c] = array[c]
             /\ [lo |-> array'[c].data, len |-> array'[c].cap] \in blocks'
             /\ array'[c].len <= array'[c].cap
             /\ array'[c].cap > 0 => array'[c].data # At
  <2>1. array'[c] = array[c]
    BY <1>4, <1>5
  <2>2. /\ array[c].data \in Nat /\ array[c].cap \in Nat /\ next \in Nat
        /\ array[c].data + array[c].cap <= next
        /\ array[c].len <= array[c].cap
        /\ [lo |-> array[c].data, len |-> array[c].cap] \in blocks
    BY ArrayPlaced
  <2>3. array[c].cap > 0 => array[c].data # At
    BY <1>2, <2>2
  <2> QED
    BY <1>7, <2>1, <2>2, <2>3
<1>10. SlotsOwned'
  <2> SUFFICES ASSUME NEW c \in made'
               PROVE  /\ [lo |-> array'[c].data, len |-> array'[c].cap] \in blocks'
                      /\ array'[c].len <= array'[c].cap
                      /\ \A d \in made' \ {c} :
                           array'[c].cap > 0 /\ array'[d].cap > 0
                             => array'[d].data # array'[c].data
    BY DEF SlotsOwned
  <2>1. CASE c = a
    BY <1>7, <1>8, <1>9, <2>1
  <2>2. CASE c \in made \ {a}
    <3>1. ASSUME NEW d \in made' \ {c}, array'[c].cap > 0, array'[d].cap > 0
          PROVE  array'[d].data # array'[c].data
      <4>1. CASE d = a
        BY <1>8, <1>9, <2>2, <3>1, <4>1
      <4>2. CASE d \in made \ {a}
        <5>1. array'[d] = array[d] /\ array'[c] = array[c]
          BY <1>9, <2>2, <4>2
        <5> QED
          BY <2>2, <3>1, <4>2, <5>1 DEF ArrayInv, SlotsOwned
      <4> QED
        BY <4>1, <4>2
    <3> QED
      BY <1>9, <2>2, <3>1
  <2> QED
    BY <2>1, <2>2
<1> QED
  BY <1>1, <1>6, <1>10 DEF ArrayInv

\* A block that somebody else is given is none of the arrays'.
LEMMA OtherKeepsInv ==
  ASSUME NoWrap, ArrayInv, NEW n \in OtherSizes, OtherBlock(n)
  PROVE  ArrayInv'
<1>1. n \in Sizes /\ Cuts(n) /\ Fill(n, <<>>) /\ UNCHANGED <<array, made>>
  BY AskedAssumption, AllocCuts DEF OtherBlock
<1>2. n \in Nat
  BY <1>1, SizeAssumption
<1>3. <<>> \in Seq(Values) /\ Len(<<>>) <= n
  BY <1>2, EmptySeq
<1>4. mem' \in [Cells -> Values]
  BY <1>1, <1>3, CutFills
<1>5. PoolInv'
  BY <1>1, TakeStep DEF ArrayInv, Cuts
<1>6. ArrayTypeOK'
  BY <1>1, <1>4 DEF ArrayInv, ArrayTypeOK
<1>7. blocks \subseteq blocks'
  BY <1>1 DEF Cuts, Takes
<1>8. SlotsOwned'
  BY <1>1, <1>7 DEF ArrayInv, SlotsOwned
<1> QED
  BY <1>5, <1>6, <1>8 DEF ArrayInv

\* An array that stays where it is and holds no more than it has room for.
LEMMA InPlaceKeepsInv ==
  ASSUME ArrayInv, PoolInv', blocks' = blocks, made' = made,
         NEW a \in made, NEW l \in Nat, l <= array[a].cap,
         array' = [array EXCEPT ![a] = [array[a] EXCEPT !.len = l]],
         mem' \in [Cells -> Values]
  PROVE  ArrayInv'
<1> DEFINE f == [array[a] EXCEPT !.len = l]
<1>1. a \in Arrays /\ array[a] \in ArrayFields
  BY ArrayPlaced
<1>2. f \in ArrayFields /\ f.data = array[a].data /\ f.cap = array[a].cap
      /\ f.len = l
  BY <1>1 DEF ArrayFields
<1>3. array \in [Arrays -> ArrayFields] /\ made \subseteq Arrays
  BY DEF ArrayInv, ArrayTypeOK
<1>4. ArrayTypeOK'
  BY <1>2, <1>3 DEF ArrayTypeOK
<1> HIDE DEF f
<1>5. \A c \in made : /\ array'[c].data = array[c].data
                      /\ array'[c].cap = array[c].cap
                      /\ array'[c].len = IF c = a THEN l ELSE array[c].len
  BY <1>2, <1>3 DEF f
<1>6. SlotsOwned'
  BY <1>5 DEF ArrayInv, SlotsOwned
<1> QED
  BY <1>4, <1>6 DEF ArrayInv

\* Growing keeps the invariant, whatever the array holds then.
LEMMA MovedKeepsInv ==
  ASSUME NoWrap, ArrayInv, NEW a \in made, NEW n \in Nat,
         NEW s \in Seq(Values), NEW l \in Nat,
         Len(s) <= array[a].cap + n, l <= array[a].cap + n,
         Moved(a, n, s, l), made' = made
  PROVE  ArrayInv'
<1> DEFINE cap == array[a].cap + n
<1>1. /\ cap \in 0..MaxCapacity /\ cap \in Sizes /\ Cuts(cap) /\ Fill(cap, s)
      /\ Set(a, [data |-> At, len |-> l, cap |-> cap])
  BY MovedCuts
<1>2. a \in Arrays /\ made' = made \cup {a}
  BY DEF ArrayInv, ArrayTypeOK
<1> HIDE DEF cap
<1>3. Len(s) <= cap /\ l <= cap
  BY DEF cap
<1> QED
  BY <1>1, <1>2, <1>3, CutKeepsInv

LEMMA ArrayStepInv ==
  ASSUME NoWrap
  PROVE  ArrayInv /\ [ArraysNext]_allVars => ArrayInv'
<1> SUFFICES ASSUME ArrayInv, [ArraysNext]_allVars PROVE ArrayInv'
  OBVIOUS
<1>p. PoolInv'
  <2>1. [Next]_vars
    BY PoolServes
  <2> QED
    BY <2>1, PoolStep DEF ArrayInv
<1>0. /\ PoolInv /\ ArrayTypeOK /\ SlotsOwned
      /\ Increases \subseteq Nat /\ GrowBy \in Nat
      /\ Capacities \subseteq 0..MaxCapacity /\ 0 \in 0..MaxCapacity
      /\ Items \subseteq Values /\ Junk \in Values
  BY ArrayAssumption DEF ArrayInv, Values
<1>e. ASSUME NEW n \in Nat
      PROVE  <<>> \in Seq(Values) /\ Len(<<>>) <= n
  BY EmptySeq
<1>1. CASE Starts
  <2>1. ASSUME NEW n \in InitialSizes, PoolInit(n) PROVE made = {} /\ blocks' = blocks
    <3>1. ~mapped /\ blocks' = blocks
      BY <2>1 DEF PoolInit
    <3> QED
      BY <3>1, ArrayPlaced
  <2>2. made = {} /\ blocks' = blocks /\ UNCHANGED arrayVars
    BY <1>1, <2>1 DEF Starts
  <2> QED
    BY <1>p, <1>0, <2>2 DEF ArrayInv, ArrayTypeOK, SlotsOwned, arrayVars
<1>2. CASE Discards
  <2>1. /\ made' = {}
        /\ array' = [a \in Arrays |-> [data |-> 0, len |-> 0, cap |-> 0]]
        /\ mem' = [c \in Cells |-> Junk]
    BY <1>2 DEF Discards
  <2>2. [data |-> 0, len |-> 0, cap |-> 0] \in ArrayFields
    BY <1>0 DEF ArrayFields
  <2>3. ArrayTypeOK'
    BY <1>0, <2>1, <2>2 DEF ArrayTypeOK
  <2> QED
    BY <1>p, <2>1, <2>3 DEF ArrayInv, SlotsOwned
<1>3. ASSUME NEW n \in OtherSizes, OtherBlock(n) PROVE ArrayInv'
  BY <1>3, OtherKeepsInv
<1>4. ASSUME NEW n \in OtherSizes, OtherFails(n) PROVE ArrayInv'
  BY <1>p, <1>0, <1>4 DEF OtherFails, AllocFails, arrayVars, ArrayInv, ArrayTypeOK,
                          SlotsOwned
<1>5. ASSUME NEW a \in Arrays, NEW n \in Capacities, MakeArray(a, n)
      PROVE  ArrayInv'
  <2>1. n \in 0..MaxCapacity /\ n \in Sizes /\ n \in Nat /\ Cuts(n)
    BY <1>0, <1>5, CapacityIsSize, AllocCuts DEF MakeArray
  <2>2. <<>> \in Seq(Values) /\ Len(<<>>) <= n /\ 0 \in Nat /\ 0 <= n
    BY <1>e, <2>1
  <2>3. Fill(n, <<>>) /\ Set(a, [data |-> At, len |-> 0, cap |-> n])
        /\ made' = made \cup {a}
    BY <1>5 DEF MakeArray
  <2> QED
    BY <2>1, <2>2, <2>3, CutKeepsInv
<1>6. ASSUME NEW a \in Arrays, NEW n \in Increases, GrowCapacity(a, n)
      PROVE  ArrayInv'
  <2>1. a \in made /\ Moved(a, n, Used(a), array[a].len) /\ made' = made
    BY <1>6 DEF GrowCapacity
  <2>2. /\ Used(a) \in Seq(Values) /\ Len(Used(a)) = array[a].len
        /\ array[a].len \in Nat /\ array[a].cap \in Nat
        /\ array[a].len <= array[a].cap
    BY <2>1, UsedRead, ArrayPlaced
  <2>3. n \in Nat
    BY <1>0
  <2>4. array[a].len <= array[a].cap + n
    BY <2>2, <2>3
  <2> QED
    BY <2>1, <2>2, <2>3, <2>4, MovedKeepsInv
<1>7. ASSUME NEW a \in Arrays, NEW n \in Increases \cup {GrowBy}, GrowFails(a, n)
      PROVE  ArrayInv'
  <2>1. UNCHANGED arrayVars
    BY <1>7, GrowFailsAsks
  <2>2. blocks' = blocks
    BY <1>7 DEF GrowFails, ReallocLast, AllocFails
  <2> QED
    BY <1>p, <1>0, <2>1, <2>2 DEF ArrayInv, ArrayTypeOK, SlotsOwned, arrayVars
<1>8. ASSUME NEW a \in Arrays, NEW n \in Increases, Grow(a, n)
      PROVE  ArrayInv'
  <2> DEFINE l == array[a].len + n
  <2>1. a \in made /\ made' = made
    BY <1>8 DEF Grow
  <2>2. /\ Used(a) \in Seq(Values) /\ Len(Used(a)) = array[a].len
        /\ array[a].len \in Nat /\ array[a].cap \in Nat
        /\ array[a].len <= array[a].cap /\ n \in Nat
    BY <1>0, <2>1, UsedRead, ArrayPlaced
  <2>3. CASE /\ l = array[a].cap /\ Set(a, [array[a] EXCEPT !.len = l])
             /\ UNCHANGED <<vars, mem>>
    <3>1. l \in Nat /\ l <= array[a].cap
      BY <2>2, <2>3
    <3>2. /\ array' = [array EXCEPT ![a] = [array[a] EXCEPT !.len = l]]
          /\ blocks' = blocks /\ mem' \in [Cells -> Values]
      BY <1>0, <2>3 DEF Set, vars, ArrayTypeOK
    <3> QED
      BY <1>p, <2>1, <3>1, <3>2, InPlaceKeepsInv
  <2>4. CASE l > array[a].cap /\ Moved(a, l - array[a].cap, Used(a), l)
    <3>1. /\ l - array[a].cap \in Nat /\ l \in Nat
          /\ array[a].cap + (l - array[a].cap) = l /\ array[a].len <= l
      BY <2>2, <2>4
    <3>2. l <= l
      BY <3>1
    <3> HIDE DEF l
    <3> QED
      BY <2>1, <2>2, <2>4, <3>1, <3>2, MovedKeepsInv
  <2> QED
    BY <1>8, <2>3, <2>4 DEF Grow
<1>9. ASSUME NEW a \in Arrays, NEW x \in Items, AppendInPlace(a, x)
      PROVE  ArrayInv'
  <2>1. a \in made /\ array[a].len < array[a].cap
    BY <1>9 DEF AppendInPlace
  <2>2. array[a].len \in Nat /\ array[a].cap \in Nat
    BY <2>1, ArrayPlaced
  <2>3. array[a].len + 1 \in Nat /\ array[a].len + 1 <= array[a].cap
    BY <2>1, <2>2
  <2>4. /\ array' = [array EXCEPT ![a] = [array[a] EXCEPT !.len = array[a].len + 1]]
        /\ made' = made /\ blocks' = blocks
    BY <1>9 DEF AppendInPlace, Set, vars
  <2>5. mem' \in [Cells -> Values]
    BY <1>0, <1>9 DEF AppendInPlace, ArrayTypeOK
  <2> QED
    BY <1>p, <2>1, <2>3, <2>4, <2>5, InPlaceKeepsInv
<1>10. ASSUME NEW a \in Arrays, NEW x \in Items, AppendGrowing(a, x)
       PROVE  ArrayInv'
  <2>1. /\ a \in made /\ array[a].len = array[a].cap /\ made' = made
        /\ Moved(a, GrowBy, Append(Used(a), x), array[a].len + 1)
    BY <1>10 DEF AppendGrowing
  <2>2. Used(a) \in Seq(Values) /\ Len(Used(a)) = array[a].len /\ x \in Values
    BY <1>0, <2>1, UsedRead
  <2>3. array[a].len \in Nat /\ array[a].cap \in Nat
    BY <2>1, ArrayPlaced
  <2>4. /\ Append(Used(a), x) \in Seq(Values)
        /\ Len(Append(Used(a), x)) = array[a].len + 1
    BY <2>2, AppendProperties
  <2>5. array[a].len + 1 \in Nat /\ array[a].len + 1 <= array[a].cap + GrowBy
    BY <2>1, <2>3, ArrayAssumption
  <2> QED
    BY <1>0, <2>1, <2>4, <2>5, MovedKeepsInv
<1>11. ASSUME NEW a \in Arrays, NEW i \in 0..MaxCapacity, NEW x \in Items,
              SetItem(a, i, x)
       PROVE  ArrayInv'
  <2>1. UNCHANGED <<vars, array, made>> /\ mem' \in [Cells -> Values]
    BY <1>0, <1>11 DEF SetItem, ArrayTypeOK
  <2> QED
    BY <1>p, <1>0, <2>1 DEF ArrayInv, ArrayTypeOK, SlotsOwned, vars
<1>12. ASSUME NEW a \in Arrays, NEW i \in 0..MaxCapacity, RemoveItem(a, i)
       PROVE  ArrayInv'
  <2>1. a \in made /\ i < array[a].len
    BY <1>12 DEF RemoveItem
  <2>2. /\ array[a].len \in Nat /\ array[a].cap \in Nat
        /\ array[a].len <= array[a].cap /\ array[a].data \in Nat
    BY <2>1, ArrayPlaced
  <2>i. i \in Nat
    BY ArrayAssumption
  <2>3. /\ array[a].len - 1 \in Nat /\ array[a].len - 1 <= array[a].cap
        /\ array[a].len - 1 < array[a].cap
        /\ array[a].data + array[a].len - 1 = array[a].data + (array[a].len - 1)
    BY <2>1, <2>2, <2>i
  <2>4. mem[array[a].data + array[a].len - 1] \in Values
    BY <1>0, <2>1, <2>3, SlotIsCell DEF ArrayTypeOK
  <2>5. mem' \in [Cells -> Values]
    BY <1>0, <1>12, <2>4 DEF RemoveItem, ArrayTypeOK
  <2>6. /\ array' = [array EXCEPT ![a] = [array[a] EXCEPT !.len = array[a].len - 1]]
        /\ made' = made /\ blocks' = blocks
    BY <1>12 DEF RemoveItem, Set, vars
  <2> QED
    BY <1>p, <2>1, <2>3, <2>5, <2>6, InPlaceKeepsInv
<1>13. ASSUME NEW a \in Arrays, NEW i \in 0..MaxCapacity, Shrink(a, i)
       PROVE  ArrayInv'
  <2>1. a \in made /\ i < array[a].len
    BY <1>13 DEF Shrink
  <2>i. i \in Nat
    BY ArrayAssumption
  <2>2. i \in Nat /\ i <= array[a].cap
    <3>1. /\ array[a].len \in Nat /\ array[a].cap \in Nat
          /\ array[a].len <= array[a].cap
      BY <2>1, ArrayPlaced
    <3> QED
      BY <2>1, <2>i, <3>1
  <2>3. /\ array' = [array EXCEPT ![a] = [array[a] EXCEPT !.len = i]]
        /\ made' = made /\ blocks' = blocks /\ mem' \in [Cells -> Values]
    BY <1>0, <1>13 DEF Shrink, Set, vars, ArrayTypeOK
  <2> QED
    BY <1>p, <2>1, <2>2, <2>3, InPlaceKeepsInv
<1>14. ASSUME NEW a \in Arrays, NEW b \in Arrays, Dup(a, b) PROVE ArrayInv'
  <2> DEFINE n == array[a].cap
  <2>1. a \in made
    BY <1>14 DEF Dup
  <2>2. /\ n \in 0..MaxCapacity /\ n \in Nat /\ n \in Sizes
        /\ array[a].len \in Nat /\ array[a].len <= n
        /\ array[a] \in ArrayFields
    BY <2>1, ArrayPlaced, CapacityIsSize
  <2>3. Cuts(n) /\ Fill(n, Slots(a, n)) /\ made' = made \cup {b}
    BY <1>14, <2>2, AllocCuts DEF Dup
  <2>4. Slots(a, n) \in Seq(Values) /\ Len(Slots(a, n)) <= n
    <3>1. n <= n
      BY <2>2
    <3> HIDE DEF n
    <3> QED
      BY <2>1, <2>2, <3>1, SlotsRead DEF n
  <2>5. Set(b, [data |-> At, len |-> array[a].len, cap |-> n])
    <3>1. ASSUME NEW r \in ArrayFields
          PROVE  [r EXCEPT !.data = At] = [data |-> At, len |-> r.len, cap |-> r.cap]
      BY DEF ArrayFields
    <3>2. [array[a] EXCEPT !.data = At] = [data |-> At, len |-> array[a].len, cap |-> n]
      BY <2>2, <3>1
    <3> QED
      BY <1>14, <3>2 DEF Dup
  <2> HIDE DEF n
  <2> QED
    BY <2>2, <2>3, <2>4, <2>5, CutKeepsInv
<1>15. ASSUME NEW a \in Arrays, NEW b \in Arrays, DupFails(a, b) PROVE ArrayInv'
  <2>1. /\ a \in made /\ made' = made \ {b} /\ UNCHANGED <<mem, blocks>>
        /\ array' = [array EXCEPT ![b] = [array[a] EXCEPT !.data = array[b].data]]
    BY <1>15 DEF DupFails, Set, AllocFails
  <2>2. [array[a] EXCEPT !.data = array[b].data] \in ArrayFields
    BY <1>0 DEF ArrayTypeOK, ArrayFields
  <2>3. ArrayTypeOK'
    BY <1>0, <2>1, <2>2 DEF ArrayTypeOK
  <2>4. \A c \in made' : c \in made /\ array'[c] = array[c]
    BY <1>0, <2>1 DEF ArrayTypeOK
  <2>5. SlotsOwned'
    BY <1>0, <2>1, <2>4 DEF SlotsOwned
  <2> QED
    BY <1>p, <2>3, <2>5 DEF ArrayInv
<1>16. CASE UNCHANGED allVars
  BY <1>p, <1>0, <1>16 DEF allVars, arrayVars, vars, ArrayInv, ArrayTypeOK, SlotsOwned
<1> QED
  BY <1>1, <1>2, <1>3, <1>4, <1>5, <1>6, <1>7, <1>8, <1>9, <1>10, <1>11, <1>12,
     <1>13, <1>14, <1>15, <1>16 DEF ArraysNext

LEMMA ArrayInvHolds ==
  ASSUME NoWrap
  PROVE  ArraysSpec => []ArrayInv
<1>1. ArrayInv /\ [ArraysNext]_allVars => ArrayInv'
  BY ArrayStepInv
<1> QED
  BY <1>1, ArrayInitInv, PTL DEF ArraysSpec

\* Every array has memory of the pool that is as large as it believes and
\* that no other array writes to, however the arrays grow, move, are copied
\* and fail to be.
THEOREM ArraysOwnTheirSlots ==
  ASSUME NoWrap
  PROVE  ArraysSpec => []SlotsOwned
<1>1. ArrayInv => SlotsOwned
  BY DEF ArrayInv
<1> QED
  BY <1>1, ArrayInvHolds, PTL

\* The arrays call the pool as its specification expects of a caller: the
\* memory they reallocate is a block they were given, and no more of it.
\* With this the theorems about the pool hold for a pool that has arrays.
THEOREM ArraysUseThePool ==
  ASSUME NoWrap
  PROVE  ArraysSpec => UsesPool
<1>1. ArraysInit => Init
  BY DEF ArraysInit
<1>2. ArrayInv /\ [ArraysNext]_allVars => [Next]_vars
  BY PoolServes
<1> QED
  BY <1>1, <1>2, ArrayInvHolds, PTL DEF ArraysSpec, UsesPool

----------------------------------------------------------------------------
(* The arrays are lists. *)

\* What the users see.
view == [a \in Arrays |-> IF a \in made THEN Used(a) ELSE None]

LEMMA ViewOf ==
  ASSUME ArrayInv, NEW a \in Arrays
  PROVE  /\ a \in made => view[a] = Used(a) /\ view[a] # None
         /\ a \notin made => view[a] = None
<1>1. view[a] = IF a \in made THEN Used(a) ELSE None
  BY DEF view
<1>2. a \in made => Used(a) \in Seq(Values)
  BY UsedRead
<1>3. None \notin Seq(Values)
  BY ArrayAssumption DEF Values
<1> QED
  BY <1>1, <1>2, <1>3

\* When no other array changes, one list changes.
LEMMA OneChanges ==
  ASSUME NEW b \in Arrays,
         \A a \in Arrays \ {b} : /\ a \in made' <=> a \in made
                                 /\ a \in made => Used(a)' = Used(a)
  PROVE  view' = [view EXCEPT ![b] = IF b \in made' THEN Used(b)' ELSE None]
<1>1. view' = [a \in Arrays |-> IF a \in made' THEN Used(a)' ELSE None]
  BY DEF view
<1> QED
  BY <1>1 DEF view

LEMMA NoneChanges ==
  ASSUME made' = made, \A a \in made : Used(a)' = Used(a)
  PROVE  view' = view
<1>1. view' = [a \in Arrays |-> IF a \in made' THEN Used(a)' ELSE None]
  BY DEF view
<1> QED
  BY <1>1 DEF view

\* Writing to an array's slots leaves the others alone.
LEMMA WriteKeepsOthers ==
  ASSUME ArrayInv, NEW b \in made, NEW k \in Nat, k < array[b].cap, NEW v,
         mem' = [mem EXCEPT ![array[b].data + k] = v],
         NEW a \in made, a # b, array'[a] = array[a]
  PROVE  Used(a)' = Used(a)
<1>1. array[a].len \in Nat /\ array[a].cap \in Nat /\ array[a].len <= array[a].cap
  BY ArrayPlaced
<1>2. ASSUME NEW i \in Nat, i < array[a].len
      PROVE  mem'[array[a].data + i] = mem[array[a].data + i]
  <2>1. i < array[a].cap
    BY <1>1, <1>2
  <2>2. array[a].data + i # array[b].data + k /\ array[a].data + i \in Cells
    BY <2>1, ArraysApart, SlotIsCell
  <2> QED
    BY <2>2 DEF ArrayInv, ArrayTypeOK
<1> QED
  BY <1>2, UsedKept

\* The slot that is written, and the others of the array.
LEMMA WriteChangesOne ==
  ASSUME ArrayInv, NEW b \in made, NEW k \in Nat, k < array[b].cap, NEW v,
         mem' = [mem EXCEPT ![array[b].data + k] = v],
         NEW i \in Nat, i < array[b].cap
  PROVE  /\ i = k => mem'[array[b].data + i] = v
         /\ i # k => mem'[array[b].data + i] = mem[array[b].data + i]
<1>1. array[b].data + i \in Cells /\ array[b].data + k \in Cells
  BY SlotIsCell
<1>2. array[b].data \in Nat
  BY ArrayPlaced
<1>3. array[b].data + i = array[b].data + k <=> i = k
  BY <1>2
<1> QED
  BY <1>1, <1>3 DEF ArrayInv, ArrayTypeOK

\* A sequence that begins with another one.
LEMMA BeginsWith ==
  ASSUME NEW S, NEW s \in Seq(S), NEW l \in Nat, Len(s) <= l,
         NEW t \in [1..l -> S], \A i \in 1..Len(s) : t[i] = s[i]
  PROVE  Len(t) = l /\ SubSeq(t, 1, Len(s)) = s
<1>1. t \in Seq(S) /\ Len(t) = l
  BY FunctionIsSeq
<1>2. Len(s) \in Nat
  BY LenProperties
<1>3. \A i \in 1..Len(s) : t[i] \in S
  BY <1>2
<1>4. /\ SubSeq(t, 1, Len(s)) \in Seq(S)
      /\ Len(SubSeq(t, 1, Len(s))) = IF 1 <= Len(s) THEN Len(s) - 1 + 1 ELSE 0
      /\ \A i \in 1..(Len(s) - 1 + 1) : SubSeq(t, 1, Len(s))[i] = t[1 + i - 1]
  BY <1>2, <1>3, SubSeqProperties
<1>5. Len(SubSeq(t, 1, Len(s))) = Len(s)
  BY <1>2, <1>4
<1>6. \A i \in 1..Len(s) : SubSeq(t, 1, Len(s))[i] = s[i]
  <2> SUFFICES ASSUME NEW i \in 1..Len(s)
               PROVE  SubSeq(t, 1, Len(s))[i] = s[i]
    OBVIOUS
  <2>1. i \in 1..(Len(s) - 1 + 1) /\ 1 + i - 1 = i
    BY <1>2
  <2> QED
    BY <1>4, <2>1
<1> QED
  BY <1>1, <1>4, <1>5, <1>6, SeqEqual

----------------------------------------------------------------------------
(* What each operation does to the lists. *)

\* A list of l items that begins with s, followed by what is in the memory.
Padded(s, l) == [i \in 1..l |-> IF i <= Len(s) THEN s[i] ELSE Junk]

\* An array that is given the block that is cut.
LEMMA CutIsList ==
  ASSUME NoWrap, ArrayInv, NEW n \in Sizes, Cuts(n),
         NEW s \in Seq(Values), Len(s) <= n, Fill(n, s),
         NEW a \in Arrays, NEW l \in Nat, l <= n,
         Set(a, [data |-> At, len |-> l, cap |-> n]),
         made' = made \cup {a}
  PROVE  view' = [view EXCEPT ![a] = Padded(s, l)]
<1>1. /\ array' = [array EXCEPT ![a] = [data |-> At, len |-> l, cap |-> n]]
      /\ array \in [Arrays -> ArrayFields] /\ made \subseteq Arrays
  BY DEF Set, ArrayInv, ArrayTypeOK
<1>2. /\ array'[a] = [data |-> At, len |-> l, cap |-> n]
      /\ \A c \in Arrays \ {a} : array'[c] = array[c]
  BY <1>1
<1>3. array'[a].data = At /\ array'[a].len = l
  BY <1>2
<1>4. l \in 0..n
  BY SizeAssumption
<1>5. Used(a)' = Padded(s, l)
  BY <1>3, <1>4, CutHolds DEF Padded
<1>6. \A c \in made : c # a => Used(c)' = Used(c)
  BY <1>1, <1>2, CutKeepsUsed
<1>7. \A c \in Arrays \ {a} : /\ c \in made' <=> c \in made
                              /\ c \in made => Used(c)' = Used(c)
  BY <1>6
<1>8. a \in made'
  OBVIOUS
<1> QED
  BY <1>5, <1>7, <1>8, OneChanges, Zenon

LEMMA MovedIsList ==
  ASSUME NoWrap, ArrayInv, NEW a \in made, NEW n \in Nat,
         NEW s \in Seq(Values), NEW l \in Nat,
         Len(s) <= array[a].cap + n, l <= array[a].cap + n,
         Moved(a, n, s, l), made' = made
  PROVE  view' = [view EXCEPT ![a] = Padded(s, l)]
<1> DEFINE cap == array[a].cap + n
<1>1. /\ cap \in Sizes /\ Cuts(cap) /\ Fill(cap, s)
      /\ Set(a, [data |-> At, len |-> l, cap |-> cap])
  BY MovedCuts
<1>2. a \in Arrays /\ made' = made \cup {a}
  BY DEF ArrayInv, ArrayTypeOK
<1> HIDE DEF cap
<1>3. Len(s) <= cap /\ l <= cap
  BY DEF cap
<1> QED
  BY <1>1, <1>2, <1>3, CutIsList

\* A sequence, written out.
LEMMA SeqWritten ==
  ASSUME NEW S, NEW s \in Seq(S), NEW l \in Nat, l = Len(s)
  PROVE  Padded(s, l) = s
<1>1. s \in [1..l -> S]
  BY LenProperties
<1>2. \A i \in 1..l : i <= Len(s)
  OBVIOUS
<1> QED
  BY <1>1, <1>2 DEF Padded

LEMMA MakeIsList ==
  ASSUME NoWrap, ArrayInv, NEW a \in Arrays, NEW n \in Capacities, MakeArray(a, n)
  PROVE  view' = [view EXCEPT ![a] = <<>>]
<1> DEFINE s == <<>>
           l == 0
<1>1. n \in Sizes /\ n \in Nat /\ Cuts(n)
  BY ArrayAssumption, CapacityIsSize, AllocCuts DEF MakeArray
<1>2. s \in Seq(Values) /\ Len(s) = 0 /\ Len(s) <= n /\ l \in Nat /\ l <= n /\ l = Len(s)
  BY <1>1, EmptySeq
<1>3. Fill(n, s) /\ Set(a, [data |-> At, len |-> l, cap |-> n])
      /\ made' = made \cup {a}
  BY DEF MakeArray
<1> HIDE DEF s, l
<1> DEFINE t == Padded(s, l)
<1>4. view' = [view EXCEPT ![a] = t]
  <2>1. n \in Sizes /\ Cuts(n) /\ s \in Seq(Values) /\ Len(s) <= n /\ Fill(n, s)
    BY <1>1, <1>2, <1>3
  <2>2. l \in Nat /\ l <= n
    BY <1>2
  <2>3. Set(a, [data |-> At, len |-> l, cap |-> n]) /\ made' = made \cup {a}
    BY <1>3
  <2> QED
    BY <2>1, <2>2, <2>3, CutIsList
<1>5. t = s
  BY <1>2, SeqWritten
<1> HIDE DEF t
<1> QED
  BY <1>4, <1>5 DEF s

LEMMA GrowCapacityIsList ==
  ASSUME NoWrap, ArrayInv, NEW a \in Arrays, NEW n \in Increases, GrowCapacity(a, n)
  PROVE  view' = view
<1>1. a \in made /\ Moved(a, n, Used(a), array[a].len) /\ made' = made /\ n \in Nat
  BY ArrayAssumption DEF GrowCapacity
<1>2. /\ Used(a) \in Seq(Values) /\ Len(Used(a)) = array[a].len
      /\ array[a].len \in Nat /\ array[a].cap \in Nat
      /\ array[a].len <= array[a].cap
  BY <1>1, UsedRead, ArrayPlaced
<1>3. array[a].len <= array[a].cap + n
  BY <1>1, <1>2
<1> DEFINE l == array[a].len
           t == Padded(Used(a), l)
<1>4. view' = [view EXCEPT ![a] = t]
  BY <1>1, <1>2, <1>3, MovedIsList
<1>5. t = Used(a)
  BY <1>2, SeqWritten
<1>6. view[a] = Used(a)
  BY <1>1, ViewOf
<1> HIDE DEF t, l
<1> QED
  BY <1>4, <1>5, <1>6 DEF view

\* The array is longer afterwards, or nothing has happened.
LEMMA GrowIsList ==
  ASSUME NoWrap, ArrayInv, NEW a \in Arrays, NEW n \in Increases, Grow(a, n)
  PROVE  \/ view' = view
         \/ \E t : /\ view' = [view EXCEPT ![a] = t]
                   /\ Len(t) > Len(view[a])
                   /\ SubSeq(t, 1, Len(view[a])) = view[a]
<1> DEFINE l == array[a].len + n
<1>1. a \in made /\ made' = made /\ n \in Nat
  BY ArrayAssumption DEF Grow
<1>2. /\ Used(a) \in Seq(Values) /\ Len(Used(a)) = array[a].len
      /\ array[a].len \in Nat /\ array[a].cap \in Nat
      /\ array[a].len <= array[a].cap
  BY <1>1, UsedRead, ArrayPlaced
<1>3. view[a] = Used(a)
  BY <1>1, ViewOf
<1>4. l \in Nat /\ array[a].len <= l
  BY <1>1, <1>2
<1>5. CASE l = array[a].cap /\ Set(a, [array[a] EXCEPT !.len = l])
           /\ UNCHANGED <<vars, mem>>
  <2> DEFINE t == Slots(a, l)
  <2>1. /\ array' = [array EXCEPT ![a] = [array[a] EXCEPT !.len = l]]
        /\ array \in [Arrays -> ArrayFields] /\ mem' = mem
    BY <1>5 DEF Set, ArrayInv, ArrayTypeOK
  <2>2. array'[a].len = l /\ array'[a].data = array[a].data
        /\ \A c \in Arrays \ {a} : array'[c] = array[c]
    BY <2>1 DEF ArrayFields
  <2>3. Used(a)' = t
    BY <2>1, <2>2 DEF Used, Slots
  <2>4. \A c \in Arrays \ {a} : c \in made => Used(c)' = Used(c)
    BY <2>1, <2>2 DEF Used, Slots
  <2>5. view' = [view EXCEPT ![a] = t]
    <3>1. view' = [view EXCEPT ![a] = IF a \in made' THEN Used(a)' ELSE None]
      BY <1>1, <2>4, OneChanges
    <3> QED
      BY <1>1, <2>3, <3>1
  <2>6. /\ t \in [1..l -> Values] /\ Len(t) = l
        /\ \A i \in 1..Len(Used(a)) : t[i] = Used(a)[i]
    <3>1. l <= array[a].cap
      BY <1>4, <1>5
    <3>2. /\ t \in Seq(Values) /\ Len(t) = l
          /\ \A i \in 1..l : t[i] = mem[array[a].data + i - 1]
      BY <1>1, <1>4, <3>1, SlotsRead
    <3>3. t \in [1..l -> Values]
      BY <3>2, LenProperties
    <3>4. \A i \in 1..Len(Used(a)) : i \in 1..l
      BY <1>2, <1>4
    <3> QED
      BY <1>1, <1>2, <3>2, <3>3, <3>4, UsedRead
  <2> HIDE DEF t, l
  <2>7. SubSeq(t, 1, Len(Used(a))) = Used(a)
    BY <1>2, <1>4, <2>6, BeginsWith
  <2>8. CASE l = array[a].len
    <3>1. t = Used(a)
      BY <2>8 DEF t, Used
    <3>2. view' = view
      BY <1>1, <1>3, <2>5, <3>1 DEF view
    <3> QED
      BY <3>2
  <2>9. CASE l > array[a].len
    <3>1. Len(t) > Len(view[a]) /\ SubSeq(t, 1, Len(view[a])) = view[a]
      BY <1>2, <1>3, <2>6, <2>7, <2>9
    <3> QED
      BY <2>5, <3>1
  <2> QED
    BY <1>2, <1>4, <2>8, <2>9
<1>6. CASE l > array[a].cap /\ Moved(a, l - array[a].cap, Used(a), l)
  <2> DEFINE t == Padded(Used(a), l)
             m == l - array[a].cap
  <2>1. m \in Nat /\ array[a].cap + m = l /\ l <= l /\ l > array[a].len
    BY <1>2, <1>4, <1>6
  <2>2. Len(Used(a)) <= array[a].cap + m /\ l <= array[a].cap + m
    BY <1>2, <1>4, <2>1
  <2>3. Moved(a, m, Used(a), l)
    BY <1>6
  <2> HIDE DEF m, l
  <2>4. view' = [view EXCEPT ![a] = t]
    BY <1>1, <1>2, <1>4, <2>1, <2>2, <2>3, MovedIsList
  <2>5. /\ t \in [1..l -> Values]
        /\ \A i \in 1..Len(Used(a)) : t[i] = Used(a)[i]
    <3>1. ASSUME NEW i \in 1..l
          PROVE  (IF i <= Len(Used(a)) THEN Used(a)[i] ELSE Junk) \in Values
      <4>1. CASE i <= Len(Used(a))
        <5>1. i \in 1..Len(Used(a))
          BY <1>2, <1>4, <4>1
        <5> QED
          BY <1>2, <4>1, <5>1, ElementOfSeq
      <4>2. CASE ~(i <= Len(Used(a)))
        BY <4>2 DEF Values
      <4> QED
        BY <4>1, <4>2
    <3>2. \A i \in 1..Len(Used(a)) : i \in 1..l /\ i <= Len(Used(a))
      BY <1>2, <1>4
    <3> QED
      BY <3>1, <3>2 DEF Padded
  <2> HIDE DEF t
  <2>6. Len(t) = l /\ SubSeq(t, 1, Len(Used(a))) = Used(a)
    BY <1>2, <1>4, <2>5, BeginsWith
  <2>7. Len(t) > Len(view[a]) /\ SubSeq(t, 1, Len(view[a])) = view[a]
    BY <1>2, <1>3, <2>1, <2>6
  <2> QED
    BY <2>4, <2>7
<1> QED
  BY <1>5, <1>6 DEF Grow

LEMMA AppendIsList ==
  ASSUME NoWrap, ArrayInv, NEW a \in Arrays, NEW x \in Items,
         AppendInPlace(a, x) \/ AppendGrowing(a, x)
  PROVE  a \in made /\ view' = [view EXCEPT ![a] = Append(view[a], x)]
<1>1. a \in made /\ made' = made /\ x \in Values
  BY DEF AppendInPlace, AppendGrowing, Values
<1>2. /\ Used(a) \in Seq(Values) /\ Len(Used(a)) = array[a].len
      /\ array[a].len \in Nat /\ array[a].cap \in Nat
      /\ array[a].data \in Nat /\ array[a].len <= array[a].cap
  BY <1>1, UsedRead, ArrayPlaced
<1>3. view[a] = Used(a)
  BY <1>1, ViewOf
<1> DEFINE l == array[a].len + 1
           t == Append(Used(a), x)
<1>4. /\ t \in Seq(Values) /\ Len(t) = l
      /\ \A i \in 1..array[a].len : t[i] = Used(a)[i]
      /\ t[l] = x
  BY <1>1, <1>2, AppendProperties
<1>5. l \in Nat
  BY <1>2
<1>6. CASE AppendInPlace(a, x)
  <2>1. /\ array[a].len < array[a].cap
        /\ mem' = [mem EXCEPT ![array[a].data + array[a].len] = x]
        /\ array' = [array EXCEPT ![a] = [array[a] EXCEPT !.len = array[a].len + 1]]
        /\ array \in [Arrays -> ArrayFields]
    BY <1>6 DEF AppendInPlace, Set, ArrayInv, ArrayTypeOK
  <2>2. array'[a].len = l /\ array'[a].data = array[a].data
        /\ \A c \in Arrays \ {a} : array'[c] = array[c]
    BY <2>1 DEF ArrayFields
  <2>3. \A c \in made : c # a => Used(c)' = Used(c)
    <3> SUFFICES ASSUME NEW c \in made, c # a PROVE Used(c)' = Used(c)
      OBVIOUS
    <3>1. c \in Arrays /\ array'[c] = array[c]
      BY <2>2 DEF ArrayInv, ArrayTypeOK
    <3> QED
      BY <1>1, <1>2, <2>1, <3>1, WriteKeepsOthers
  <2>4. Used(a)' = [i \in 1..l |-> mem'[array[a].data + i - 1]]
    BY <2>2 DEF Used, Slots
  <2>5. ASSUME NEW i \in 1..l
        PROVE  mem'[array[a].data + i - 1] = t[i]
    <3> DEFINE j == i - 1
    <3>1. j \in Nat /\ j < array[a].cap /\ i = j + 1
          /\ array[a].data + j = array[a].data + i - 1
      BY <1>2, <2>1
    <3> HIDE DEF j
    <3>2. /\ j = array[a].len => mem'[array[a].data + j] = x
          /\ j # array[a].len => mem'[array[a].data + j] = mem[array[a].data + j]
      BY <1>1, <1>2, <2>1, <3>1, WriteChangesOne
    <3>3. CASE j = array[a].len
      <4>1. i = l
        BY <1>2, <3>1, <3>3
      <4> HIDE DEF t, l
      <4> QED
        BY <1>4, <3>1, <3>2, <3>3, <4>1
    <3>4. CASE j # array[a].len
      <4>1. i \in 1..array[a].len
        BY <1>2, <3>1, <3>4
      <4>2. Used(a)[i] = mem[array[a].data + i - 1]
        BY <1>1, <4>1, UsedRead
      <4>3. t[i] = Used(a)[i]
        BY <1>4, <4>1
      <4> HIDE DEF t, l
      <4> QED
        BY <3>1, <3>2, <3>4, <4>2, <4>3
    <3> QED
      BY <3>3, <3>4
  <2>6. Used(a)' = t
    <3>1. t \in [1..l -> Values]
      BY <1>4, LenProperties
    <3> HIDE DEF t, l
    <3> QED
      BY <2>4, <2>5, <3>1
  <2>7. view' = [view EXCEPT ![a] = IF a \in made' THEN Used(a)' ELSE None]
    BY <1>1, <2>3, OneChanges
  <2> HIDE DEF t
  <2>8. view' = [view EXCEPT ![a] = t]
    BY <1>1, <2>6, <2>7
  <2> QED
    BY <1>1, <1>3, <2>8 DEF t
<1>7. CASE AppendGrowing(a, x)
  <2>1. array[a].len = array[a].cap /\ Moved(a, GrowBy, t, l)
    BY <1>7 DEF AppendGrowing
  <2>2. GrowBy \in Nat /\ l <= array[a].cap + GrowBy
    BY <1>2, <2>1, ArrayAssumption
  <2> DEFINE u == Padded(t, l)
  <2> HIDE DEF t, l
  <2>3. view' = [view EXCEPT ![a] = u]
    BY <1>1, <1>4, <1>5, <2>1, <2>2, MovedIsList
  <2>4. u = t
    BY <1>4, <1>5, SeqWritten
  <2> HIDE DEF u
  <2> QED
    BY <1>1, <1>3, <2>3, <2>4 DEF t
<1> QED
  BY <1>6, <1>7

LEMMA SetIsList ==
  ASSUME ArrayInv, NEW a \in Arrays, NEW k \in Nat, NEW x \in Items,
         SetItem(a, k, x)
  PROVE  /\ a \in made /\ k + 1 \in 1..Len(view[a])
         /\ view' = [view EXCEPT ![a] = [view[a] EXCEPT ![k + 1] = x]]
<1>1. /\ a \in made /\ made' = made /\ array' = array /\ k < array[a].len
      /\ mem' = [mem EXCEPT ![array[a].data + k] = x]
  BY DEF SetItem
<1>2. /\ Used(a) \in Seq(Values) /\ Len(Used(a)) = array[a].len
      /\ array[a].len \in Nat /\ array[a].cap \in Nat
      /\ array[a].data \in Nat /\ array[a].len <= array[a].cap
      /\ DOMAIN Used(a) = 1..array[a].len
  BY <1>1, UsedRead, ArrayPlaced
<1>3. view[a] = Used(a)
  BY <1>1, ViewOf
<1>4. k < array[a].cap /\ k + 1 \in 1..array[a].len
  BY <1>1, <1>2
<1>5. \A c \in made : c # a => Used(c)' = Used(c)
  BY <1>1, <1>4, WriteKeepsOthers
<1> DEFINE t == [Used(a) EXCEPT ![k + 1] = x]
<1>6. Used(a)' = [i \in 1..array[a].len |-> mem'[array[a].data + i - 1]]
  BY <1>1 DEF Used, Slots
<1>7. ASSUME NEW i \in 1..array[a].len
      PROVE  mem'[array[a].data + i - 1] = IF i = k + 1 THEN x ELSE Used(a)[i]
  <2> DEFINE j == i - 1
  <2>1. j \in Nat /\ j < array[a].cap
        /\ array[a].data + j = array[a].data + i - 1
        /\ (j = k <=> i = k + 1)
    BY <1>2
  <2> HIDE DEF j
  <2>2. /\ j = k => mem'[array[a].data + j] = x
        /\ j # k => mem'[array[a].data + j] = mem[array[a].data + j]
    <3>1. a \in made
      BY <1>1
    <3>2. k < array[a].cap
      BY <1>4
    <3>3. mem' = [mem EXCEPT ![array[a].data + k] = x]
      BY <1>1
    <3>4. j \in Nat /\ j < array[a].cap
      BY <2>1
    <3> QED
      BY <3>1, <3>2, <3>3, <3>4, WriteChangesOne
  <2>3. Used(a)[i] = mem[array[a].data + i - 1]
    BY <1>1, UsedRead
  <2> QED
    BY <2>1, <2>2, <2>3
<1>8. t = [i \in 1..array[a].len |-> IF i = k + 1 THEN x ELSE Used(a)[i]]
  BY <1>2, <1>4
<1>9. Used(a)' = t
  <2> HIDE DEF t
  <2> QED
    BY <1>6, <1>7, <1>8
<1>10. view' = [view EXCEPT ![a] = IF a \in made' THEN Used(a)' ELSE None]
  BY <1>1, <1>5, OneChanges
<1> HIDE DEF t
<1>11. view' = [view EXCEPT ![a] = t]
  BY <1>1, <1>9, <1>10
<1> QED
  BY <1>1, <1>2, <1>3, <1>4, <1>11 DEF t

\* The last item takes the place of the one that is removed.
LEMMA RemoveIsList ==
  ASSUME ArrayInv, NEW a \in Arrays, NEW k \in Nat, RemoveItem(a, k)
  PROVE  /\ a \in made /\ k + 1 \in 1..Len(view[a])
         /\ view' = [view EXCEPT ![a] =
              [i \in 1..(Len(view[a]) - 1) |->
                 IF i = k + 1 THEN view[a][Len(view[a])] ELSE view[a][i]]]
<1> DEFINE l    == array[a].len
           at   == array[a].data
           last == mem[at + l - 1]
<1>1. a \in made /\ made' = made /\ k < l
  BY DEF RemoveItem
<1>2. /\ array' = [array EXCEPT ![a] = [array[a] EXCEPT !.len = l - 1]]
      /\ array \in [Arrays -> ArrayFields]
  BY DEF RemoveItem, Set, ArrayInv, ArrayTypeOK
<1>3. /\ Len(Used(a)) = l /\ l \in Nat /\ array[a].cap \in Nat
      /\ at \in Nat /\ l <= array[a].cap
  BY <1>1, UsedRead, ArrayPlaced
<1>4. view[a] = Used(a)
  BY <1>1, ViewOf
<1>5. k < array[a].cap /\ k + 1 \in 1..l
  BY <1>1, <1>3
<1>6. array'[a].len = l - 1 /\ array'[a].data = at
      /\ \A c \in Arrays \ {a} : array'[c] = array[c]
  BY <1>2 DEF ArrayFields
<1>7. ASSUME l > 1, mem' = [mem EXCEPT ![at + k] = last]
      PROVE  /\ \A c \in made : c # a => Used(c)' = Used(c)
             /\ \A i \in 1..(l - 1) :
                  mem'[at + i - 1] = IF i = k + 1 THEN Used(a)[l] ELSE Used(a)[i]
  <2>1. \A c \in made : c # a => Used(c)' = Used(c)
    <3> SUFFICES ASSUME NEW c \in made, c # a PROVE Used(c)' = Used(c)
      OBVIOUS
    <3>1. array'[c] = array[c]
      BY <1>6 DEF ArrayInv, ArrayTypeOK
    <3>2. k < array[a].cap /\ mem' = [mem EXCEPT ![array[a].data + k] = last]
      BY <1>5, <1>7
    <3> HIDE DEF last
    <3> QED
      BY <1>1, <3>1, <3>2, WriteKeepsOthers
  <2>2. ASSUME NEW i \in 1..(l - 1)
        PROVE  mem'[at + i - 1] = IF i = k + 1 THEN Used(a)[l] ELSE Used(a)[i]
    <3> DEFINE j == i - 1
    <3>1. j \in Nat /\ j < array[a].cap /\ at + j = at + i - 1
          /\ (j = k <=> i = k + 1) /\ i \in 1..l /\ l \in 1..l
      BY <1>3
    <3>2. Used(a)[i] = mem[at + i - 1] /\ Used(a)[l] = last
      BY <1>1, <3>1, UsedRead
    <3> HIDE DEF j, last
    <3>3. /\ j = k => mem'[array[a].data + j] = last
          /\ j # k => mem'[array[a].data + j] = mem[array[a].data + j]
      <4>1. a \in made
        BY <1>1
      <4>2. k < array[a].cap
        BY <1>5
      <4>3. mem' = [mem EXCEPT ![array[a].data + k] = last]
        BY <1>7
      <4>4. j \in Nat /\ j < array[a].cap
        BY <3>1
      <4> QED
        BY <4>1, <4>2, <4>3, <4>4, WriteChangesOne
    <3> HIDE DEF at, l
    <3> QED
      BY <3>1, <3>2, <3>3 DEF at
  <2> QED
    BY <2>1, <2>2
<1>8. ASSUME l <= 1, mem' = mem
      PROVE  /\ \A c \in made : c # a => Used(c)' = Used(c)
             /\ \A i \in 1..(l - 1) :
                  mem'[at + i - 1] = IF i = k + 1 THEN Used(a)[l] ELSE Used(a)[i]
  <2>1. \A c \in made : c # a => Used(c)' = Used(c)
    BY <1>6, <1>8 DEF Used, Slots, ArrayInv, ArrayTypeOK
  <2>2. 1..(l - 1) = {}
    BY <1>3, <1>8
  <2> QED
    BY <2>1, <2>2
<1> DEFINE t == [i \in 1..(l - 1) |-> IF i = k + 1 THEN Used(a)[l] ELSE Used(a)[i]]
<1>9. /\ \A c \in made : c # a => Used(c)' = Used(c)
      /\ \A i \in 1..(l - 1) :
           mem'[at + i - 1] = IF i = k + 1 THEN Used(a)[l] ELSE Used(a)[i]
  <2>1. \/ l > 1 /\ mem' = [mem EXCEPT ![at + k] = last]
        \/ l <= 1 /\ mem' = mem
    BY <1>3 DEF RemoveItem
  <2> QED
    BY <1>7, <1>8, <2>1
<1>10. Used(a)' = [i \in 1..(l - 1) |-> mem'[at + i - 1]]
  BY <1>6 DEF Used, Slots
<1>11. Used(a)' = t
  BY <1>9, <1>10
<1>12. view' = [view EXCEPT ![a] = IF a \in made' THEN Used(a)' ELSE None]
  BY <1>1, <1>9, OneChanges
<1>13. t = [i \in 1..(Len(view[a]) - 1) |->
             IF i = k + 1 THEN view[a][Len(view[a])] ELSE view[a][i]]
  BY <1>3, <1>4
<1>14. k + 1 \in 1..Len(view[a])
  BY <1>3, <1>4, <1>5
<1> HIDE DEF t
<1>15. view' = [view EXCEPT ![a] = t]
  BY <1>1, <1>11, <1>12
<1> QED
  BY <1>1, <1>13, <1>14, <1>15

LEMMA ShrinkIsList ==
  ASSUME ArrayInv, NEW a \in Arrays, NEW n \in Nat, Shrink(a, n)
  PROVE  /\ a \in made /\ n + 1 \in 1..Len(view[a])
         /\ view' = [view EXCEPT ![a] = SubSeq(view[a], 1, n)]
<1>1. /\ a \in made /\ made' = made /\ mem' = mem /\ n < array[a].len
      /\ array' = [array EXCEPT ![a] = [array[a] EXCEPT !.len = n]]
      /\ array \in [Arrays -> ArrayFields]
  BY DEF Shrink, Set, ArrayInv, ArrayTypeOK
<1>2. /\ Used(a) \in Seq(Values) /\ Len(Used(a)) = array[a].len
      /\ array[a].len \in Nat /\ array[a].cap \in Nat
      /\ array[a].len <= array[a].cap
  BY <1>1, UsedRead, ArrayPlaced
<1>3. view[a] = Used(a)
  BY <1>1, ViewOf
<1>4. array'[a].len = n /\ array'[a].data = array[a].data
      /\ \A c \in Arrays \ {a} : array'[c] = array[c]
  BY <1>1 DEF ArrayFields
<1>5. Used(a)' = Slots(a, n)
  BY <1>1, <1>4 DEF Used, Slots
<1>6. \A c \in made : c # a => Used(c)' = Used(c)
  BY <1>1, <1>4 DEF Used, Slots, ArrayInv, ArrayTypeOK
<1>7. Used(a) \in [1..array[a].len -> Values]
  BY <1>2, LenProperties
<1>8. n <= array[a].cap /\ n + 1 \in 1..array[a].len
  BY <1>1, <1>2
<1>9. /\ Slots(a, n) \in Seq(Values) /\ Len(Slots(a, n)) = n
      /\ \A i \in 1..n : Slots(a, n)[i] = mem[array[a].data + i - 1]
  BY <1>1, <1>8, SlotsRead
<1>10. \A i \in 1..n : Used(a)[i] = Slots(a, n)[i] /\ Used(a)[i] \in Values
  <2> SUFFICES ASSUME NEW i \in 1..n
               PROVE  Used(a)[i] = Slots(a, n)[i] /\ Used(a)[i] \in Values
    OBVIOUS
  <2>1. i \in 1..array[a].len
    BY <1>1, <1>2
  <2> QED
    BY <1>1, <1>9, <2>1, UsedRead
<1> DEFINE t == SubSeq(Used(a), 1, n)
<1>11. /\ t \in Seq(Values)
       /\ Len(t) = IF 1 <= n THEN n - 1 + 1 ELSE 0
       /\ \A i \in 1..(n - 1 + 1) : t[i] = Used(a)[1 + i - 1]
  BY <1>10, SubSeqProperties
<1> HIDE DEF t
<1>12. Len(t) = n
  BY <1>11
<1>13. ASSUME NEW i \in 1..n PROVE t[i] = Slots(a, n)[i]
  <2>1. i \in 1..(n - 1 + 1) /\ 1 + i - 1 = i
    OBVIOUS
  <2>2. t[i] = Used(a)[i]
    BY <1>11, <2>1
  <2> QED
    BY <1>10, <2>2
<1>14. t = Slots(a, n)
  BY <1>9, <1>11, <1>12, <1>13, SeqEqual
<1>15. view' = [view EXCEPT ![a] = IF a \in made' THEN Used(a)' ELSE None]
  BY <1>1, <1>6, OneChanges
<1>16. view' = [view EXCEPT ![a] = t]
  BY <1>1, <1>5, <1>14, <1>15
<1> QED
  BY <1>1, <1>2, <1>3, <1>8, <1>16 DEF t

LEMMA DupIsList ==
  ASSUME NoWrap, ArrayInv, NEW a \in Arrays, NEW b \in Arrays, Dup(a, b)
  PROVE  a \in made /\ view' = [view EXCEPT ![b] = view[a]]
<1> DEFINE n == array[a].cap
           l == array[a].len
           s == Slots(a, n)
<1>1. a \in made /\ Fill(n, s) /\ made' = made \cup {b}
      /\ Set(b, [array[a] EXCEPT !.data = At])
  BY DEF Dup
<1>2. /\ n \in Nat /\ n \in Sizes /\ l \in Nat /\ l <= n
      /\ array[a] \in ArrayFields /\ n <= n
  <2>1. /\ n \in 0..MaxCapacity /\ n \in Nat /\ l \in Nat /\ l <= n
        /\ array[a] \in ArrayFields
    BY <1>1, ArrayPlaced
  <2>2. n \in Sizes /\ n <= n
    BY <2>1, CapacityIsSize
  <2> QED
    BY <2>1, <2>2
<1>3. Cuts(n)
  BY <1>2, AllocCuts DEF Dup
<1>4. /\ s \in Seq(Values) /\ Len(s) = n
      /\ \A i \in 1..n : s[i] = mem[array[a].data + i - 1]
  BY <1>1, <1>2, SlotsRead
<1>5. Set(b, [data |-> At, len |-> l, cap |-> n])
  <2>1. ASSUME NEW r \in ArrayFields
        PROVE  [r EXCEPT !.data = At] = [data |-> At, len |-> r.len, cap |-> r.cap]
    BY DEF ArrayFields
  <2>2. [array[a] EXCEPT !.data = At] = [data |-> At, len |-> l, cap |-> n]
    BY <1>2, <2>1
  <2> QED
    BY <1>1, <2>2
<1>6. Padded(s, l) = Used(a)
  <2>1. \A i \in 1..l : i \in 1..n /\ i <= Len(s)
    BY <1>2, <1>4
  <2>2. Used(a) = [i \in 1..l |-> mem[array[a].data + i - 1]]
    BY DEF Used, Slots
  <2> HIDE DEF s, l, n
  <2> QED
    BY <1>4, <2>1, <2>2 DEF Padded
<1> HIDE DEF s, l, n
<1>7. Len(s) <= n
  BY <1>2, <1>4
<1>8. view' = [view EXCEPT ![b] = Padded(s, l)]
  <2>1. n \in Sizes /\ Cuts(n) /\ s \in Seq(Values) /\ Len(s) <= n /\ Fill(n, s)
    BY <1>1, <1>2, <1>3, <1>4, <1>7
  <2>2. l \in Nat /\ l <= n
    BY <1>2
  <2>3. Set(b, [data |-> At, len |-> l, cap |-> n]) /\ made' = made \cup {b}
    BY <1>1, <1>5
  <2> QED
    BY <2>1, <2>2, <2>3, CutIsList
<1>9. view[a] = Used(a)
  BY <1>1, ViewOf
<1> QED
  BY <1>1, <1>6, <1>8, <1>9

LEMMA DupFailsIsList ==
  ASSUME ArrayInv, NEW a \in Arrays, NEW b \in Arrays, DupFails(a, b)
  PROVE  view' = [view EXCEPT ![b] = None]
<1>1. /\ made' = made \ {b} /\ mem' = mem
      /\ array' = [array EXCEPT ![b] = [array[a] EXCEPT !.data = array[b].data]]
      /\ array \in [Arrays -> ArrayFields]
  BY DEF DupFails, Set, ArrayInv, ArrayTypeOK
<1>2. \A c \in Arrays \ {b} : /\ c \in made' <=> c \in made
                              /\ c \in made => Used(c)' = Used(c)
  BY <1>1 DEF Used, Slots
<1>3. view' = [view EXCEPT ![b] = IF b \in made' THEN Used(b)' ELSE None]
  BY <1>2, OneChanges
<1> QED
  BY <1>1, <1>3

----------------------------------------------------------------------------
(* The refinement. *)

LEMMA ListsInit == ArraysInit => Promise!Init
<1> SUFFICES ASSUME ArraysInit PROVE Promise!Init
  OBVIOUS
<1>1. made = {}
  BY DEF ArraysInit
<1> QED
  BY <1>1 DEF Promise!Init

\* Where only the pool is at work the lists are left alone.
LEMMA PoolKeepsLists ==
  ASSUME NoWrap, ArrayInv,
         \/ Starts \/ UNCHANGED allVars
         \/ \E n \in OtherSizes : OtherBlock(n) \/ OtherFails(n)
         \/ \E a \in Arrays, n \in Increases \cup {GrowBy} : GrowFails(a, n)
  PROVE  view' = view
<1>1. CASE UNCHANGED arrayVars
  BY <1>1, NoneChanges DEF arrayVars, Used, Slots
<1>2. ASSUME NEW n \in OtherSizes, OtherBlock(n) PROVE view' = view
  <2>1. n \in Sizes /\ Cuts(n) /\ Fill(n, <<>>) /\ UNCHANGED <<array, made>>
    BY <1>2, AskedAssumption, AllocCuts DEF OtherBlock
  <2> DEFINE s == <<>>
  <2>2. s \in Seq(Values) /\ Len(s) <= n /\ Fill(n, s)
    BY <2>1, SizeAssumption, EmptySeq
  <2> HIDE DEF s
  <2>3. \A a \in made : Used(a)' = Used(a)
    BY <2>1, <2>2, CutKeepsUsed
  <2> QED
    BY <2>1, <2>3, NoneChanges
<1> QED
  BY <1>1, <1>2, GrowFailsAsks DEF Starts, OtherFails, allVars

LEMMA ListsStep ==
  ASSUME NoWrap
  PROVE  ArrayInv /\ [ArraysNext]_allVars => Promise!Next \/ view' = view
<1> SUFFICES ASSUME ArrayInv, [ArraysNext]_allVars
             PROVE  Promise!Next \/ view' = view
  OBVIOUS
<1>v. view = [a \in Arrays |-> IF a \in made THEN Used(a) ELSE None]
  BY DEF view
<1>l. ASSUME NEW a \in made PROVE a \in Promise!Lists
  <2>1. a \in Arrays
    BY ArrayPlaced
  <2>2. view[a] # None
    BY <2>1, ViewOf
  <2> QED
    BY <2>1, <2>2 DEF Promise!Lists, view
<1>c. ASSUME NEW a \in Arrays, NEW s
      PROVE  Promise!But(a, s) = [view EXCEPT ![a] = s]
  BY DEF Promise!But, view
<1>p. ASSUME NEW i \in 0..MaxCapacity PROVE i \in Nat
  BY ArrayAssumption
<1>1. CASE \/ Starts \/ UNCHANGED allVars
           \/ \E n \in OtherSizes : OtherBlock(n) \/ OtherFails(n)
           \/ \E a \in Arrays, n \in Increases \cup {GrowBy} : GrowFails(a, n)
  BY <1>1, PoolKeepsLists
<1>2. CASE Discards
  <2>1. made' = {}
    BY <1>2 DEF Discards
  <2>2. Promise!DiscardAll
    BY <2>1 DEF Promise!DiscardAll
  <2> QED
    BY <2>2 DEF Promise!Next
<1>3. ASSUME NEW a \in Arrays, NEW n \in Capacities, MakeArray(a, n)
      PROVE  Promise!Next
  <2>1. view' = Promise!But(a, <<>>)
    BY <1>c, <1>3, MakeIsList
  <2>2. Promise!Make(a)
    BY <2>1 DEF Promise!Make, view
  <2> QED
    BY <2>2 DEF Promise!Next
<1>4. ASSUME NEW a \in Arrays, NEW n \in Increases, GrowCapacity(a, n)
      PROVE  view' = view
  BY <1>4, GrowCapacityIsList
<1>5. ASSUME NEW a \in Arrays, NEW n \in Increases, Grow(a, n)
      PROVE  Promise!Next \/ view' = view
  <2>1. a \in Promise!Lists
    BY <1>l, <1>5 DEF Grow
  <2>2. CASE view' = view
    BY <2>2
  <2>3. ASSUME NEW t, view' = [view EXCEPT ![a] = t],
               Len(t) > Len(view[a]),
               SubSeq(t, 1, Len(view[a])) = view[a]
        PROVE  Promise!Next
    <3>1. view'[a] = t /\ view' = Promise!But(a, view'[a])
      BY <1>c, <2>3 DEF view
    <3>2. Len(view'[a]) > Len(view[a]) /\ SubSeq(view'[a], 1, Len(view[a])) = view[a]
      BY <2>3, <3>1
    <3>3. Promise!Extend(a)
      BY <3>1, <3>2 DEF Promise!Extend, view
    <3> QED
      BY <2>1, <3>3 DEF Promise!Next
  <2> QED
    BY <1>5, <2>2, <2>3, GrowIsList
<1>6. ASSUME NEW a \in Arrays, NEW x \in Items,
             AppendInPlace(a, x) \/ AppendGrowing(a, x)
      PROVE  Promise!Next
  <2>1. a \in made /\ view' = Promise!But(a, Append(view[a], x))
    <3> DEFINE t == Append(view[a], x)
    <3>1. a \in made /\ view' = [view EXCEPT ![a] = t]
      BY <1>6, AppendIsList
    <3> HIDE DEF t
    <3>2. view' = Promise!But(a, t)
      BY <1>c, <3>1
    <3> QED
      BY <3>1, <3>2 DEF t
  <2>2. Promise!Push(a, x)
    BY <2>1 DEF Promise!Push, view
  <2> QED
    BY <1>l, <2>1, <2>2 DEF Promise!Next
<1>7. ASSUME NEW a \in Arrays, NEW x \in Items, NEW i \in 0..MaxCapacity,
             SetItem(a, i, x)
      PROVE  Promise!Next
  <2>1. /\ a \in made /\ i + 1 \in 1..Len(view[a])
        /\ view' = Promise!But(a, [view[a] EXCEPT ![i + 1] = x])
    BY <1>p, <1>c, <1>7, SetIsList
  <2>2. Promise!Put(a, i + 1, x)
    BY <2>1 DEF Promise!Put, view
  <2>3. \E k \in 1..Len(view[a]) : Promise!Put(a, k, x)
    BY <2>1, <2>2
  <2> QED
    BY <1>l, <2>1, <2>3 DEF Promise!Next, view
<1>8. ASSUME NEW a \in Arrays, NEW i \in 0..MaxCapacity, RemoveItem(a, i)
      PROVE  Promise!Next
  <2> DEFINE t == [k \in 1..(Len(view[a]) - 1) |->
                     IF k = i + 1 THEN view[a][Len(view[a])] ELSE view[a][k]]
  <2>1. /\ a \in made /\ i + 1 \in 1..Len(view[a])
        /\ view' = Promise!But(a, t)
    <3>1. /\ a \in made /\ i + 1 \in 1..Len(view[a])
          /\ view' = [view EXCEPT ![a] = t]
      BY <1>p, <1>8, RemoveIsList
    <3> HIDE DEF t
    <3> QED
      BY <1>c, <3>1
  <2>2. Promise!RemoveSwap(a, i + 1)
    BY <2>1 DEF Promise!RemoveSwap, view
  <2>3. \E k \in 1..Len(view[a]) : Promise!RemoveSwap(a, k)
    BY <2>1, <2>2
  <2> QED
    BY <1>l, <2>1, <2>3 DEF Promise!Next, view
<1>9. ASSUME NEW a \in Arrays, NEW i \in 0..MaxCapacity, Shrink(a, i)
      PROVE  Promise!Next
  <2>1. /\ a \in made /\ i + 1 \in 1..Len(view[a])
        /\ view' = Promise!But(a, SubSeq(view[a], 1, i))
    <3> DEFINE t == SubSeq(view[a], 1, i)
    <3>1. /\ a \in made /\ i + 1 \in 1..Len(view[a])
          /\ view' = [view EXCEPT ![a] = t]
      BY <1>p, <1>9, ShrinkIsList
    <3> HIDE DEF t
    <3>2. view' = Promise!But(a, t)
      BY <1>c, <3>1
    <3> QED
      BY <3>1, <3>2 DEF t
  <2>2. i \in Nat /\ (i + 1) - 1 = i
    BY <1>p
  <2>3. Promise!Truncate(a, (i + 1) - 1)
    BY <2>1, <2>2 DEF Promise!Truncate, view
  <2>4. \E k \in 1..Len(view[a]) : Promise!Truncate(a, k - 1)
    BY <2>1, <2>3
  <2> QED
    BY <1>l, <2>1, <2>4 DEF Promise!Next, view
<1>10. ASSUME NEW a \in Arrays, NEW b \in Arrays, Dup(a, b)
       PROVE  Promise!Next
  <2>1. a \in made /\ view' = Promise!But(b, view[a])
    BY <1>c, <1>10, DupIsList
  <2>2. Promise!Copy(a, b)
    BY <2>1 DEF Promise!Copy, view
  <2> QED
    BY <1>l, <2>1, <2>2 DEF Promise!Next
<1>11. ASSUME NEW a \in Arrays, NEW b \in Arrays, DupFails(a, b)
       PROVE  Promise!Next
  <2>1. view' = Promise!But(b, None)
    BY <1>c, <1>11, DupFailsIsList
  <2>2. Promise!Lose(b)
    BY <2>1 DEF Promise!Lose, view
  <2> QED
    BY <2>2 DEF Promise!Next
<1> HIDE DEF Promise!Next
<1> QED
  BY <1>1, <1>2, <1>3, <1>4, <1>5, <1>6, <1>7, <1>8, <1>9, <1>10, <1>11
     DEF ArraysNext

\* To their users the arrays are lists: whatever moves in the pool below
\* them, an operation changes one list and in the way ItemList says.
THEOREM ArraysAreLists ==
  ASSUME NoWrap
  PROVE  ArraysSpec => KeepsLists
<1>1. ArrayInv /\ [ArraysNext]_allVars => Promise!Next \/ view' = view
  BY ListsStep
<1>2. ArrayInv /\ [ArraysNext]_allVars =>
        [Promise!Next]_[a \in Arrays |-> IF a \in made THEN Used(a) ELSE None]
  BY <1>1 DEF view
<1> QED
  BY <1>2, ListsInit, ArrayInvHolds, PTL DEF ArraysSpec, KeepsLists, Promise!Spec

=============================================================================
