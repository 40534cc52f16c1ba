-------------------------------- MODULE Pool --------------------------------
(***************************************************************************)
(* The memory pool of libae/pool.c: blocks are cut one after the other off *)
(* a mapping that grows in place, and are given back all at once.          *)
(*                                                                         *)
(* Addresses are numbers.  Pointer and size arithmetic is done modulo Top, *)
(* as the build does it.  What the bytes hold is left out, except for how  *)
(* many of them ae_pool_realloc copies and where to.                       *)
(***************************************************************************)
EXTENDS Naturals

CONSTANTS
  Align,         \* 16 or 8 in the code
  PageSize,      \* getpagesize()
  Base,          \* where mmap puts the mapping
  MaxLen,        \* how far the kernel can let it grow
  Top,           \* size of the address space and values of size_t
  InitialSizes,  \* arguments of ae_pool_init
  Sizes          \* arguments of ae_pool_alloc and ae_pool_realloc

IsMultiple(x, a) == \E k \in 0..x : x = k * a

ASSUME PageAssumption ==
  /\ Align \in Nat \ {0} /\ PageSize \in Nat \ {0} /\ Base \in Nat
  /\ IsMultiple(PageSize, Align) /\ IsMultiple(Base, Align)
ASSUME SizeAssumption ==
  /\ MaxLen \in Nat /\ Top \in Nat /\ Base + MaxLen < Top
  /\ InitialSizes \subseteq Nat /\ Sizes \subseteq Nat

VARIABLES
  mapped,  \* between ae_pool_init and ae_pool_uninit
  len,     \* self->len
  next,    \* self->next
  blocks,  \* blocks handed out since the last reset
  copied,  \* what the last ae_pool_realloc copied: a set of at most one
  result   \* how the last call ended

vars == <<mapped, len, next, blocks, copied, result>>

End   == Base + len                    \* self->end
Block == [lo : Nat, len : Nat]

TypeOK ==
  /\ mapped \in BOOLEAN
  /\ len \in Nat /\ next \in Nat
  /\ blocks \subseteq Block
  /\ copied \subseteq [len : Nat, room : Nat]
  /\ result \in {"ok", "nomem", "unimplemented"}

\* Rounding up to a multiple, as ALIGN_PTR and the page computations do it.
RoundUp(x, a) == ((x + (a - 1)) \div a) * a

Init ==
  /\ mapped = FALSE
  /\ len = 0 /\ next = Base
  /\ blocks = {} /\ copied = {}
  /\ result = "ok"

\* ae_pool_init; mmap may fail, and refuses an empty mapping.
PoolInit(size) ==
  /\ ~mapped
  /\ len' = RoundUp(size, PageSize)
  /\ \/ /\ len' \in 1..MaxLen
        /\ mapped' = TRUE
        /\ next' = Base
        /\ result' = "ok"
     \/ result' = "nomem" /\ UNCHANGED <<mapped, next>>
  /\ UNCHANGED <<blocks, copied>>

PoolUninit ==
  /\ mapped
  /\ mapped' = FALSE
  /\ blocks' = {} /\ copied' = {}
  /\ result' = "ok"
  /\ UNCHANGED <<len, next>>

PoolReset ==
  /\ mapped
  /\ next' = Base
  /\ blocks' = {} /\ copied' = {}
  /\ result' = "ok"
  /\ UNCHANGED <<mapped, len>>

----------------------------------------------------------------------------
(* ae_pool_alloc. *)

At       == RoundUp(next, Align)
Fits(n)  == (At + n) % Top <= End

\* Mutant of NewLen: the old length is left out.
NewLenOfBlock(n) == RoundUp(n, PageSize) % Top

\* ae_pool_remap asks for the old length and all of the new block.
NewLen(n) == RoundUp((len + n) % Top, PageSize) % Top

\* The mapping, if it must and can grow: mremap may not move it.
Grows(n) ==
  IF Fits(n) THEN UNCHANGED len
  ELSE /\ NewLen(n) \in 1..MaxLen
       /\ len' = NewLen(n)

\* Mutants of Takes: the padding is left out of the next address, or the
\* length is subtracted.
TakesUnpadded(n) ==
  /\ next' = (next + n) % Top
  /\ blocks' = blocks \cup {[lo |-> At, len |-> n]}
  /\ result' = "ok"

TakesDownwards(n) ==
  /\ next' = At - n
  /\ blocks' = blocks \cup {[lo |-> At, len |-> n]}
  /\ result' = "ok"

\* The block begins at the aligned address and the next one behind it.
Takes(n) ==
  /\ next' = (At + n) % Top
  /\ blocks' = blocks \cup {[lo |-> At, len |-> n]}
  /\ result' = "ok"

\* ae_pool_alloc, and ae_pool_calloc and ae_pool_strdup, which fill the
\* block afterwards.
Alloc(n) ==
  /\ mapped
  /\ Grows(n) /\ Takes(n)
  /\ copied' = {}
  /\ UNCHANGED mapped

\* mremap has failed.
AllocFails(n) ==
  /\ mapped /\ ~Fits(n)
  /\ result' = "nomem"
  /\ copied' = {}
  /\ UNCHANGED <<mapped, len, next, blocks>>

----------------------------------------------------------------------------
(* ae_pool_realloc. *)

\* The memory to be moved is the srcLen bytes from src on; the call knows
\* nothing of the block they are from.
IsLast(src, srcLen) == src + srcLen = next

\* The case in which the block could grow in place is not implemented.
ReallocLast(src, srcLen) ==
  /\ mapped /\ IsLast(src, srcLen)
  /\ result' = "unimplemented"
  /\ copied' = {}
  /\ UNCHANGED <<mapped, len, next, blocks>>

\* Any other memory is copied, all of it, to a new block.
Realloc(src, srcLen, n) ==
  /\ mapped /\ ~IsLast(src, srcLen)
  /\ Grows(n) /\ Takes(n)
  /\ copied' = {[len |-> srcLen, room |-> n]}
  /\ UNCHANGED mapped

\* A caller reallocates a block it was given, or as much of it as it uses.
Next ==
  \/ \E n \in InitialSizes : PoolInit(n)
  \/ PoolUninit \/ PoolReset
  \/ \E n \in Sizes : Alloc(n) \/ AllocFails(n)
  \/ \E b \in blocks : \E l \in 0..b.len :
       ReallocLast(b.lo, l) \/ \E n \in Sizes : Realloc(b.lo, l, n)

Spec == Init /\ [][Next]_vars

----------------------------------------------------------------------------

\* Every block handed out is aligned, lies in the mapping and before the
\* place the next one is cut from, also when the mapping had to grow for it
\* and padding came before it.
BlocksPlaced ==
  \A b \in blocks :
    /\ IsMultiple(b.lo, Align)
    /\ Base <= b.lo /\ b.lo + b.len <= next /\ next <= End

\* No two blocks share a byte.
BlocksDisjoint ==
  \A b, c \in blocks : b # c => b.lo + b.len <= c.lo \/ c.lo + c.len <= b.lo

\* "how many bytes to allocate" (ae/pool.h, len of ae_pool_alloc): a block
\* handed out is all there.
BlocksMapped == \A b \in blocks : b.lo + b.len <= End

\* "this will attempt to grow the src pointer, if possible.  If it can't it
\* will allocate a new block of memory" (ae/pool.h, ae_pool_realloc): the
\* call fails only for want of memory.
ReallocIsTotal == result # "unimplemented"

\* "Much like realloc() in the standard library" (ae/pool.h): what is copied
\* fits into the new block.
CopyFits == \A c \in copied : c.len <= c.room

=============================================================================
