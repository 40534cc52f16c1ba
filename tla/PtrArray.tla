------------------------------ MODULE PtrArray ------------------------------
(***************************************************************************)
(* The pointer array of libae/ptrarray.c on the memory pool: arrays cut    *)
(* from one pool beside other users of it, and the items they hold.  The   *)
(* unit of address is one pointer.                                         *)
(***************************************************************************)
EXTENDS Pool, Sequences

CONSTANTS
  Arrays,      \* the ae_ptrarray_t objects
  Items,       \* what is stored
  Junk,        \* what memory holds that nobody has written since it was cut
  None,        \* the list of an array that may not be used
  GrowBy,      \* 16 in the code: slots added by an append to a full array
  Capacities,  \* arguments of ae_ptrarray_init
  Increases,   \* arguments of ae_ptrarray_grow_capacity, ps_ptrarray_grow
  OtherSizes,  \* what the other users of the pool ask for
  MaxCapacity  \* bound: no array is made larger

ASSUME ArrayAssumption ==
  /\ GrowBy \in Nat \ {0} /\ MaxCapacity \in Nat
  /\ Capacities \subseteq 0..MaxCapacity /\ Increases \subseteq Nat
  /\ Junk \notin Items /\ None \notin Seq(Items \cup {Junk})
\* Sizes has every size that the arrays and the others ask the pool for.
ASSUME AskedAssumption ==
  /\ OtherSizes \subseteq Sizes
  /\ \A c \in 0..MaxCapacity, n \in Increases \cup {0, GrowBy} : c + n \in Sizes

VARIABLES
  array,  \* the fields data, len and capacity of every object
  made,   \* the arrays that may be used
  mem     \* what each address holds

arrayVars == <<array, made, mem>>
allVars   == <<vars, arrayVars>>

Cells == Base..(Base + MaxLen - 1)

ArraysInit ==
  /\ Init
  /\ array = [a \in Arrays |-> [data |-> 0, len |-> 0, cap |-> 0]]
  /\ made = {}
  /\ mem = [c \in Cells |-> Junk]

\* The items in use, and the first n slots.
Slots(a, n) == [i \in 1..n |-> mem[array[a].data + i - 1]]
Used(a)     == Slots(a, array[a].len)

\* The block of n slots cut by this step begins with the items of s.
Fill(n, s) ==
  mem' = [c \in Cells |-> IF c \notin At..(At + n - 1) THEN mem[c]
                          ELSE IF c - At < Len(s) THEN s[c - At + 1] ELSE Junk]

Set(a, fields) == array' = [array EXCEPT ![a] = fields]

\* ae_ptrarray_init; when the pool fails, the object is as it was.
MakeArray(a, n) ==
  /\ Alloc(n) /\ Fill(n, <<>>)
  /\ Set(a, [data |-> At, len |-> 0, cap |-> n])
  /\ made' = made \cup {a}

----------------------------------------------------------------------------
(* Growing. *)

\* Mutant of Moved: the capacity is copied and not the length.
MovedWhole(a, n, s, l) ==
  LET cap == array[a].cap + n
  IN  /\ cap <= MaxCapacity
      /\ Realloc(array[a].data, cap, cap)
      /\ Fill(cap, s)
      /\ Set(a, [data |-> At, len |-> l, cap |-> cap])

\* A reallocation by n slots: the items in use are copied, and the array
\* then holds l items that begin with s.
Moved(a, n, s, l) ==
  LET cap == array[a].cap + n
  IN  /\ cap <= MaxCapacity
      /\ Realloc(array[a].data, array[a].len, cap)
      /\ Fill(cap, s)
      /\ Set(a, [data |-> At, len |-> l, cap |-> cap])

\* ae_ptrarray_grow_capacity.
GrowCapacity(a, n) ==
  /\ a \in made
  /\ Moved(a, n, Used(a), array[a].len)
  /\ UNCHANGED made

\* It fails when the array ends where the pool does, or for want of memory.
GrowFails(a, n) ==
  /\ a \in made
  /\ \/ ReallocLast(array[a].data, array[a].len)
     \/ ~IsLast(array[a].data, array[a].len) /\ AllocFails(array[a].cap + n)
  /\ UNCHANGED arrayVars

\* ps_ptrarray_grow refuses a length below the capacity.
Grow(a, n) ==
  LET l == array[a].len + n
  IN  /\ a \in made
      /\ \/ /\ l = array[a].cap
            /\ Set(a, [array[a] EXCEPT !.len = l])
            /\ UNCHANGED <<vars, mem>>
         \/ l > array[a].cap /\ Moved(a, l - array[a].cap, Used(a), l)
      /\ UNCHANGED made

\* ae_ptrarray_append.
AppendInPlace(a, x) ==
  /\ a \in made /\ array[a].len < array[a].cap
  /\ mem' = [mem EXCEPT ![array[a].data + array[a].len] = x]
  /\ Set(a, [array[a] EXCEPT !.len = @ + 1])
  /\ UNCHANGED <<vars, made>>

AppendGrowing(a, x) ==
  /\ a \in made /\ array[a].len = array[a].cap
  /\ Moved(a, GrowBy, Append(Used(a), x), array[a].len + 1)
  /\ UNCHANGED made

----------------------------------------------------------------------------
(* Operations that do not grow. *)

\* The macro ae_ptrarray_set.
SetItem(a, i, x) ==
  /\ a \in made /\ i < array[a].len
  /\ mem' = [mem EXCEPT ![array[a].data + i] = x]
  /\ UNCHANGED <<vars, array, made>>

\* Mutant of RemoveItem: the item behind the last one is moved.
RemoveItemBehind(a, i) ==
  /\ a \in made /\ i < array[a].len
  /\ mem' = IF array[a].len > 1 /\ array[a].len < array[a].cap
            THEN [mem EXCEPT ![array[a].data + i] =
                    mem[array[a].data + array[a].len]]
            ELSE mem
  /\ Set(a, [array[a] EXCEPT !.len = @ - 1])
  /\ UNCHANGED <<vars, made>>

\* ae_ptrarray_remove; with an empty array it does nothing.
RemoveItem(a, i) ==
  /\ a \in made /\ i < array[a].len
  /\ mem' = IF array[a].len > 1
            THEN [mem EXCEPT ![array[a].data + i] =
                    mem[array[a].data + array[a].len - 1]]
            ELSE mem
  /\ Set(a, [array[a] EXCEPT !.len = @ - 1])
  /\ UNCHANGED <<vars, made>>

\* ae_ptrarray_shrink; a size that is not smaller does nothing.
Shrink(a, n) ==
  /\ a \in made /\ n < array[a].len
  /\ Set(a, [array[a] EXCEPT !.len = n])
  /\ UNCHANGED <<vars, made, mem>>

\* Mutant of Dup: the copy shares the slots.
DupShared(a, b) ==
  /\ a \in made /\ a # b
  /\ Alloc(array[a].cap) /\ Fill(array[a].cap, Slots(a, array[a].cap))
  /\ Set(b, array[a])
  /\ made' = made \cup {b}

\* ae_ptrarray_dup: all slots are copied, used or not.
Dup(a, b) ==
  /\ a \in made /\ a # b
  /\ Alloc(array[a].cap) /\ Fill(array[a].cap, Slots(a, array[a].cap))
  /\ Set(b, [array[a] EXCEPT !.data = At])
  /\ made' = made \cup {b}

\* When the pool fails, len and capacity are set already and data is not.
DupFails(a, b) ==
  /\ a \in made /\ a # b
  /\ AllocFails(array[a].cap)
  /\ Set(b, [array[a] EXCEPT !.data = array[b].data])
  /\ made' = made \ {b}
  /\ UNCHANGED mem

----------------------------------------------------------------------------
(* Other users of the pool. *)

Starts == (\E n \in InitialSizes : PoolInit(n)) /\ UNCHANGED arrayVars

\* Whoever resets or unmaps the pool may not use its arrays any more.
Discards ==
  /\ PoolReset \/ PoolUninit
  /\ made' = {}
  /\ array' = [a \in Arrays |-> [data |-> 0, len |-> 0, cap |-> 0]]
  /\ mem' = [c \in Cells |-> Junk]

OtherBlock(n) == Alloc(n) /\ Fill(n, <<>>) /\ UNCHANGED <<array, made>>

OtherFails(n) == AllocFails(n) /\ UNCHANGED arrayVars

ArraysNext ==
  \/ Starts \/ Discards
  \/ \E n \in OtherSizes : OtherBlock(n) \/ OtherFails(n)
  \/ \E a \in Arrays :
       \/ \E n \in Capacities : MakeArray(a, n)
       \/ \E n \in Increases : GrowCapacity(a, n) \/ GrowFails(a, n) \/ Grow(a, n)
       \/ GrowFails(a, GrowBy)
       \/ \E x \in Items :
            \/ AppendInPlace(a, x) \/ AppendGrowing(a, x)
            \/ \E i \in 0..MaxCapacity : SetItem(a, i, x)
       \/ \E i \in 0..MaxCapacity : RemoveItem(a, i) \/ Shrink(a, i)
       \/ \E b \in Arrays : Dup(a, b) \/ DupFails(a, b)

ArraysSpec == ArraysInit /\ [][ArraysNext]_allVars

----------------------------------------------------------------------------

\* Every array has a block of the pool that is as large as its capacity and
\* that no other array has, however arrays grow past each other and are
\* copied, and holds no more items than that.
SlotsOwned ==
  \A a \in made :
    /\ [lo |-> array[a].data, len |-> array[a].cap] \in blocks
    /\ array[a].len <= array[a].cap
    /\ \A b \in made \ {a} :
         array[a].cap > 0 /\ array[b].cap > 0 => array[b].data # array[a].data

\* The arrays use the pool as its theorems assume: they reallocate only
\* memory that is theirs, so what holds of the pool holds with the arrays.
UsesPool == Init /\ [][Next]_vars

\* To their users the arrays are lists: items stay, in their places, when an
\* array moves, when another one grows over the place it had, or when the
\* pool refuses; every operation changes one list as ae/ptrarray.h says.
Promise == INSTANCE ItemList WITH
  list <- [a \in Arrays |-> IF a \in made THEN Used(a) ELSE None]

KeepsLists == Promise!Spec

=============================================================================
