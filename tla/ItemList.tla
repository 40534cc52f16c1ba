------------------------------ MODULE ItemList ------------------------------
(***************************************************************************)
(* What the pointer array of libae/ptrarray.c promises (ae/ptrarray.h):    *)
(* each array is a list of items, or None while it may not be used, and an *)
(* operation on one leaves the others alone.  An operation may also fail,  *)
(* and then changes nothing.                                               *)
(***************************************************************************)
EXTENDS Sequences, Naturals

CONSTANTS Arrays, Items, None

VARIABLE list   \* per array

Init == list = [a \in Arrays |-> None]

Lists  == {a \in Arrays : list[a] # None}
But(a, s) == [list EXCEPT ![a] = s]

Make(a) == list' = But(a, <<>>)

Push(a, x) == list' = But(a, Append(list[a], x))

Put(a, i, x) == list' = But(a, [list[a] EXCEPT ![i] = x])

\* The last item takes the place of the one removed.
RemoveSwap(a, i) ==
  LET l == list[a]
  IN  list' = But(a, [k \in 1..(Len(l) - 1) |-> IF k = i THEN l[Len(l)]
                                                ELSE l[k]])

Truncate(a, n) == list' = But(a, SubSeq(list[a], 1, n))

\* "unused slots may be uninitialized": nothing is said of the new ones.
Extend(a) ==
  /\ list' = But(a, list'[a])
  /\ Len(list'[a]) > Len(list[a])
  /\ SubSeq(list'[a], 1, Len(list[a])) = list[a]

Copy(a, b) == list' = But(b, list[a])

\* A copy that fails leaves the array it was to fill unusable.
Lose(b) == list' = But(b, None)

DiscardAll == list' = [a \in Arrays |-> None]

Next ==
  \/ DiscardAll
  \/ \E a \in Arrays : Make(a) \/ Lose(a)
  \/ \E a \in Lists :
       \/ Extend(a)
       \/ \E x \in Items : Push(a, x) \/ \E i \in 1..Len(list[a]) : Put(a, i, x)
       \/ \E i \in 1..Len(list[a]) : RemoveSwap(a, i) \/ Truncate(a, i - 1)
       \/ \E b \in Arrays : Copy(a, b)

Spec == Init /\ [][Next]_list

=============================================================================
