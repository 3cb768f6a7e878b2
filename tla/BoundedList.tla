----------------------------- MODULE BoundedList -----------------------------
(***************************************************************************)
(* What a chain array promises: a list of at most Capacity values to which  *)
(* values are added at the end and from which any one of them can be taken, *)
(* the others staying in their order.  ChainArray is shown to implement it. *)
(***************************************************************************)
EXTENDS Naturals, Sequences

CONSTANTS Capacity, Values

VARIABLE items

Init == items = << >>

Add == Len(items) < Capacity /\ \E v \in Values : items' = Append(items, v)

Remove ==
    \E i \in DOMAIN items :
        items' = SubSeq(items, 1, i - 1) \o SubSeq(items, i + 1, Len(items))

Next == Add \/ Remove

Spec == Init /\ [][Next]_items

=============================================================================
