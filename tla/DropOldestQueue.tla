--------------------------- MODULE DropOldestQueue ---------------------------
(***************************************************************************)
(* What the message queue promises to one user at a time: a first-in        *)
(* first-out queue of at most Capacity messages that makes room for a new   *)
(* message by dropping its oldest one.  MessageQueue is shown to implement  *)
(* it.                                                                      *)
(***************************************************************************)
EXTENDS Naturals, Sequences

CONSTANTS Capacity, Messages, Nothing

VARIABLES items,   \* the messages kept, the oldest first
          taken    \* the answer to the last Take, Nothing if there was none

Init == items = << >> /\ taken = Nothing

Put ==
    /\ \E m \in Messages :
           items' = Append(IF Len(items) = Capacity THEN Tail(items) ELSE items, m)
    /\ UNCHANGED taken

Take ==
    IF items = << >> THEN taken' = Nothing /\ UNCHANGED items
    ELSE taken' = Head(items) /\ items' = Tail(items)

Next == Put \/ Take

Spec == Init /\ [][Next]_<<items, taken>>

=============================================================================
