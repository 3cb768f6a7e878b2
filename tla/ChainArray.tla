------------------------------ MODULE ChainArray ------------------------------
(***************************************************************************)
(* A chain array and its user.  The user adds values, removes blocks that   *)
(* are in use, and walks the list; while it walks it may remove the block   *)
(* it has just left, after asking for the next one (the loop of             *)
(* qs_remove_packet_route_core), and nothing else.                          *)
(***************************************************************************)
EXTENDS Chain, Sequences, FiniteSets

VARIABLES chain,
          at,        \* the block a walk has come to, None when there is no walk
          visited,   \* the values of the blocks the walk has come to
          expected   \* the values in the list when the walk began

vars == <<chain, at, visited, expected>>

\* the blocks from the start on, and how many of them are in use
Order(c) ==
    LET o[k \in Blocks] ==
            IF k = 0 THEN c.start ELSE IF o[k - 1] = None THEN None ELSE c.next[o[k - 1]]
    IN  o
UsedCount(c) == CHOOSE k \in Blocks : Order(c)[k] = c.tail
Used(c) == {Order(c)[k] : k \in 0 .. UsedCount(c) - 1}
Items == [k \in 1 .. UsedCount(chain) |-> chain.data[Order(chain)[k - 1]]]

Init == chain = NewChain /\ at = None /\ visited = << >> /\ expected = << >>

Add(v) ==
    /\ at = None
    /\ chain' = AddChain(chain, v)
    /\ UNCHANGED <<at, visited, expected>>

Remove(b) ==
    /\ at = None
    /\ chain' = RemoveChain(chain, b)
    /\ UNCHANGED <<at, visited, expected>>

Begin ==
    /\ at = None /\ NextBlock(chain, None) # None
    /\ at' = NextBlock(chain, None)
    /\ visited' = <<chain.data[at']>>
    /\ expected' = Items
    /\ UNCHANGED chain

\* the block before the walk's new place may go
Step(remove) ==
    /\ at # None
    /\ at' = NextBlock(chain, at)
    /\ chain' = IF remove THEN RemoveChain(chain, at) ELSE chain
    /\ visited' = IF at' = None THEN visited ELSE Append(visited, chain.data[at'])
    /\ UNCHANGED expected

Next ==
    \/ \E v \in Values : Add(v)
    \/ \E b \in Used(chain) : Remove(b)
    \/ Begin
    \/ \E remove \in BOOLEAN : Step(remove)

Spec == Init /\ [][Next]_vars

-----------------------------------------------------------------------------
\* Type invariant.
TypeOK == chain \in Chains /\ at \in Blocks \cup {None}

\* The links of qs_remove_chain never lose a block: the list goes through every block
\* once, from "start" to "end", by "next" and back by "prev".
OneList ==
    LET o == Order(chain) IN
    /\ TypeOK
    /\ {o[k] : k \in Blocks} = Blocks
    /\ o[Capacity] = chain.end /\ chain.next[chain.end] = None
    /\ chain.prev[chain.start] = None
    /\ \A k \in Blocks \ {0} : chain.prev[o[k]] = o[k - 1]

L == INSTANCE BoundedList WITH items <- Items

\* The chain is a bounded list: an add appends or finds the list full, a remove takes
\* out the value of its block and leaves the others in order.
ImplementsList == L!Spec

\* A walk that removes blocks as it leaves them comes to every value that was in the
\* list when it began, once and in order.
WalkComplete == [][at # None /\ at' = None => visited' = expected]_vars

=============================================================================
