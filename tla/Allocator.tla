------------------------------ MODULE Allocator ------------------------------
(***************************************************************************)
(* What a memory pool promises to its callers: blocks are handed out under  *)
(* ids, two blocks that are in use never share a byte, a block keeps its    *)
(* place and its size until it is given back, and giving one back or        *)
(* cleaning the pool touches nothing else.  How the pool finds the space is *)
(* not said here; MemoryPool is shown to implement this module.             *)
(***************************************************************************)
EXTENDS Integers

CONSTANTS Ids,     \* the ids a block can have
          Bytes    \* the addresses and lengths a block can have

VARIABLE live      \* id of a block in use -> its first byte and its length

Block == [p : Bytes, size : Bytes]

\* two blocks share no byte
Apart(a, b) == a.p + a.size <= b.p \/ b.p + b.size <= a.p

Init == DOMAIN live = {}

\* a block under an id that is not in use, apart from every block in use
Alloc ==
    \E id \in DOMAIN live' \ DOMAIN live :
        /\ id \in Ids
        /\ DOMAIN live' = DOMAIN live \cup {id}
        /\ live'[id] \in Block
        /\ \A i \in DOMAIN live : live'[i] = live[i] /\ Apart(live[i], live'[id])

Free ==
    \E id \in DOMAIN live :
        live' = [i \in DOMAIN live \ {id} |-> live[i]]

Clean == DOMAIN live' = {}

Next == Alloc \/ Free \/ Clean

Spec == Init /\ [][Next]_live

=============================================================================
