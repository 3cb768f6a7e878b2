-------------------------------- MODULE Chain --------------------------------
(***************************************************************************)
(* qs_chain_array.c: a doubly linked list laid over an array of Capacity+1  *)
(* blocks made once.  The blocks are always all on the list.  Those before  *)
(* "tail" are in use; "tail" and the ones behind it wait to be used, and    *)
(* "end" is the last of them.  The list is ended by the link -1, as is a    *)
(* walk: None stands for -1 and for NULL.                                   *)
(*                                                                          *)
(* The functions are operators from a chain to the chain after the call,    *)
(* for the components that keep chains.                                     *)
(***************************************************************************)
EXTENDS Integers

CONSTANTS Capacity,   \* blocks that can be in use
          Values,     \* what a block can hold
          NoValue     \* what one holds that was never used

ASSUME CapacityAssumption == Capacity \in Nat \ {0}

Blocks  == 0 .. Capacity
None    == -1

Chains == [start : Blocks, tail : Blocks, end : Blocks,
           prev : [Blocks -> Blocks \cup {None}], next : [Blocks -> Blocks \cup {None}],
           data : [Blocks -> Values \cup {NoValue}]]

\* qs_create_chain_array
NewChain ==
    [start |-> 0, tail |-> 0, end |-> Capacity,
     prev |-> [b \in Blocks |-> b - 1],
     next |-> [b \in Blocks |-> IF b = Capacity THEN None ELSE b + 1],
     data |-> [b \in Blocks |-> NoValue]]

\* qs_add_chain_i: the block for the next value, and None when there is none left
FreeBlock(c) == IF c.next[c.tail] = None THEN None ELSE c.tail

\* the value written once the tail has moved on
AddChain_Late(c, v) ==
    IF FreeBlock(c) = None THEN c
    ELSE [c EXCEPT !.data[c.next[c.tail]] = v, !.tail = c.next[c.tail]]

\* qs_add_chain, and the value its caller writes
AddChain(c, v) ==
    IF FreeBlock(c) = None THEN c
    ELSE [c EXCEPT !.data[c.tail] = v, !.tail = c.next[c.tail]]

\* qs_get_chain: the block in use after b, the first one for b = None
NextBlock_NoTail(c, b) == IF b = None THEN c.start ELSE c.next[b]

NextBlock(c, b) ==
    IF b = None THEN IF c.start = c.tail THEN None ELSE c.start
    ELSE IF c.next[b] = c.tail THEN None
    ELSE c.next[b]

\* the block before b not told of the block after it
Requeue_HalfLinked(c, b) ==
    LET n == c.next[b]
        p == c.prev[b]
    IN  [c EXCEPT !.start = IF p = None THEN n ELSE @,
                  !.end   = b,
                  !.prev  = [@ EXCEPT ![n] = p, ![b] = c.end],
                  !.next  = [@ EXCEPT ![b] = None, ![c.end] = b]]

\* the rest of qs_remove_chain: b is taken out and put behind the end
Requeue(c, b) ==
    LET n == c.next[b]
        p == c.prev[b]
    IN  [c EXCEPT !.start = IF p = None THEN n ELSE @,
                  !.end   = b,
                  !.prev  = [@ EXCEPT ![n] = p, ![b] = c.end],
                  !.next  = [x \in Blocks |-> CASE x = b -> None
                                                [] x = c.end -> b
                                                [] x = p -> n
                                                [] OTHER -> @[x]]]

\* qs_remove_chain: the block before the end stays where it is and becomes the tail
RemoveChain(c, b) ==
    IF c.next[b] = None THEN c
    ELSE IF c.next[c.next[b]] = None THEN [c EXCEPT !.tail = c.prev[c.next[b]]]
    ELSE Requeue(c, b)

=============================================================================
