----------------------------- MODULE MessageQueue -----------------------------
(***************************************************************************)
(* qs_queue.c as one thread sees it: a ring of message buffers made once    *)
(* and reused.  "top" and "tail" alone cannot tell a full ring from an      *)
(* empty one, so "status" is 1 from the moment the ring overflows until it  *)
(* has been emptied, and while it is 1 the oldest message is the one before *)
(* "top".  A dequeue hands out the buffer of the ring, not a copy of it.    *)
(***************************************************************************)
EXTENDS Integers, Sequences

CONSTANTS
    QueueLen,   \* buffers in the ring
    BufSize,    \* bytes of a buffer
    Bodies,     \* what callers send, and how long what they send is
    Lengths,
    Nothing     \* the contents of a slot without a buffer, and of an empty answer

ASSUME QueueAssumption   == QueueLen \in Nat \ {0} /\ BufSize \in Nat \ {0}
ASSUME MessageAssumption == Lengths \subseteq Nat /\ Nothing \notin [body : Bodies \cup {""}, len : Nat]

VARIABLES
    made,     \* the handle of the queue is not -1
    making,   \* the slot the creation is at, QueueLen when none runs
    slots,    \* slot -> the message in its buffer
    top, tail, status,
    lent,     \* the slot of the buffer the last dequeue answered, -1 if none
    taken     \* what was in that buffer

vars == <<made, making, slots, top, tail, status, lent, taken>>

Slots   == 0 .. QueueLen - 1
Message == [body : Bodies \cup {""}, len : 0 .. BufSize - 1]
Blank   == [body |-> "", len |-> 0]

\* the indices advance around the ring
Succ(i) == (i + 1) % QueueLen

Init ==
    /\ made = FALSE /\ making = QueueLen
    /\ slots = [i \in Slots |-> Nothing]
    /\ top = 0 /\ tail = 0 /\ status = 0
    /\ lent = -1 /\ taken = Nothing

\* a queue in the hands of the program
Ready == made /\ making = QueueLen

\* qs_create_message_queue up to its loop.  A failure before the loop leaves -1 in the
\* handle, as before: nothing changes.  The ids of the slots are not initialised; here
\* they are what an earlier attempt left.
CreateHandle ==
    /\ ~made /\ making = QueueLen
    /\ made' = TRUE /\ making' = 0
    /\ top' = 0 /\ tail' = 0 /\ status' = 0
    /\ UNCHANGED <<slots, lent, taken>>

\* only the last slot decides about the handle
CreateSlot_LastDecides(info, buffer) ==
    /\ making < QueueLen
    /\ making' = making + 1
    /\ slots' = [slots EXCEPT ![making] = IF info /\ buffer THEN Blank ELSE Nothing]
    /\ made' = (info /\ buffer)
    /\ UNCHANGED <<top, tail, status, lent, taken>>

\* one turn of the loop: the pool has room for the QS_MSG_INFO of the slot or not, and then
\* for its buffer or not; a failure clears the handle, and the loop goes on
CreateSlot(info, buffer) ==
    /\ making < QueueLen
    /\ making' = making + 1
    /\ slots' = [slots EXCEPT ![making] = IF info /\ buffer THEN Blank ELSE Nothing]
    /\ made' = (made /\ info /\ buffer)
    /\ UNCHANGED <<top, tail, status, lent, taken>>

\* no byte left for the terminator
Clip_NoTerminator(n) == IF n >= BufSize THEN BufSize ELSE n

\* a message too long for its buffer loses its end
Clip(n) == IF n >= BufSize THEN BufSize - 1 ELSE n

\* qs_enqueue: the oldest message is given up when the ring overflows
Overflow_NoStatus ==
    IF Succ(tail) = top THEN top' = Succ(top) /\ UNCHANGED status
    ELSE UNCHANGED <<top, status>>
Overflow ==
    IF Succ(tail) = top THEN top' = Succ(top) /\ status' = 1
    ELSE UNCHANGED <<top, status>>

Enqueue(b, n) ==
    /\ Ready /\ slots[tail] # Nothing
    /\ slots' = [slots EXCEPT ![tail] = [body |-> b, len |-> Clip(n)]]
    /\ tail' = Succ(tail)
    /\ Overflow
    /\ UNCHANGED <<made, making, lent, taken>>

\* the slot after the oldest
Oldest_IgnoreStatus == top

\* "top - status", wrapped
Oldest == IF top - status < 0 THEN QueueLen - 1 ELSE top - status

\* the two ways a message is taken: the last one of a ring that had overflowed, or
\* the oldest of several
TakeLast == top = tail /\ status = 1 /\ status' = 0 /\ UNCHANGED top
TakeOne  == top # tail /\ top' = Succ(top) /\ UNCHANGED status

\* qs_dequeue
Dequeue ==
    /\ Ready /\ slots[Oldest] # Nothing
    /\ IF top = tail /\ status # 1
       THEN lent' = -1 /\ taken' = Nothing /\ UNCHANGED <<top, status>>
       ELSE lent' = Oldest /\ taken' = slots[Oldest] /\ (TakeLast \/ TakeOne)
    /\ UNCHANGED <<made, making, slots, tail>>

\* qs_get_queue_length
QueueLength_NoStatus ==
    IF tail = top THEN 0
    ELSE IF tail < top THEN (QueueLen - top) + (tail + 1)
    ELSE (tail - top) + status

QueueLength ==
    IF tail = top THEN status
    ELSE IF tail < top THEN (QueueLen - top) + (tail + 1)
    ELSE (tail - top) + status

Next ==
    \/ CreateHandle
    \/ \E info, buffer \in BOOLEAN : CreateSlot(info, buffer)
    \/ \E b \in Bodies, n \in Lengths : Enqueue(b, n)
    \/ Dequeue

Spec == Init /\ [][Next]_vars

-----------------------------------------------------------------------------
\* Type invariant; a message is always shorter than its buffer, which ends it with a 0.
TypeOK ==
    /\ made \in BOOLEAN /\ making \in 0 .. QueueLen
    /\ slots \in [Slots -> Message \cup {Nothing}]
    /\ top \in Slots /\ tail \in Slots /\ status \in {0, 1}
    /\ lent \in Slots \cup {-1}
    /\ taken \in Message \cup {Nothing}

\* A handle that a creation leaves stands for a buffer in every slot, whichever of the
\* allocations of the loop failed, and whatever an earlier attempt had left: the loop goes
\* on after a failure, and nothing it does later may bring the handle back.
CompleteOrAbsent == Ready => \A i \in Slots : slots[i] # Nothing

\* The messages kept, from what the three indices say.
Wrap(i) == IF i < QueueLen THEN i ELSE i - QueueLen
Count == status + (IF top <= tail THEN tail - top ELSE tail - top + QueueLen)
Window(sl, h, c) == [k \in 1 .. c |-> sl[Wrap(h + (k - 1))]]
Items == Window(slots, Oldest, Count)

Q == INSTANCE DropOldestQueue
         WITH Capacity <- QueueLen, Messages <- Message, items <- Items

\* The ring is a first-in first-out queue of QueueLen messages that drops its oldest.
ImplementsQueue == Q!Spec

\* The length reported is the number of messages kept, or one more than that when the
\* ring has wrapped without an overflow; 0 is reported exactly for an empty queue.
LengthWithinOne ==
    /\ QueueLength \in {Count, Count + 1}
    /\ QueueLength = 0 <=> Count = 0

\* The buffer a dequeue handed out is written again only by an enqueue that finds at
\* most one slot free: a consumer may read it until then.
LentBufferKept ==
    [][lent # -1 /\ made /\ slots'[lent] # slots[lent] => Count >= QueueLen - 1]_vars

=============================================================================
