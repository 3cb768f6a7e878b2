------------------------- MODULE MessageQueueThreads -------------------------
(***************************************************************************)
(* qs_queue.c between threads, one step for each access to the shared ring. *)
(* Producers call qs_safe_enqueue, which holds a mutex around qs_enqueue;   *)
(* there is no safe dequeue, so the one consumer calls qs_dequeue without   *)
(* the mutex and then reads the buffer it was handed.  The steps follow the *)
(* order of the statements, which the build keeps (-O0).                    *)
(*                                                                          *)
(* Messages are numbered in the order in which producers get the mutex.  A  *)
(* buffer is written and read in two parts, its head and the rest, so that  *)
(* one can be read while it is half written; both hold the number.          *)
(*                                                                          *)
(* Nothing keeps a dequeue out of a producer's call, and some overlaps of   *)
(* the two spoil the ring.  Clash names them, and the variable clashed says *)
(* whether one has happened.                                                *)
(***************************************************************************)
EXTENDS Integers

CONSTANTS
    QueueLen,    \* buffers in the ring
    Producers,   \* threads that call qs_safe_enqueue
    MaxSent      \* bound of the model: messages sent

ASSUME QueueAssumption == QueueLen \in Nat \ {0} /\ MaxSent \in Nat

VARIABLES
    top, tail, status,   \* of QS_MSGQUEUE
    head, rest,          \* slot -> the two parts of its buffer
    mutex,               \* the producer that holds it, or Nobody
    at,                  \* producer -> the statement it is at
    sum,                 \* the value a producer computed for top
    sent,                \* the messages given to qs_safe_enqueue so far
    reader,              \* the statement the consumer is at
    target, first,       \* its locals: the slot to take and the value read from top
    readHead,            \* the head it read from the buffer
    received,            \* the number of the last message it read
    clashed              \* a dequeue has overlapped a producer's call in the way of Clash

shared   == <<top, tail, status, head, rest>>
producer == <<mutex, at, sum, sent>>
consumer == <<reader, target, first, readHead, received>>
vars     == <<shared, producer, consumer, clashed>>

Nobody  == "nobody"
ASSUME NobodyAssumption == Nobody \notin Producers

Slots   == 0 .. QueueLen - 1

\* the indices advance around the ring
Succ(i) == (i + 1) % QueueLen

Init ==
    /\ top = 0 /\ tail = 0 /\ status = 0
    /\ head = [i \in Slots |-> 0] /\ rest = [i \in Slots |-> 0]
    /\ mutex = Nobody /\ at = [p \in Producers |-> "idle"] /\ sum = 0 /\ sent = 0
    /\ reader = "idle" /\ target = 0 /\ first = 0 /\ readHead = 0 /\ received = 0
    /\ clashed = FALSE

-----------------------------------------------------------------------------
\* qs_safe_enqueue around qs_enqueue
Go(p, here, there) == at[p] = here /\ at' = [at EXCEPT ![p] = there]

\* the mutex forgotten, as in qs_enqueue called directly
Lock_Unsafe(p) ==
    /\ Go(p, "idle", "head")
    /\ sent < MaxSent
    /\ sent' = sent + 1 /\ mutex' = p
    /\ UNCHANGED <<sum, shared, consumer>>

Lock(p) ==
    /\ mutex = Nobody /\ Go(p, "idle", "head")
    /\ sent < MaxSent
    /\ sent' = sent + 1 /\ mutex' = p
    /\ UNCHANGED <<sum, shared, consumer>>

PutHead(p) ==
    /\ Go(p, "head", "rest")
    /\ head' = [head EXCEPT ![tail] = sent]
    /\ UNCHANGED <<top, tail, status, rest, mutex, sum, sent, consumer>>

PutRest(p) ==
    /\ Go(p, "rest", "tail")
    /\ rest' = [rest EXCEPT ![tail] = sent]
    /\ UNCHANGED <<top, tail, status, head, mutex, sum, sent, consumer>>

PutTail(p) ==
    /\ Go(p, "tail", "full")
    /\ tail' = Succ(tail)
    /\ UNCHANGED <<top, status, head, rest, mutex, sum, sent, consumer>>

\* the overflow forgotten
IsFull_Never(p) ==
    /\ Go(p, "full", "unlock")
    /\ UNCHANGED <<mutex, sum, sent, shared, consumer>>

IsFull(p) ==
    /\ Go(p, "full", IF tail = top THEN "sum" ELSE "unlock")
    /\ UNCHANGED <<mutex, sum, sent, shared, consumer>>

SumTop(p) ==
    /\ Go(p, "sum", "top")
    /\ sum' = Succ(top)
    /\ UNCHANGED <<mutex, sent, shared, consumer>>

PutTop(p) ==
    /\ Go(p, "top", "status")
    /\ top' = sum
    /\ UNCHANGED <<tail, status, head, rest, mutex, sum, sent, consumer>>

PutStatus(p) ==
    /\ Go(p, "status", "unlock")
    /\ status' = 1
    /\ UNCHANGED <<top, tail, head, rest, mutex, sum, sent, consumer>>

Unlock(p) ==
    /\ Go(p, "unlock", "idle")
    /\ mutex' = Nobody
    /\ UNCHANGED <<sum, sent, shared, consumer>>

Enqueue(p) ==
    \/ Lock(p) \/ PutHead(p) \/ PutRest(p) \/ PutTail(p)
    \/ IsFull(p) \/ SumTop(p) \/ PutTop(p) \/ PutStatus(p) \/ Unlock(p)

-----------------------------------------------------------------------------
\* qs_dequeue, then the read of the buffer
Read(here, there) == reader = here /\ reader' = there

Start ==
    /\ Read("idle", "target")
    /\ first' = top
    /\ UNCHANGED <<target, readHead, received, shared, producer>>

SetTarget ==
    /\ Read("target", "again")
    /\ target' = IF first - status < 0 THEN QueueLen - 1 ELSE first - status
    /\ UNCHANGED <<first, readHead, received, shared, producer>>

TopAgain ==
    /\ Read("again", "empty")
    /\ first' = top
    /\ UNCHANGED <<target, readHead, received, shared, producer>>

IsEmpty ==
    /\ Read("empty", IF first = tail THEN "last" ELSE "sum")
    /\ UNCHANGED <<target, first, readHead, received, shared, producer>>

IsLast ==
    /\ Read("last", IF status = 1 THEN "clear" ELSE "idle")
    /\ UNCHANGED <<target, first, readHead, received, shared, producer>>

ClearStatus ==
    /\ Read("clear", "head")
    /\ status' = 0
    /\ UNCHANGED <<top, tail, head, rest, target, first, readHead, received, producer>>

SumNext ==
    /\ Read("sum", "top")
    /\ first' = Succ(top)
    /\ UNCHANGED <<target, readHead, received, shared, producer>>

TakeTop ==
    /\ Read("top", "head")
    /\ top' = first
    /\ UNCHANGED <<tail, status, head, rest, target, first, readHead, received, producer>>

TakeHead ==
    /\ Read("head", "rest")
    /\ readHead' = head[target]
    /\ UNCHANGED <<target, first, received, shared, producer>>

TakeRest ==
    /\ Read("rest", "idle")
    /\ received' = rest[target]
    /\ UNCHANGED <<target, first, readHead, shared, producer>>

Dequeue ==
    \/ Start \/ SetTarget \/ TopAgain \/ IsEmpty \/ IsLast
    \/ ClearStatus \/ SumNext \/ TakeTop \/ TakeHead \/ TakeRest

-----------------------------------------------------------------------------
\* the messages in the ring, as the indices have it
Count == status + (IF top <= tail THEN tail - top ELSE tail - top + QueueLen)

\* What a producer may not do while a dequeue is under way: write a buffer when no two are
\* free, since one of them may be the one being taken; find the tail at the top, because the
\* ring is full or because the dequeue has just emptied it; give up the oldest message.
Overflows(p) ==
    \/ at[p] \in {"rest", "tail"} /\ Count >= QueueLen - 1
    \/ at[p] = "full" /\ tail = top
    \/ at[p] \in {"sum", "top", "status"}

Clash == reader # "idle" /\ \E p \in Producers : Overflows(p)

Watch == clashed' = (clashed \/ Clash')

Next == (Dequeue \/ \E p \in Producers : Enqueue(p)) /\ Watch

\* A thread that is inside a call goes on, and the consumer keeps polling; a producer
\* may stop calling.
Fairness ==
    /\ WF_vars(Dequeue /\ Watch)
    /\ \A p \in Producers : WF_vars(at[p] # "idle" /\ Enqueue(p) /\ Watch)

Spec == Init /\ [][Next]_vars /\ Fairness

-----------------------------------------------------------------------------
\* The consumer reads whole messages, each at most once and in the order in which their
\* producers got the mutex, however many of them it misses because the ring overflows and
\* however its calls and theirs overlap, as long as no overlap was a clash.  qs_queue.c has
\* no safe dequeue: keeping clear of clashes is left to the application.
ReceivedInOrder ==
    [][reader = "rest" /\ reader' # "rest" /\ ~clashed
         => readHead = rest[target] /\ received < rest[target]]_vars

\* An overflow gives up old messages only: the last message sent is received in the end,
\* unless a dequeue has clashed with a producer's call.
LastReceived == sent = MaxSent ~> clashed \/ received = MaxSent

=============================================================================
