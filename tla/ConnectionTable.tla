--------------------------- MODULE ConnectionTable ---------------------------
(***************************************************************************)
(* qs_socket.c: the non-blocking TCP server.  One thread calls              *)
(* qs_server_update over and over; a call accepts the clients that wait,    *)
(* then visits every slot of the connection table, reads its socket, runs   *)
(* the callbacks of the application and settles the slot.  The indices of   *)
(* free slots wait in a chain array, from which qs_accept takes the first;  *)
(* when that one is not free after all it looks through the whole table.    *)
(*                                                                          *)
(* The table is a record and each C function an operator on it.  What the   *)
(* network and the application do are choices: which sends fail, what a     *)
(* read finds, whether the application ends a connection.  The application  *)
(* sends from its receive callback, from the one for a new connection, and  *)
(* between updates; that the one for a close may send too is not modelled.  *)
(***************************************************************************)
EXTENDS Integers, FiniteSets, FiniteSetsExt

CONSTANTS
    MaxConnection,  \* slots of the table
    SSec, SUsec,    \* the two parts of the timeout, s_sec and s_usec
    MaxAge          \* bound of the model: the age at which ages stop to grow

ASSUME TableAssumption   == MaxConnection \in Nat \ {0}
ASSUME TimeoutAssumption == SSec \in Nat /\ SUsec \in Nat /\ MaxAge \in Nat /\ MaxAge > SUsec

Index == 0 .. MaxConnection - 1

INSTANCE Chain WITH Capacity <- MaxConnection, Values <- Index, NoValue <- -1

\* descriptors, of which the system always gives out the lowest: one more than the slots,
\* for the client that is refused or for one that a failure leaks
Fds == 1 .. MaxConnection + 1

VARIABLES
    table,     \* the connections, the pool of free slots, the open descriptors, and
               \* for each slot whether the application believes it connected
    at,        \* where qs_server_update is
    refused,   \* the accept just made closed the client for want of a slot
    silent     \* the slots whose client has sent nothing; a client that gets its slot by the
               \* second half of qs_accept counts for one with the client before it

vars == <<table, at, refused, silent>>

Connection == [id : Fds \cup {-1}, acc : Fds \cup {-1}, status : {"default", "other"},
               counter : {0, 1}, age : 0 .. MaxAge]

\* qs_make_connection_info
NewConnection == [id |-> -1, acc |-> -1, status |-> "default", counter |-> 0, age |-> 0]
FirstPool ==
    LET fill[i \in 0 .. MaxConnection] == IF i = 0 THEN NewChain ELSE AddChain(fill[i - 1], i - 1)
    IN  fill[MaxConnection]

Init ==
    /\ table = [conns |-> [i \in Index |-> NewConnection], pool |-> FirstPool, open |-> {},
                session |-> [i \in Index |-> FALSE]]
    /\ at = [phase |-> "idle", i |-> 0]
    /\ refused = FALSE
    /\ silent = Index

-----------------------------------------------------------------------------
\* qs_close_socket; closing -1 does nothing
CloseSocket(t, i) ==
    [t EXCEPT !.open = @ \ {t.conns[i].id}, !.conns[i].id = -1]

\* the socket left open
AddAcceptPool_KeepOpen(t, i) ==
    [t EXCEPT !.conns[i].id = -1, !.pool = AddChain(@, i)]

\* qs_add_accept_pool
AddAcceptPool(t, i) == [CloseSocket(t, i) EXCEPT !.pool = AddChain(@, i)]

\* the socket left to be sent to
CloseCommon_KeepAcc(t, i) ==
    [t EXCEPT !.session[i] = FALSE, !.conns[i].status = "default"]

\* qs_close_socket_common with disconnect = 0: the close callback, then qs_free_sockparam
CloseCommon(t, i) ==
    [t EXCEPT !.session[i] = FALSE, !.conns[i].acc = -1, !.conns[i].status = "default"]

\* a send to each connection of F has failed
SendsFail(t, F) ==
    [t EXCEPT !.session    = [i \in Index |-> @[i] /\ i \notin F],
              !.conns = [i \in Index |->
                            IF i \in F THEN [@[i] EXCEPT !.acc = -1, !.status = "default"]
                            ELSE @[i]]]
Reachable(t) == {i \in Index : t.conns[i].acc # -1}

-----------------------------------------------------------------------------
FreeSlots(t) == {i \in Index : t.conns[i].id = -1}
Free(t, i)   == t.conns[i].id = -1
LowestFd(t)  == Min(Fds \ t.open)

\* the first half of qs_accept: the counters of the slot start again
TakeFromPool_Stale(t, i, fd) ==
    [t EXCEPT !.open = @ \cup {fd}, !.session[i] = TRUE,
              !.conns[i].id = fd, !.conns[i].acc = fd]

TakeFromPool(t, i, fd) ==
    [t EXCEPT !.open = @ \cup {fd}, !.session[i] = TRUE,
              !.conns[i] = [@ EXCEPT !.id = fd, !.acc = fd, !.counter = 0, !.age = 0]]

\* the second half of qs_accept: they do not
TakeFromTable(t, i, fd) ==
    [t EXCEPT !.open = @ \cup {fd}, !.session[i] = TRUE,
              !.conns[i].id = fd, !.conns[i].acc = fd]

\* the entry stays in the pool
Unpool_Keep(t) == t

\* the first entry of the pool is given up whether its slot was free or not
Unpool(t) ==
    LET b == NextBlock(t.pool, None)
    IN  IF b = None THEN t ELSE [t EXCEPT !.pool = RemoveChain(@, b)]

\* no second half
ScanTable_None(t, fd, unnamed) == [table |-> t, got |-> -1]

\* qs_accept without the pool: the slot got, or -1
ScanTable(t, fd, unnamed) ==
    IF FreeSlots(t) = {} THEN [table |-> t, got |-> -1]
    ELSE IF unnamed THEN [table |-> [t EXCEPT !.open = @ \cup {fd}], got |-> -1]
    ELSE [table |-> TakeFromTable(t, Min(FreeSlots(t)), fd), got |-> Min(FreeSlots(t))]

\* the slot that is first in the pool, and whether the first half of qs_accept takes it
Pooled(t) == t.pool.data[NextBlock(t.pool, None)]
FromPool(t, unnamed) == NextBlock(t.pool, None) # None /\ Free(t, Pooled(t)) /\ ~unnamed

\* qs_accept of a client whose descriptor is fd; getnameinfo may fail in either half
Accept(t, fd, unnamed, unnamedAgain) ==
    IF FromPool(t, unnamed)
    THEN [table |-> TakeFromPool(Unpool(t), Pooled(t), fd), got |-> Pooled(t)]
    ELSE ScanTable(Unpool(t), fd, unnamedAgain)

-----------------------------------------------------------------------------
\* nobody timed out
TimedOut_Never(c) == FALSE

\* the timeout of a connection that has sent nothing: seconds against s_usec
TimedOut(c) == c.counter = 0 /\ c.age > SUsec

\* the callback forgotten
Settle_NoClose(t, i) == IF TimedOut(t.conns[i]) THEN AddAcceptPool(t, i) ELSE t

\* after the read of slot i: the timeout, then the close of a slot that was given up
Settle(t, i) ==
    LET u == IF TimedOut(t.conns[i]) THEN AddAcceptPool(t, i) ELSE t
    IN  IF Free(u, i) THEN CloseCommon(u, i) ELSE u

\* the next slot of the loop in qs_server_update, or its end
NextSlot(i) ==
    IF i + 1 \in Index THEN [phase |-> "recv", i |-> i + 1] ELSE [phase |-> "idle", i |-> 0]

-----------------------------------------------------------------------------
\* a second passes; qs_server_update looks at the clock once, before its loop
Tick ==
    /\ at.phase \in {"idle", "accept"}
    /\ \E i \in Index : table.conns[i].age < MaxAge
    /\ table' = [table EXCEPT !.conns = [i \in Index |->
                    [table.conns[i] EXCEPT !.age = IF @ < MaxAge THEN @ + 1 ELSE @]]]
    /\ UNCHANGED <<at, refused, silent>>

\* the application sends between two updates, or from the callback of a new connection,
\* and the sends to F fail
Broadcast(F) ==
    /\ at.phase \in {"idle", "accept"} /\ F # {}
    /\ table' = SendsFail(table, F)
    /\ UNCHANGED <<at, refused, silent>>

Update ==
    /\ at.phase = "idle"
    /\ at' = [phase |-> "accept", i |-> 0]
    /\ UNCHANGED <<table, refused, silent>>

\* one turn of the accept loop, which ends with the first client that gets no slot
AcceptClient(unnamed, unnamedAgain) ==
    /\ at.phase = "accept" /\ Fds \ table.open # {}
    /\ LET r == Accept(table, LowestFd(table), unnamed, unnamedAgain) IN
       /\ table' = r.table
       /\ refused' = (r.got = -1 /\ r.table.open = table.open)
       /\ silent' = IF FromPool(table, unnamed)
                    THEN silent \cup (FreeSlots(table) \ FreeSlots(r.table)) ELSE silent
       /\ at' = IF r.got # -1 /\ at.i + 1 \in Index THEN [at EXCEPT !.i = @ + 1]
                ELSE [phase |-> "recv", i |-> 0]

\* accept fails: no client waits
NoClient ==
    /\ at.phase = "accept"
    /\ at' = [phase |-> "recv", i |-> 0]
    /\ UNCHANGED <<table, refused, silent>>

\* a free slot is passed over
Skip(i) ==
    /\ at = [phase |-> "recv", i |-> i] /\ Free(table, i)
    /\ at' = NextSlot(i) /\ refused' = FALSE
    /\ UNCHANGED <<table, silent>>

\* recv has nothing for now
NoData(i) ==
    /\ at = [phase |-> "recv", i |-> i] /\ ~Free(table, i)
    /\ table' = Settle(table, i)
    /\ at' = NextSlot(i) /\ refused' = FALSE
    /\ UNCHANGED silent

\* recv fails, or finds the connection closed by the client
Gone(i) ==
    /\ at = [phase |-> "recv", i |-> i] /\ ~Free(table, i)
    /\ table' = Settle(AddAcceptPool(table, i), i)
    /\ at' = NextSlot(i) /\ refused' = FALSE
    /\ UNCHANGED silent

\* recv has data: qs_recv_event counts it before it looks at the messages
Data(i) ==
    /\ at = [phase |-> "recv", i |-> i] /\ ~Free(table, i)
    /\ table' = [table EXCEPT !.conns[i].acc = table.conns[i].id, !.conns[i].counter = 1]
    /\ at' = [phase |-> "event", i |-> i] /\ refused' = FALSE
    /\ silent' = silent \ {i}

\* the end of qs_recv_event, or its next turn when a message is left in the buffer
AfterMessage(t, i, more) ==
    IF more /\ ~Free(t, i) THEN table' = t /\ UNCHANGED at
    ELSE table' = Settle(t, i) /\ at' = NextSlot(i)

\* a message that cannot be parsed (qs_pre_packetfilter answers -1)
BadMessage(i) ==
    /\ at = [phase |-> "event", i |-> i]
    /\ AfterMessage(AddAcceptPool([table EXCEPT !.conns[i].status = "other"], i), i, FALSE)
    /\ UNCHANGED <<refused, silent>>

\* a message that is not complete yet (0)
PartMessage(i) ==
    /\ at = [phase |-> "event", i |-> i]
    /\ AfterMessage([table EXCEPT !.conns[i].status = "other"], i, FALSE)
    /\ UNCHANGED <<refused, silent>>

\* a whole message (1): in its callback the sends to F fail, and the application may end
\* the connection (qs_disconnect)
Message(i, F, done, more) ==
    /\ at = [phase |-> "event", i |-> i]
    /\ LET t == SendsFail([table EXCEPT !.conns[i].status = IF done THEN "default" ELSE "other"], F)
           u == IF t.conns[i].status = "default" THEN AddAcceptPool(t, i) ELSE t
       IN  AfterMessage(u, i, more)
    /\ UNCHANGED <<refused, silent>>

Visit(i) ==
    \/ Skip(i) \/ NoData(i) \/ Gone(i) \/ Data(i) \/ BadMessage(i) \/ PartMessage(i)
    \/ \E F \in SUBSET Reachable(table), done, more \in BOOLEAN : Message(i, F, done, more)

ServerUpdate ==
    \/ Update \/ NoClient
    \/ \E unnamed, unnamedAgain \in BOOLEAN : AcceptClient(unnamed, unnamedAgain)
    \/ \E i \in Index : Visit(i)

Next == Tick \/ ServerUpdate \/ \E F \in SUBSET Reachable(table) : Broadcast(F)

\* The main loop calls qs_server_update again and again, and time passes.  A step of an
\* update moves on, except over a message after which more are left in the buffer; that
\* loop ends too, since the place of each message must lie behind the last one's.  It is
\* assumed that the sends of the callbacks end, which qs_send_all does not ensure: it tries
\* again for as long as a client does not read.
Fairness == WF_vars(ServerUpdate /\ at' # at) /\ SF_vars(Tick)

Spec == Init /\ [][Next]_vars /\ Fairness

-----------------------------------------------------------------------------
\* Type invariant.
TypeOK ==
    /\ table \in [conns : [Index -> Connection], pool : Chains, open : SUBSET Fds,
                  session : [Index -> BOOLEAN]]
    /\ at \in [phase : {"idle", "accept", "recv", "event"}, i : Index]
    /\ refused \in BOOLEAN
    /\ silent \subseteq Index

\* Well typed, and: two slots never share a socket, the socket of a slot is open, and what
\* the callbacks send goes to the socket of the slot or nowhere: never to a descriptor that
\* was closed and may since belong to another client.
SlotOwnsSocket ==
    /\ TypeOK
    /\ \A i \in Index :
        /\ table.conns[i].id # -1 => table.conns[i].id \in table.open
        /\ table.conns[i].acc \in {-1, table.conns[i].id}
        /\ \A j \in Index : i # j /\ table.conns[i].id # -1 => table.conns[i].id # table.conns[j].id

\* A descriptor that no slot has any more is lost for good.  That happens in one way: the
\* name of a client cannot be had in the second half of qs_accept.
Leaked == table.open \ {table.conns[i].id : i \in Index}
NoLeak ==
    [][Leaked' \subseteq Leaked \/ \E unnamed \in BOOLEAN : AcceptClient(unnamed, TRUE)]_table

\* A client is refused only when every slot is taken, whatever has become of the pool.
RefusedOnlyWhenFull == refused => FreeSlots(table) = {}

\* The application has been told of the close of a slot before the slot is used again.
ClosedBeforeReuse ==
    \A i \in Index : Free(table, i) => ~table.session[i] /\ table.conns[i].status = "default"

\* The pool holds the index of every free slot, once, and no other.
PoolEntries ==
    LET entry[k \in Blocks] ==
            IF k = 0 THEN NextBlock(table.pool, None)
            ELSE IF entry[k - 1] = None THEN None ELSE NextBlock(table.pool, entry[k - 1])
    IN  {entry[k] : k \in Blocks} \ {None}
Exact ==
    /\ {table.pool.data[b] : b \in PoolEntries} = FreeSlots(table)
    /\ Cardinality(PoolEntries) = Cardinality(FreeSlots(table))

\* It starts so, and only two things end it: a client found gone in the pass in which its
\* time is up, whose slot is given up twice, and a client whose name cannot be had.
PoolExact ==
    [][Exact' \/ (Exact => \/ \E i \in Index : TimedOut(table.conns[i]) /\ Gone(i)
                          \/ \E unnamedAgain \in BOOLEAN : AcceptClient(TRUE, unnamedAgain))]_table

\* While the pool is exact a new connection starts with no message counted and its clock
\* at zero, whoever had the slot before, unless its name could only be had the second time.
FreshConnection ==
    [][\/ \A i \in Index : Free(table, i) /\ ~Free(table, i)' =>
                table'.conns[i].counter = 0 /\ table'.conns[i].age = 0
       \/ Exact => AcceptClient(TRUE, FALSE)]_table

\* A client that never sends is dropped in the end, whoever had its slot before.  One that
\* gets its slot by the second half of qs_accept, from a client that had sent, is left out:
\* it finds that client's messages counted for its own and is never timed out.
IdleDropped ==
    \A i \in Index : ~Free(table, i) /\ i \in silent ~> Free(table, i) \/ i \notin silent

\* A connection whose client is there and silent is left alone until the seconds set for
\* the timeout have passed.
TimeoutHonoured ==
    [][\A i \in Index : NoData(i) /\ Free(table, i)' => table.conns[i].age >= SSec]_vars
=============================================================================
