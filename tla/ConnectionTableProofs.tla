------------------------- MODULE ConnectionTableProofs -------------------------
(***************************************************************************)
(* Proofs about the connection table of the TCP server, for every number of *)
(* slots and every timeout: whose socket a slot's is, when a client is      *)
(* refused, that a close is told before the slot is used again, that no     *)
(* descriptor is lost, and what keeps the pool of free slots exact.         *)
(***************************************************************************)
EXTENDS ConnectionTable, FiniteSetTheorems, NaturalsInduction, TLAPS

\* the lemmas about the chain that is the pool
C == INSTANCE ChainProofs WITH Capacity <- MaxConnection, Values <- Index, NoValue <- -1,
         chain <- table.pool, at <- None, visited <- << >>, expected <- << >>

\* The pool is a list, the blocks in use being the first u of the order o.
IsPool(c) == \E o, u : C!ListOf(c, o, u)

\* Every table the functions of qs_socket.c see: well typed, with a list for a pool, and
\* every socket open and in one slot only.
Sound(t) ==
    /\ t \in [conns : [Index -> Connection], pool : Chains, open : SUBSET Fds,
              session : [Index -> BOOLEAN]]
    /\ IsPool(t.pool)
    /\ \A i \in Index : t.conns[i].id # -1 => t.conns[i].id \in t.open
    /\ \A i, j \in Index : i # j /\ t.conns[i].id # -1 => t.conns[i].id # t.conns[j].id

\* Slot i has settled: what the callbacks send goes to its socket or nowhere, and if it is
\* free the application has been told.
Settled(t, i) ==
    /\ t.conns[i].acc \in {-1, t.conns[i].id}
    /\ Free(t, i) => ~t.session[i] /\ t.conns[i].status = "default"

\* The types of what the proofs are about.
Typed ==
    /\ table \in [conns : [Index -> Connection], pool : Chains, open : SUBSET Fds,
                  session : [Index -> BOOLEAN]]
    /\ at \in [phase : {"idle", "accept", "recv", "event"}, i : Index]
    /\ refused \in BOOLEAN

\* The inductive invariant.
IInv ==
    /\ Typed /\ Sound(table)
    /\ \A i \in Index : Settled(table, i)
    /\ refused => FreeSlots(table) = {}
    /\ at.phase = "event" => /\ ~refused /\ ~Free(table, at.i)
                             /\ table.conns[at.i].counter = 1

-----------------------------------------------------------------------------
\* The chain of this module is the one ChainProofs is about.
LEMMA SameChain ==
    /\ C!Blocks = Blocks /\ C!None = None /\ C!Chains = Chains /\ C!NewChain = NewChain
    /\ \A c, v : /\ C!AddChain(c, v) = AddChain(c, v)
                 /\ C!FreeBlock(c) = FreeBlock(c)
                 /\ C!RemoveChain(c, v) = RemoveChain(c, v)
                 /\ C!NextBlock(c, v) = NextBlock(c, v)
<1>1. C!Blocks = Blocks /\ C!None = None
  BY DEF C!Blocks, Blocks, C!None, None
<1>2. C!Chains = Chains /\ C!NewChain = NewChain
  BY <1>1 DEF C!Chains, Chains, C!NewChain, NewChain
<1>3. ASSUME NEW c, NEW v
      PROVE  /\ C!FreeBlock(c) = FreeBlock(c)
             /\ C!AddChain(c, v) = AddChain(c, v)
             /\ C!NextBlock(c, v) = NextBlock(c, v)
  BY <1>1 DEF C!FreeBlock, FreeBlock, C!AddChain, AddChain, C!NextBlock, NextBlock
<1>4. ASSUME NEW c, NEW v
      PROVE  C!RemoveChain(c, v) = RemoveChain(c, v)
  <2>1. C!Requeue(c, v) = Requeue(c, v)
    BY Zenon DEF C!Requeue, Requeue, C!Blocks, Blocks, C!None, None
  <2> QED BY <1>1, <2>1, Zenon DEF C!RemoveChain, RemoveChain
<1> QED BY <1>1, <1>2, <1>3, <1>4

\* Slots, blocks and None.
LEMMA Numbers ==
    /\ MaxConnection \in Nat \ {0} /\ None = -1
    /\ -1 \notin Index /\ -1 \notin Blocks /\ -1 \notin Fds
    /\ 0 \in Index /\ 0 \in Blocks /\ MaxConnection \in Blocks
    /\ \A i \in Index : i \in Int
BY TableAssumption DEF Index, Blocks, Fds, None

\* A pool is a chain.
LEMMA PoolIsChain == \A c : IsPool(c) => c \in Chains
BY SameChain DEF IsPool, C!ListOf

\* An index is added: the pool is a list still.
LEMMA AddPool ==
    ASSUME NEW c, IsPool(c), NEW i \in Index
    PROVE  IsPool(AddChain(c, i))
<1>1. PICK o, u : C!ListOf(c, o, u)
  BY DEF IsPool
<1>2. \/ C!AddChain(c, i) = c
      \/ C!ListOf(C!AddChain(c, i), o, u + 1)
  BY <1>1, C!AddChainList, TableAssumption
<1> QED BY <1>1, <1>2, SameChain DEF IsPool

\* The first block of a pool: what it holds is an index, and it can be removed.
LEMMA FirstOfPool ==
    ASSUME NEW c, IsPool(c), NextBlock(c, None) # None
    PROVE  /\ c.data[NextBlock(c, None)] \in Index
           /\ IsPool(RemoveChain(c, NextBlock(c, None)))
<1>1. PICK o, u : C!ListOf(c, o, u)
  BY DEF IsPool
<1>2. u # 0 /\ NextBlock(c, None) = o[0]
  BY <1>1, C!NextBlockIs, TableAssumption, SameChain
<1>3. u \in Nat /\ \A k \in 0 .. u - 1 : c.data[o[k]] \in Index
  BY <1>1, TableAssumption DEF C!ListOf, C!Blocks
<1>4. 0 \in 0 .. u - 1
  BY <1>2, <1>3
<1>5. \E q : C!ListOf(C!RemoveChain(c, o[0]), q, u - 1)
  BY <1>1, <1>4, C!RemoveChainList, TableAssumption
<1> QED BY <1>2, <1>3, <1>4, <1>5, SameChain DEF IsPool

\* The least element of a set of numbers.
LEMMA MinIn ==
    ASSUME NEW S \in SUBSET Nat, S # {}
    PROVE  Min(S) \in S
<1>1. \E x \in S : \A y \in S : ~ (<<y, x>> \in OpToRel(<, Nat))
  BY WFMin, NatLessThanWellFounded
<1>2. PICK x \in S : \A y \in S : ~(y < x)
  BY <1>1 DEF OpToRel
<1>3. \A y \in S : x <= y
  BY <1>2
<1> QED BY <1>3 DEF Min

-----------------------------------------------------------------------------
\* Where one table has the slots, the pool and the sockets of another: nothing opened, closed
\* or given up.
Keeps(t, r) ==
    /\ r.pool = t.pool /\ r.open = t.open
    /\ \A j \in Index : r.conns[j].id = t.conns[j].id

\* Where one has given up slot i of the other: the socket closed, the index in the pool.
Gives(t, r, i) ==
    /\ r.pool = AddChain(t.pool, i) /\ r.open = t.open \ {t.conns[i].id}
    /\ r.conns[i].id = -1
    /\ \A j \in Index \ {i} : r.conns[j].id = t.conns[j].id

\* the types of tables
Tables == [conns : [Index -> Connection], pool : Chains, open : SUBSET Fds,
           session : [Index -> BOOLEAN]]

\* The fields of a table.
LEMMA TableFields ==
    ASSUME NEW t \in Tables
    PROVE  /\ t.conns \in [Index -> Connection] /\ t.pool \in Chains
           /\ t.open \in SUBSET Fds /\ t.session \in [Index -> BOOLEAN]
           /\ t = [conns |-> t.conns, pool |-> t.pool, open |-> t.open, session |-> t.session]
BY DEF Tables

\* A sound table is one of them.
LEMMA SoundTable == \A t : Sound(t) => t \in Tables
BY DEF Sound, Tables

\* A table that keeps everything of a sound one is sound.
LEMMA KeepsSound ==
    ASSUME NEW t, Sound(t), NEW r \in Tables, Keeps(t, r)
    PROVE  Sound(r)
BY DEF Sound, Tables, Keeps

\* So is one that has given up a slot of it.
LEMMA GivesSound ==
    ASSUME NEW t, Sound(t), NEW i \in Index, NEW r \in Tables, Gives(t, r, i)
    PROVE  Sound(r)
<1>1. IsPool(r.pool)
  BY AddPool DEF Sound, Gives
<1>2. ASSUME NEW j \in Index, r.conns[j].id # -1
      PROVE  /\ j # i /\ r.conns[j].id = t.conns[j].id
             /\ r.conns[j].id \in r.open
  BY <1>2 DEF Sound, Gives
<1>3. ASSUME NEW j \in Index, NEW k \in Index, j # k, r.conns[j].id # -1
      PROVE  r.conns[j].id # r.conns[k].id
  BY <1>2, <1>3 DEF Sound, Gives
<1> QED BY <1>1, <1>2, <1>3 DEF Sound, Tables

\* qs_add_accept_pool gives up its slot and changes nothing else.
LEMMA AddAcceptPoolIs ==
    ASSUME NEW t, Sound(t), NEW i \in Index
    PROVE  LET r == AddAcceptPool(t, i) IN
           /\ Sound(r) /\ Gives(t, r, i)
           /\ r.conns[i] = [t.conns[i] EXCEPT !.id = -1]
           /\ \A j \in Index \ {i} : r.conns[j] = t.conns[j]
           /\ r.session = t.session
<1> DEFINE r == AddAcceptPool(t, i)
           e == [t.conns[i] EXCEPT !.id = -1]
           k == [t.conns EXCEPT ![i] = e]
           op == t.open \ {t.conns[i].id}
           p == AddChain(t.pool, i)
<1>1. t \in Tables /\ t.conns \in [Index -> Connection] /\ t.open \in SUBSET Fds
  BY SoundTable, TableFields
<1>2. e \in Connection /\ e.id = -1
  BY <1>1 DEF Connection
<1>3. p \in Chains
  BY AddPool, PoolIsChain DEF Sound
<1>4. CloseSocket(t, i) = [t EXCEPT !.open = op, !.conns = k]
  BY Zenon DEF CloseSocket
<1> HIDE DEF e, op, p
<1>5. CloseSocket(t, i) = [conns |-> k, pool |-> t.pool, open |-> op, session |-> t.session]
  <2> HIDE DEF k
  <2> QED BY <1>1, <1>4, TableFields
<1>6. r = [CloseSocket(t, i) EXCEPT !.pool = p]
  BY <1>5 DEF AddAcceptPool, p
<1>7. r = [conns |-> k, pool |-> p, open |-> op, session |-> t.session]
  <2> HIDE DEF k, r
  <2> QED BY <1>5, <1>6
<1>8. k \in [Index -> Connection] /\ k[i] = e /\ \A j \in Index \ {i} : k[j] = t.conns[j]
  BY <1>1, <1>2
<1> HIDE DEF k, r
<1>9. r.conns = k /\ r.pool = p /\ r.open = op /\ r.session = t.session
  BY <1>7
<1>10. r \in Tables
  <2>1. op \in SUBSET Fds
    BY <1>1 DEF op
  <2> QED BY <1>1, <1>3, <1>7, <1>8, <2>1, TableFields DEF Tables
<1>11. Gives(t, r, i)
  BY <1>2, <1>8, <1>9 DEF Gives, p, op
<1>12. Sound(r)
  BY <1>10, <1>11, GivesSound
<1> QED BY <1>8, <1>9, <1>11, <1>12 DEF r, e

\* Connections with other counters, states or descriptors to send to, in the same slots.
LEMMA EditIs ==
    ASSUME NEW t, Sound(t), NEW k \in [Index -> Connection], NEW s \in [Index -> BOOLEAN],
           \A j \in Index : k[j].id = t.conns[j].id,
           NEW r, r = [conns |-> k, pool |-> t.pool, open |-> t.open, session |-> s]
    PROVE  Sound(r) /\ Keeps(t, r) /\ r.conns = k /\ r.session = s
<1>1. t \in Tables
  BY SoundTable
<1>2. r.conns = k /\ r.pool = t.pool /\ r.open = t.open /\ r.session = s
  OBVIOUS
<1>3. r \in Tables
  BY <1>1, TableFields DEF Tables
<1>4. Keeps(t, r)
  BY <1>2 DEF Keeps
<1> QED BY <1>2, <1>3, <1>4, KeepsSound

\* qs_close_socket_common keeps every slot, and settles its own when it is free.
LEMMA CloseCommonIs ==
    ASSUME NEW t, Sound(t), NEW i \in Index
    PROVE  LET r == CloseCommon(t, i) IN
           /\ Sound(r) /\ Keeps(t, r)
           /\ r.conns[i].acc = -1 /\ Settled(r, i)
           /\ \A j \in Index \ {i} : Settled(t, j) => Settled(r, j)
<1> DEFINE e == [t.conns[i] EXCEPT !.acc = -1, !.status = "default"]
           k == [t.conns EXCEPT ![i] = e]
           s == [t.session EXCEPT ![i] = FALSE]
           r == CloseCommon(t, i)
<1>1. /\ t \in Tables /\ t.conns \in [Index -> Connection]
      /\ t.session \in [Index -> BOOLEAN]
  BY SoundTable, TableFields
<1>2. e \in Connection /\ e.acc = -1 /\ e.status = "default" /\ e.id = t.conns[i].id
  BY <1>1 DEF Connection
<1>3. r = [t EXCEPT !.conns = k, !.session = s]
  <2>1. r = [t EXCEPT !.session = s, !.conns = [t.conns EXCEPT ![i] = [[t.conns[i] EXCEPT !.acc = -1] EXCEPT !.status = "default"]]]
    <3>1. /\ k[i] = e /\ [k EXCEPT ![i].status = "default"] = k
          /\ [[t.conns EXCEPT ![i].acc = -1] EXCEPT ![i].status = "default"] = k
      BY <1>1, <1>2
    <3> QED BY <1>1, <3>1, TableFields DEF CloseCommon
  <2> QED BY <1>1, <2>1, TableFields
<1>3a. r = [conns |-> k, pool |-> t.pool, open |-> t.open, session |-> s]
  <2> HIDE DEF k, s, r
  <2> QED BY <1>1, <1>3 DEF Tables
<1> HIDE DEF e
<1>4. /\ k \in [Index -> Connection] /\ k[i] = e
      /\ \A j \in Index \ {i} : k[j] = t.conns[j] /\ s[j] = t.session[j]
      /\ s \in [Index -> BOOLEAN] /\ s[i] = FALSE
  BY <1>1, <1>2
<1> HIDE DEF k, s, r
<1>5. \A j \in Index : k[j].id = t.conns[j].id
  BY <1>2, <1>4
<1>6. Sound(r) /\ Keeps(t, r) /\ r.conns = k /\ r.session = s
  BY <1>3a, <1>4, <1>5, EditIs
<1> QED BY <1>2, <1>4, <1>6 DEF Settled, Free, r

\* Sends that fail keep every slot.
LEMMA SendsFailIs ==
    ASSUME NEW t, Sound(t), NEW F \in SUBSET Index
    PROVE  LET r == SendsFail(t, F) IN
           /\ Sound(r) /\ Keeps(t, r)
           /\ \A j \in Index : /\ r.conns[j].counter = t.conns[j].counter
                               /\ r.conns[j].acc \in {-1, t.conns[j].acc}
                               /\ Settled(t, j) => Settled(r, j)
<1> DEFINE e(j) == [t.conns[j] EXCEPT !.acc = -1, !.status = "default"]
           k == [j \in Index |-> IF j \in F THEN e(j) ELSE t.conns[j]]
           s == [j \in Index |-> t.session[j] /\ j \notin F]
           r == SendsFail(t, F)
<1>1. /\ t \in Tables /\ t.conns \in [Index -> Connection]
      /\ t.session \in [Index -> BOOLEAN]
  BY SoundTable, TableFields
<1>2. \A j \in Index : /\ e(j) \in Connection /\ e(j).acc = -1 /\ e(j).status = "default"
                       /\ e(j).id = t.conns[j].id /\ e(j).counter = t.conns[j].counter
  BY <1>1 DEF Connection
<1>3. r = [t EXCEPT !.session = s, !.conns = k]
  BY Zenon DEF SendsFail
<1> HIDE DEF e
<1>4. /\ k \in [Index -> Connection] /\ s \in [Index -> BOOLEAN]
      /\ \A j \in Index : /\ k[j] = IF j \in F THEN e(j) ELSE t.conns[j]
                          /\ s[j] => t.session[j] /\ j \notin F
  BY <1>1, <1>2
<1> HIDE DEF k, s, r
<1>5. r = [conns |-> k, pool |-> t.pool, open |-> t.open, session |-> s]
  BY <1>1, <1>3 DEF Tables
<1>6. \A j \in Index : k[j].id = t.conns[j].id
  BY <1>2, <1>4
<1>7. Sound(r) /\ Keeps(t, r) /\ r.conns = k /\ r.session = s
  BY <1>4, <1>5, <1>6, EditIs
<1>8. ASSUME NEW j \in Index
      PROVE  /\ k[j].counter = t.conns[j].counter
             /\ k[j].acc \in {-1, t.conns[j].acc}
             /\ Settled(t, j) => Settled(r, j)
  BY <1>2, <1>4, <1>7 DEF Settled, Free
<1> QED BY <1>7, <1>8 DEF r

\* The end of a slot's visit: its slot is given up when its time is up, and is settled.
LEMMA SettleIs ==
    ASSUME NEW t, Sound(t), NEW i \in Index,
           ~Free(t, i) => t.conns[i].acc \in {-1, t.conns[i].id},
           \A j \in Index \ {i} : Settled(t, j)
    PROVE  LET r == Settle(t, i) IN
           /\ Sound(r) /\ \A j \in Index : Settled(r, j)
           /\ ~TimedOut(t.conns[i]) => Keeps(t, r)
           /\ TimedOut(t.conns[i]) => Gives(t, r, i)
<1> DEFINE u == IF TimedOut(t.conns[i]) THEN AddAcceptPool(t, i) ELSE t
           r == Settle(t, i)
<1>1. /\ Sound(AddAcceptPool(t, i)) /\ Gives(t, AddAcceptPool(t, i), i)
      /\ \A j \in Index \ {i} : AddAcceptPool(t, i).conns[j] = t.conns[j]
      /\ AddAcceptPool(t, i).session = t.session
  <2> HIDE DEF u, r
  <2> QED BY AddAcceptPoolIs
<1>2. /\ Sound(u) /\ \A j \in Index \ {i} : Settled(u, j)
      /\ ~TimedOut(t.conns[i]) => u = t
      /\ TimedOut(t.conns[i]) => Gives(t, u, i) /\ Free(u, i)
  BY <1>1 DEF Settled, Free, Gives
<1>3. r = IF Free(u, i) THEN CloseCommon(u, i) ELSE u
  BY DEF Settle
<1> HIDE DEF u, r
<1>4. CASE Free(u, i)
  <2>1. /\ Sound(r) /\ Keeps(u, r) /\ Settled(r, i)
        /\ \A j \in Index \ {i} : Settled(r, j)
    BY <1>2, <1>3, <1>4, CloseCommonIs
  <2>2. Gives(t, u, i) => Gives(t, r, i)
    BY <2>1 DEF Gives, Keeps
  <2> QED BY <1>2, <2>1, <2>2 DEF r
<1>5. CASE ~Free(u, i)
  <2>1. r = t /\ u = t /\ ~TimedOut(t.conns[i])
    BY <1>2, <1>3, <1>5
  <2>2. Settled(r, i)
    BY <1>5, <2>1 DEF Settled
  <2> QED BY <1>2, <2>1, <2>2 DEF r, Keeps
<1> QED BY <1>4, <1>5

\* Slots and sockets kept in two steps.
LEMMA KeepsGives ==
    ASSUME NEW t, NEW s, NEW r, NEW i \in Index
    PROVE  /\ Keeps(t, s) /\ Keeps(s, r) => Keeps(t, r)
           /\ Keeps(t, s) /\ Gives(s, r, i) => Gives(t, r, i)
           /\ Gives(t, s, i) /\ Keeps(s, r) => Gives(t, r, i)
BY DEF Keeps, Gives

\* A connection whose state and counters are written.
LEMMA WriteIs ==
    ASSUME NEW t, Sound(t), NEW i \in Index, NEW e \in Connection, e.id = t.conns[i].id,
           NEW r, r = [conns |-> [t.conns EXCEPT ![i] = e], pool |-> t.pool, open |-> t.open,
                       session |-> t.session]
    PROVE  /\ Sound(r) /\ Keeps(t, r) /\ r.conns = [t.conns EXCEPT ![i] = e]
           /\ r.conns[i] = e /\ r.session = t.session
           /\ \A j \in Index \ {i} : /\ r.conns[j] = t.conns[j]
                                     /\ Settled(t, j) => Settled(r, j)
<1> DEFINE k == [t.conns EXCEPT ![i] = e]
<1>1. /\ t \in Tables /\ t.conns \in [Index -> Connection]
      /\ t.session \in [Index -> BOOLEAN]
  BY SoundTable, TableFields
<1>2. k \in [Index -> Connection] /\ k[i] = e /\ \A j \in Index \ {i} : k[j] = t.conns[j]
  BY <1>1
<1>3. r = [conns |-> k, pool |-> t.pool, open |-> t.open, session |-> t.session]
  OBVIOUS
<1> HIDE DEF k
<1>4. \A j \in Index : k[j].id = t.conns[j].id
  BY <1>2
<1>5. Sound(r) /\ Keeps(t, r) /\ r.conns = k /\ r.session = t.session
  BY <1>1, <1>2, <1>3, <1>4, EditIs
<1> QED BY <1>2, <1>5 DEF Settled, Free, k

-----------------------------------------------------------------------------
\* What a step of a visit must show: a sound table, every slot settled, and the visit over or
\* at a slot in use whose first message is counted.
LEMMA VisitEnd ==
    ASSUME NEW i \in Index, Sound(table'), \A j \in Index : Settled(table', j), refused' = FALSE,
           \/ at' = NextSlot(i)
           \/ /\ at' = [phase |-> "event", i |-> i]
              /\ ~Free(table', i) /\ table'.conns[i].counter = 1
    PROVE  IInv'
<1>1. table' \in Tables
  BY SoundTable
<1>2. at' \in [phase : {"idle", "accept", "recv", "event"}, i : Index]
  BY Numbers DEF NextSlot
<1>3. Typed'
  BY <1>1, <1>2 DEF Typed, Tables
<1>4. at'.phase = "event" => ~Free(table', at'.i) /\ table'.conns[at'.i].counter = 1
  BY DEF NextSlot
<1> QED BY <1>3, <1>4 DEF IInv

\* The end of a message, of a slot whose first message is counted.
LEMMA AfterMessageIs ==
    ASSUME NEW t, Sound(t), NEW i \in Index, NEW more \in BOOLEAN, AfterMessage(t, i, more),
           at = [phase |-> "event", i |-> i], refused' = FALSE, t.conns[i].counter = 1,
           ~Free(t, i) => t.conns[i].acc \in {-1, t.conns[i].id},
           \A j \in Index \ {i} : Settled(t, j)
    PROVE  IInv' /\ Keeps(t, table')
<1>1. CASE more /\ ~Free(t, i)
  <2>1. table' = t /\ at' = at
    BY <1>1 DEF AfterMessage
  <2>2. \A j \in Index : Settled(t, j)
    BY <1>1 DEF Settled
  <2> QED BY <1>1, <2>1, <2>2, VisitEnd DEF Keeps
<1>2. CASE ~(more /\ ~Free(t, i))
  <2>1. table' = Settle(t, i) /\ at' = NextSlot(i)
    BY <1>2 DEF AfterMessage
  <2>2. ~TimedOut(t.conns[i])
    BY DEF TimedOut
  <2>3. Sound(table') /\ Keeps(t, table') /\ \A j \in Index : Settled(table', j)
    BY <2>1, <2>2, SettleIs
  <2> QED BY <2>1, <2>3, VisitEnd
<1> QED BY <1>1, <1>2

\* A slot in the middle of qs_recv_event is in use, and its message is counted.
LEMMA InEvent ==
    ASSUME IInv, NEW i \in Index, at = [phase |-> "event", i |-> i]
    PROVE  /\ Sound(table) /\ refused = FALSE /\ ~Free(table, i) /\ table.conns[i].counter = 1
           /\ table.conns[i] \in Connection /\ \A j \in Index : Settled(table, j)
<1>1. at.phase = "event" /\ at.i = i
  OBVIOUS
<1>2. table.conns[i] \in Connection
  BY SoundTable, TableFields DEF IInv
<1> QED BY <1>1, <1>2 DEF IInv, Typed

\* The state of a slot written.
LEMMA StatusIs ==
    ASSUME NEW t, Sound(t), NEW i \in Index, NEW s \in {"default", "other"},
           ~Free(t, i), \A j \in Index : Settled(t, j)
    PROVE  LET r == [t EXCEPT !.conns[i].status = s] IN
           /\ Sound(r) /\ Keeps(t, r) /\ r.session = t.session
           /\ r.conns[i].counter = t.conns[i].counter /\ r.conns[i].status = s
           /\ \A j \in Index : Settled(r, j)
<1> DEFINE e == [t.conns[i] EXCEPT !.status = s]
           r == [t EXCEPT !.conns[i].status = s]
<1>1. t \in Tables /\ t.conns \in [Index -> Connection]
  BY SoundTable, TableFields
<1>2. /\ e \in Connection /\ e.id = t.conns[i].id /\ e.counter = t.conns[i].counter
      /\ e.acc = t.conns[i].acc /\ e.status = s
  BY <1>1 DEF Connection
<1>3. r = [conns |-> [t.conns EXCEPT ![i] = e], pool |-> t.pool, open |-> t.open,
           session |-> t.session]
  <2> DEFINE k == [t.conns EXCEPT ![i] = e]
  <2>1. r = [t EXCEPT !.conns = k]
    BY Zenon
  <2> HIDE DEF k, r
  <2>2. r = [conns |-> k, pool |-> t.pool, open |-> t.open, session |-> t.session]
    BY <1>1, <2>1 DEF Tables
  <2> QED BY <2>2 DEF k
<1> HIDE DEF e, r
<1>4. /\ Sound(r) /\ Keeps(t, r) /\ r.conns[i] = e /\ r.session = t.session
      /\ \A j \in Index \ {i} : Settled(t, j) => Settled(r, j)
  BY <1>1, <1>2, <1>3, WriteIs
<1>5. Settled(r, i)
  BY <1>2, <1>4 DEF Settled, Free
<1> QED BY <1>2, <1>4, <1>5 DEF r

\* The steps of a visit that end it at once.
LEMMA ShortVisit ==
    ASSUME IInv, NEW i \in Index, Skip(i) \/ NoData(i) \/ Gone(i)
    PROVE  /\ IInv'
           /\ \/ Keeps(table, table')
              \/ ~Free(table, i) /\ Gives(table, table', i)
              \/ /\ Gone(i) /\ TimedOut(table.conns[i])
                 /\ \E s : Sound(s) /\ Gives(table, s, i) /\ Gives(s, table', i)
<1>1. Sound(table) /\ \A j \in Index : Settled(table, j)
  BY DEF IInv
<1>2. CASE Skip(i)
  BY <1>1, <1>2, VisitEnd DEF Skip, Keeps
<1>3. CASE NoData(i)
  <2>1. /\ table' = Settle(table, i) /\ at' = NextSlot(i) /\ refused' = FALSE /\ ~Free(table, i)
    BY <1>3 DEF NoData
  <2>2. /\ Sound(table') /\ \A j \in Index : Settled(table', j)
        /\ Keeps(table, table') \/ Gives(table, table', i)
    BY <1>1, <2>1, SettleIs DEF Settled
  <2> QED BY <2>1, <2>2, VisitEnd
<1>4. CASE Gone(i)
  <2> DEFINE s == AddAcceptPool(table, i)
  <2>1. /\ table' = Settle(s, i) /\ at' = NextSlot(i) /\ refused' = FALSE /\ ~Free(table, i)
    BY <1>4 DEF Gone
  <2>2. /\ Sound(s) /\ Gives(table, s, i)
        /\ s.conns[i] = [table.conns[i] EXCEPT !.id = -1]
        /\ \A j \in Index \ {i} : s.conns[j] = table.conns[j]
        /\ s.session = table.session
    BY <1>1, AddAcceptPoolIs
  <2> HIDE DEF s
  <2>3. /\ Free(s, i) /\ \A j \in Index \ {i} : Settled(s, j)
        /\ TimedOut(s.conns[i]) <=> TimedOut(table.conns[i])
    <3>1. table.conns[i] \in Connection
      BY <1>1, SoundTable, TableFields
    <3>2. s.conns[i].counter = table.conns[i].counter /\ s.conns[i].age = table.conns[i].age
          /\ s.conns[i].id = -1
      BY <2>2, <3>1 DEF Connection
    <3> QED BY <1>1, <2>2, <3>2 DEF Settled, Free, TimedOut
  <2>4. /\ Sound(table') /\ \A j \in Index : Settled(table', j)
        /\ ~TimedOut(s.conns[i]) => Keeps(s, table')
        /\ TimedOut(s.conns[i]) => Gives(s, table', i)
    BY <2>1, <2>2, <2>3, SettleIs
  <2>5. IInv'
    BY <2>1, <2>4, VisitEnd
  <2> QED BY <1>4, <2>1, <2>2, <2>3, <2>4, <2>5, KeepsGives
<1> QED BY <1>2, <1>3, <1>4

\* Data is there: the descriptor to send to is that of the slot, and a message is counted.
LEMMA DataVisit ==
    ASSUME IInv, NEW i \in Index, Data(i)
    PROVE  IInv' /\ Keeps(table, table')
<1> DEFINE e == [table.conns[i] EXCEPT !.acc = table.conns[i].id, !.counter = 1]
<1>1. /\ Sound(table) /\ table \in Tables /\ table.conns \in [Index -> Connection]
      /\ \A j \in Index : Settled(table, j)
  BY SoundTable, TableFields DEF IInv
<1>2. /\ ~Free(table, i) /\ at' = [phase |-> "event", i |-> i] /\ refused' = FALSE
      /\ table' = [table EXCEPT !.conns[i].acc = table.conns[i].id, !.conns[i].counter = 1]
  BY DEF Data
<1>3. /\ e \in Connection /\ e.id = table.conns[i].id /\ e.acc = e.id /\ e.counter = 1
      /\ e.status = table.conns[i].status
  BY <1>1 DEF Connection
<1>4. table' = [conns |-> [table.conns EXCEPT ![i] = e], pool |-> table.pool,
                open |-> table.open, session |-> table.session]
  <2> DEFINE a == [table.conns EXCEPT ![i].acc = table.conns[i].id]
             k == [a EXCEPT ![i].counter = 1]
             l == [table.conns EXCEPT ![i] = e]
  <2>1. k = l
    BY <1>1, <1>3
  <2>2. table' = [table EXCEPT !.conns = k]
    <3>1. [table EXCEPT !.conns = a] \in [conns : {a}, pool : {table.pool}, open : {table.open}, session : {table.session}]
      BY <1>1 DEF Tables
    <3> QED BY <1>1, <1>2, <3>1 DEF Tables
  <2> HIDE DEF k, l
  <2>3. table' = [conns |-> l, pool |-> table.pool, open |-> table.open, session |-> table.session]
    BY <1>1, <2>1, <2>2 DEF Tables
  <2> QED BY <2>3 DEF l
<1> HIDE DEF e
<1>5. /\ Sound(table') /\ Keeps(table, table') /\ table'.conns[i] = e
      /\ \A j \in Index \ {i} : Settled(table, j) => Settled(table', j)
  BY <1>1, <1>3, <1>4, WriteIs
<1>6. ~Free(table', i) /\ Settled(table', i)
  BY <1>2, <1>3, <1>5 DEF Settled, Free
<1>7. IInv'
  BY <1>1, <1>2, <1>3, <1>5, <1>6, VisitEnd
<1> QED BY <1>5, <1>7

\* A message: whatever comes of it, its slot is kept or given up once.
LEMMA MessageVisit ==
    ASSUME IInv, NEW i \in Index,
           \/ BadMessage(i) \/ PartMessage(i)
           \/ \E F \in SUBSET Reachable(table), done, more \in BOOLEAN : Message(i, F, done, more)
    PROVE  IInv' /\ (Keeps(table, table') \/ (~Free(table, i) /\ Gives(table, table', i)))
<1>1. at = [phase |-> "event", i |-> i] /\ refused' = refused
  BY DEF BadMessage, PartMessage, Message
<1>2. /\ Sound(table) /\ refused = FALSE /\ ~Free(table, i) /\ table.conns[i].counter = 1
      /\ table.conns[i] \in Connection /\ \A j \in Index : Settled(table, j)
  BY <1>1, InEvent
\* the slot w, kept until now, given up by qs_add_accept_pool
<1>3. ASSUME NEW w, Sound(w), Keeps(table, w), w.conns[i].counter = 1,
             \A j \in Index : Settled(w, j), NEW more \in BOOLEAN,
             \/ AfterMessage(w, i, more)
             \/ AfterMessage(AddAcceptPool(w, i), i, more)
      PROVE  IInv' /\ (Keeps(table, table') \/ Gives(table, table', i))
  <2>1. CASE AfterMessage(w, i, more)
    <3>1. w.conns[i].acc \in {-1, w.conns[i].id}
      BY <1>3 DEF Settled
    <3>2. IInv' /\ Keeps(w, table')
      BY <1>1, <1>2, <1>3, <2>1, <3>1, AfterMessageIs
    <3> QED BY <1>3, <3>2, KeepsGives
  <2>2. CASE AfterMessage(AddAcceptPool(w, i), i, more)
    <3> DEFINE s == AddAcceptPool(w, i)
    <3>1. /\ Sound(s) /\ Gives(w, s, i)
          /\ s.conns[i] = [w.conns[i] EXCEPT !.id = -1]
          /\ \A j \in Index \ {i} : s.conns[j] = w.conns[j]
          /\ s.session = w.session
      BY <1>3, AddAcceptPoolIs
    <3> HIDE DEF s
    <3>2. w.conns[i] \in Connection
      BY <1>3, SoundTable, TableFields
    <3>3. s.conns[i].counter = 1 /\ Free(s, i)
      BY <1>3, <3>1, <3>2 DEF Connection, Free
    <3>4. \A j \in Index \ {i} : Settled(s, j)
      BY <1>3, <3>1 DEF Settled, Free
    <3>5. IInv' /\ Keeps(s, table')
      BY <1>1, <1>2, <2>2, <3>1, <3>3, <3>4, AfterMessageIs DEF s
    <3> QED BY <1>3, <3>1, <3>5, KeepsGives
  <2> QED BY <1>3, <2>1, <2>2
<1>4. CASE BadMessage(i) \/ PartMessage(i)
  <2> DEFINE w == [table EXCEPT !.conns[i].status = "other"]
  <2>1. /\ Sound(w) /\ Keeps(table, w) /\ w.conns[i].counter = 1 /\ \A j \in Index : Settled(w, j)
    BY <1>2, StatusIs
  <2>2. \/ AfterMessage(w, i, FALSE)
        \/ AfterMessage(AddAcceptPool(w, i), i, FALSE)
    BY <1>4 DEF BadMessage, PartMessage
  <2> HIDE DEF w
  <2> QED BY <1>2, <1>3, <2>1, <2>2
<1>5. CASE \E F \in SUBSET Reachable(table), done, more \in BOOLEAN : Message(i, F, done, more)
  <2>1. PICK F \in SUBSET Reachable(table), done \in BOOLEAN, more \in BOOLEAN : Message(i, F, done, more)
    BY <1>5
  <2> DEFINE b == IF done THEN "default" ELSE "other"
             v == [table EXCEPT !.conns[i].status = b]
             w == SendsFail(v, F)
  <2>2. /\ Sound(v) /\ Keeps(table, v) /\ v.conns[i].counter = 1 /\ \A j \in Index : Settled(v, j)
    <3> DEFINE x == [table EXCEPT !.conns[i].status = "default"]
               y == [table EXCEPT !.conns[i].status = "other"]
    <3>1. v = IF done THEN x ELSE y
      OBVIOUS
    <3> HIDE DEF v
    <3>2. /\ Sound(x) /\ Keeps(table, x) /\ x.conns[i].counter = 1
          /\ \A j \in Index : Settled(x, j)
      BY <1>2, StatusIs
    <3>3. /\ Sound(y) /\ Keeps(table, y) /\ y.conns[i].counter = 1
          /\ \A j \in Index : Settled(y, j)
      BY <1>2, StatusIs
    <3> HIDE DEF x, y
    <3> QED BY <3>1, <3>2, <3>3
  <2>3. F \in SUBSET Index
    BY DEF Reachable
  <2>4. \/ AfterMessage(w, i, more)
        \/ AfterMessage(AddAcceptPool(w, i), i, more)
    BY <2>1, Zenon DEF Message
  <2> HIDE DEF b, v
  <2>5. /\ Sound(w) /\ Keeps(v, w) /\ w.conns[i].counter = 1 /\ \A j \in Index : Settled(w, j)
    BY <2>2, <2>3, SendsFailIs
  <2> HIDE DEF w
  <2>6. Keeps(table, w)
    BY <2>2, <2>5, KeepsGives
  <2> QED BY <1>2, <1>3, <2>4, <2>5, <2>6
<1> QED BY <1>4, <1>5

-----------------------------------------------------------------------------
\* Where one table has given slot i of the other to the descriptor fd.
Takes(t, r, i, fd) ==
    /\ r.pool = t.pool /\ r.open = t.open \cup {fd}
    /\ r.conns[i].id = fd /\ r.conns[i].acc = fd
    /\ \A j \in Index \ {i} : r.conns[j] = t.conns[j] /\ r.session[j] = t.session[j]

\* A slot taken for a descriptor that was not open.
LEMMA TakesSound ==
    ASSUME NEW t, Sound(t), NEW i \in Index, NEW fd \in Fds \ t.open,
           NEW r \in Tables, Takes(t, r, i, fd)
    PROVE  /\ Sound(r) /\ Settled(r, i)
           /\ \A j \in Index \ {i} : Settled(t, j) => Settled(r, j)
<1>1. fd # -1
  BY Numbers
<1>2. \A j \in Index : r.conns[j].id # -1 => r.conns[j].id \in r.open
  BY DEF Sound, Takes
<1>3. ASSUME NEW j \in Index, NEW k \in Index, j # k, r.conns[j].id # -1
      PROVE  r.conns[j].id # r.conns[k].id
  <2>1. CASE j = i
    <3>1. r.conns[k].id = t.conns[k].id /\ r.conns[j].id = fd
      BY <1>3, <2>1 DEF Takes
    <3> QED BY <1>1, <3>1 DEF Sound
  <2>2. CASE j # i
    <3>1. r.conns[j].id = t.conns[j].id /\ t.conns[j].id \in t.open
      BY <1>3, <2>2 DEF Takes, Sound
    <3>2. CASE k = i
      BY <3>1, <3>2 DEF Takes
    <3>3. CASE k # i
      BY <1>3, <3>1, <3>3 DEF Takes, Sound
    <3> QED BY <3>2, <3>3
  <2> QED BY <2>1, <2>2
<1>4. Sound(r)
  BY <1>2, <1>3 DEF Sound, Tables, Takes
<1> QED BY <1>1, <1>4 DEF Takes, Settled, Free

\* What the two halves of qs_accept write into a free slot.
LEMMA TakeIs ==
    ASSUME NEW t, Sound(t), NEW i \in Index, NEW fd \in Fds
    PROVE  /\ TakeFromPool(t, i, fd) \in Tables
           /\ Takes(t, TakeFromPool(t, i, fd), i, fd)
           /\ TakeFromPool(t, i, fd).conns[i].counter = 0 /\ TakeFromPool(t, i, fd).conns[i].age = 0
           /\ TakeFromTable(t, i, fd) \in Tables
           /\ Takes(t, TakeFromTable(t, i, fd), i, fd)
<1> DEFINE e == [t.conns[i] EXCEPT !.id = fd, !.acc = fd, !.counter = 0, !.age = 0]
           f == [t.conns[i] EXCEPT !.id = fd, !.acc = fd]
           k == [t.conns EXCEPT ![i] = e]
           l == [t.conns EXCEPT ![i] = f]
           s == [t.session EXCEPT ![i] = TRUE]
           op == t.open \cup {fd}
           p == TakeFromPool(t, i, fd)
           q == TakeFromTable(t, i, fd)
<1>1. /\ t \in Tables /\ t.conns \in [Index -> Connection] /\ t.pool \in Chains
      /\ t.open \in SUBSET Fds /\ t.session \in [Index -> BOOLEAN]
  BY SoundTable, TableFields
<1>2. /\ e \in Connection /\ e.id = fd /\ e.acc = fd /\ e.counter = 0 /\ e.age = 0
      /\ f \in Connection /\ f.id = fd /\ f.acc = fd
  <2>1. t.conns[i] \in Connection /\ fd \in Fds \cup {-1} /\ 0 \in 0 .. MaxAge
    BY <1>1, TimeoutAssumption
  <2> DEFINE A == 0 .. MaxAge
  <2>2. Connection = [id : Fds \cup {-1}, acc : Fds \cup {-1}, status : {"default", "other"},
                      counter : {0, 1}, age : A]
    BY DEF Connection
  <2> HIDE DEF A
  <2>3. e \in Connection /\ e.id = fd /\ e.acc = fd /\ e.counter = 0 /\ e.age = 0
    BY <2>1, <2>2 DEF A
  <2>4. f \in Connection /\ f.id = fd /\ f.acc = fd
    BY <2>1, <2>2
  <2> QED BY <2>3, <2>4
<1>3. p = [conns |-> k, pool |-> t.pool, open |-> op, session |-> s]
  <2>1. p = [t EXCEPT !.open = op, !.session = s, !.conns = k]
    BY Zenon DEF TakeFromPool
  <2> HIDE DEF p, k, s, op
  <2> QED BY <1>1, <2>1 DEF Tables
<1>4. q = [conns |-> l, pool |-> t.pool, open |-> op, session |-> s]
  <2> DEFINE a == [t.conns EXCEPT ![i].id = fd]
             b == [a EXCEPT ![i].acc = fd]
  <2>1. b = l
    BY <1>1, <1>2
  <2>2. q = [t EXCEPT !.open = op, !.session = s, !.conns[i].id = fd, !.conns[i].acc = fd]
    BY Zenon DEF TakeFromTable
  <2>3. q = [t EXCEPT !.open = op, !.session = s, !.conns = b]
    <3> HIDE DEF q, s, op
    <3> QED BY <1>1, <2>2 DEF Tables
  <2> HIDE DEF q, l, b, s, op
  <2> QED BY <1>1, <2>1, <2>3 DEF Tables
<1> HIDE DEF e, f
<1>5. /\ k \in [Index -> Connection] /\ k[i] = e /\ \A j \in Index \ {i} : k[j] = t.conns[j]
      /\ l \in [Index -> Connection] /\ l[i] = f /\ \A j \in Index \ {i} : l[j] = t.conns[j]
      /\ s \in [Index -> BOOLEAN] /\ \A j \in Index \ {i} : s[j] = t.session[j]
      /\ op \in SUBSET Fds
  BY <1>1, <1>2
<1> HIDE DEF k, l, s, p, q
<1> QED BY <1>1, <1>2, <1>3, <1>4, <1>5 DEF Tables, Takes, p, q

\* The first entry of the pool given up: everything else stays.
LEMMA UnpoolIs ==
    ASSUME NEW t, Sound(t)
    PROVE  LET r == Unpool(t)
               b == NextBlock(t.pool, None)
           IN  /\ Sound(r) /\ r.conns = t.conns /\ r.open = t.open /\ r.session = t.session
               /\ r.pool = IF b = None THEN t.pool ELSE RemoveChain(t.pool, b)
<1> DEFINE b == NextBlock(t.pool, None)
           p == RemoveChain(t.pool, b)
           r == Unpool(t)
<1>1. t \in Tables
  BY SoundTable
<1>2. CASE b = None
  <2>1. r = t
    BY <1>2 DEF Unpool
  <2> QED BY <1>2, <2>1
<1>3. CASE b # None
  <2>1. IsPool(p) /\ p \in Chains
    BY <1>3, FirstOfPool, PoolIsChain DEF Sound
  <2>2. r = [t EXCEPT !.pool = p]
    BY <1>3 DEF Unpool
  <2> HIDE DEF p, r
  <2>3. r = [conns |-> t.conns, pool |-> p, open |-> t.open, session |-> t.session]
    BY <1>1, <2>2 DEF Tables
  <2>4. /\ r.conns = t.conns /\ r.open = t.open /\ r.session = t.session /\ r.pool = p
        /\ r \in Tables
    BY <1>1, <2>1, <2>3, TableFields DEF Tables
  <2>5. Sound(r)
    BY <2>1, <2>4 DEF Sound, Tables
  <2> QED BY <1>3, <2>4, <2>5 DEF p, r
<1> QED BY <1>2, <1>3

\* qs_accept: a slot was free and is taken, or the client is closed and every slot is in use,
\* or its name could not be had and its descriptor is lost.
LEMMA AcceptIs ==
    ASSUME NEW t, Sound(t), NEW fd \in Fds \ t.open,
           NEW unnamed \in BOOLEAN, NEW unnamedAgain \in BOOLEAN
    PROVE  LET x == Accept(t, fd, unnamed, unnamedAgain)
               r == x.table
               b == NextBlock(t.pool, None)
           IN  \/ /\ x.got \in Index /\ Free(t, x.got) /\ r \in Tables
                  /\ Takes(Unpool(t), r, x.got, fd)
                  /\ \/ /\ b # None /\ x.got = t.pool.data[b] /\ ~unnamed
                        /\ r.conns[x.got].counter = 0 /\ r.conns[x.got].age = 0
                     \/ /\ ~unnamedAgain
                        /\ ~(b # None /\ Free(t, t.pool.data[b]) /\ ~unnamed)
               \/ /\ x.got = -1 /\ FreeSlots(t) = {} /\ r = Unpool(t)
               \/ /\ x.got = -1 /\ unnamedAgain /\ r \in Tables /\ FreeSlots(t) # {}
                  /\ ~(b # None /\ Free(t, t.pool.data[b]) /\ ~unnamed)
                  /\ r.conns = t.conns /\ r.session = t.session
                  /\ r.pool = Unpool(t).pool /\ r.open = t.open \cup {fd}
<1> DEFINE x == Accept(t, fd, unnamed, unnamedAgain)
           b == NextBlock(t.pool, None)
           i == t.pool.data[b]
           w == Unpool(t)
<1>1. /\ Sound(w) /\ w.conns = t.conns /\ w.open = t.open /\ w.session = t.session
      /\ FreeSlots(w) = FreeSlots(t) /\ w \in Tables
  BY UnpoolIs, SoundTable DEF FreeSlots
<1>2. CASE b # None /\ Free(t, i) /\ ~unnamed
  <2>1. x.table = TakeFromPool(w, i, fd) /\ x.got = i
    BY <1>2 DEF Accept, FromPool, Pooled
  <2>2. i \in Index
    BY <1>2, FirstOfPool DEF Sound
  <2> HIDE DEF i, x, w
  <2> QED BY <1>1, <1>2, <2>1, <2>2, TakeIs DEF i, x, w
<1>3. CASE ~(b # None /\ Free(t, i) /\ ~unnamed)
  <2>1. x = ScanTable(w, fd, unnamedAgain)
    BY <1>3 DEF Accept, FromPool, Pooled
  <2> HIDE DEF x, w, b, i
  <2>2. CASE FreeSlots(t) = {}
    <3>1. x.table = w /\ x.got = -1
      BY <1>1, <2>1, <2>2 DEF ScanTable
    <3> QED BY <2>2, <3>1 DEF x, w
  <2>3. CASE FreeSlots(t) # {} /\ unnamedAgain
    <3> DEFINE op == w.open \cup {fd}
    <3>1. x = [table |-> [w EXCEPT !.open = op], got |-> -1]
      BY <1>1, <2>1, <2>3 DEF ScanTable
    <3>2. x.got = -1 /\ x.table = [w EXCEPT !.open = op]
      BY <3>1
    <3>3. op \in SUBSET Fds
      BY <1>1, TableFields
    <3> HIDE DEF op
    <3>4. x.table = [conns |-> w.conns, pool |-> w.pool, open |-> op, session |-> w.session]
      BY <1>1, <3>2 DEF Tables
    <3>5. x.table \in Tables
      BY <1>1, <3>3, <3>4, TableFields DEF Tables
    <3>6. /\ x.table.conns = w.conns /\ x.table.pool = w.pool /\ x.table.open = op
          /\ x.table.session = w.session
      BY <3>4
    <3> QED BY <1>1, <1>3, <2>3, <3>2, <3>5, <3>6 DEF x, w, op, b, i
  <2>4. CASE FreeSlots(t) # {} /\ ~unnamedAgain
    <3> DEFINE m == Min(FreeSlots(w))
    <3>1. m \in FreeSlots(t)
      <4>1. FreeSlots(w) \in SUBSET Nat
        BY Numbers DEF FreeSlots, Index
      <4> QED BY <1>1, <2>4, <4>1, MinIn
    <3>2. x.table = TakeFromTable(w, m, fd) /\ x.got = m
      BY <1>1, <2>1, <2>4 DEF ScanTable
    <3>3. m \in Index /\ Free(t, m)
      BY <3>1 DEF FreeSlots, Free
    <3> HIDE DEF m
    <3>4. x.table \in Tables /\ Takes(w, x.table, m, fd)
      BY <1>1, <3>2, <3>3, TakeIs
    <3> QED BY <1>3, <2>4, <3>2, <3>3, <3>4 DEF x, w, b, i
  <2> QED BY <2>2, <2>3, <2>4
<1> QED BY <1>2, <1>3

-----------------------------------------------------------------------------
\* The pool after the first i slots were put in.
Filled(i) ==
    [start |-> 0, tail |-> i, end |-> MaxConnection, prev |-> NewChain.prev, next |-> NewChain.next,
     data |-> [b \in Blocks |-> IF b < i THEN b ELSE -1]]

\* One slot more.
LEMMA FillOne ==
    /\ Filled(0) = NewChain
    /\ \A i \in Index : AddChain(Filled(i), i) = Filled(i + 1)
<1>1. Filled(0) = NewChain
  <2> DEFINE p == [b \in Blocks |-> b - 1]
             n == [b \in Blocks |-> IF b = MaxConnection THEN None ELSE b + 1]
             d == [b \in Blocks |-> -1]
             e == [b \in Blocks |-> IF b < 0 THEN b ELSE -1]
  <2>1. NewChain = [start |-> 0, tail |-> 0, end |-> MaxConnection, prev |-> p, next |-> n, data |-> d]
    BY DEF NewChain
  <2>2. e = d
    BY Numbers DEF Blocks
  <2>3. Filled(0) = [start |-> 0, tail |-> 0, end |-> MaxConnection, prev |-> NewChain.prev,
                     next |-> NewChain.next, data |-> e]
    BY DEF Filled
  <2> HIDE DEF p, n, d, e
  <2>4. NewChain.prev = p /\ NewChain.next = n
    BY <2>1
  <2> QED BY <2>1, <2>2, <2>3, <2>4
<1>2. ASSUME NEW i \in Index
      PROVE  AddChain(Filled(i), i) = Filled(i + 1)
  <2> DEFINE d == [b \in Blocks |-> IF b < i THEN b ELSE -1]
             e == [b \in Blocks |-> IF b < i + 1 THEN b ELSE -1]
             p == NewChain.prev
             n == NewChain.next
             f == Filled(i)
             a == AddChain(f, i)
  <2>1. i \in Blocks /\ i + 1 \in Blocks /\ i # MaxConnection /\ i + 1 # None
    BY Numbers DEF Blocks, Index
  <2>2. n[i] = i + 1
    BY <2>1 DEF NewChain
  <2>3. e = [d EXCEPT ![i] = i]
    <3>1. \A b \in Blocks : b \in Int /\ (b < i + 1 <=> b < i \/ b = i)
      BY Numbers DEF Blocks
    <3> QED BY <2>1, <3>1
  <2> HIDE DEF d, e, p, n
  <2>4. f = [start |-> 0, tail |-> i, end |-> MaxConnection, prev |-> p, next |-> n, data |-> d]
    BY DEF Filled, d, p, n
  <2> HIDE DEF f
  <2>5. f.tail = i /\ f.next = n /\ f.data = d
    BY <2>4
  <2>6. FreeBlock(f) # None
    BY <2>1, <2>2, <2>5, Numbers DEF FreeBlock
  <2>7. a = [f EXCEPT !.data[f.tail] = i, !.tail = f.next[f.tail]]
    BY <2>6, Zenon DEF AddChain
  <2>8. a = [f EXCEPT !.data = e, !.tail = i + 1]
    BY <2>2, <2>3, <2>5, <2>7, Zenon
  <2> HIDE DEF a
  <2>9. a = [start |-> 0, tail |-> i + 1, end |-> MaxConnection, prev |-> p, next |-> n, data |-> e]
    BY <2>4, <2>8
  <2> QED BY <2>9 DEF a, f, Filled, e, p, n
<1> QED BY <1>1, <1>2

\* qs_create_socket_server fills the pool with every slot.
LEMMA FirstPoolIs == FirstPool = Filled(MaxConnection)
<1> DEFINE D == 0 .. MaxConnection
           F(f) == [i \in D |-> IF i = 0 THEN NewChain ELSE AddChain(f[i - 1], i - 1)]
           G == [i \in D |-> Filled(i)]
<1>0. MaxConnection \in Nat \ {0} /\ 0 \in D /\ MaxConnection \in D
  BY Numbers
<1>1. G = F(G)
  <2>1. ASSUME NEW i \in D
        PROVE  Filled(i) = IF i = 0 THEN NewChain ELSE AddChain(G[i - 1], i - 1)
    <3>1. CASE i = 0
      BY <3>1, FillOne
    <3>2. CASE i # 0
      <4>1. i - 1 \in Index /\ i - 1 \in D /\ (i - 1) + 1 = i
        BY <1>0, <3>2 DEF Index
      <4>2. G[i - 1] = Filled(i - 1)
        BY <4>1
      <4> HIDE DEF G, D
      <4>3. AddChain(Filled(i - 1), i - 1) = Filled((i - 1) + 1)
        BY <4>1, FillOne
      <4> QED BY <3>2, <4>1, <4>2, <4>3
    <3> QED BY <3>1, <3>2
  <2> HIDE DEF D
  <2> QED BY <2>1
<1> DEFINE f == CHOOSE x : x = F(x)
<1>2. FirstPool = f[MaxConnection]
  BY DEF FirstPool
<1>3. f = F(f)
  <2> HIDE DEF F
  <2> QED BY <1>1, Zenon
<1> HIDE DEF f, G
<1>4. /\ f[0] = NewChain
      /\ \A i \in 0 .. MaxConnection - 1 : f[i + 1] = AddChain(f[i], i)
  <2>1. f[0] = NewChain
    BY <1>0, <1>3
  <2>2. ASSUME NEW i \in 0 .. MaxConnection - 1
        PROVE  f[i + 1] = AddChain(f[i], i)
    <3>1. i + 1 \in D /\ i + 1 # 0 /\ (i + 1) - 1 = i
      BY <1>0
    <3>2. f[i + 1] = F(f)[i + 1]
      BY <1>3
    <3> QED BY <3>1, <3>2
  <2> QED BY <2>1, <2>2
<1> DEFINE S == {i \in D : f[i] = Filled(i)}
<1>5. 0 \in S
  BY <1>0, <1>4, FillOne
<1>6. ASSUME NEW i \in 0 .. MaxConnection - 1, i \in S
      PROVE  i + 1 \in S
  <2>1. i \in Index /\ i + 1 \in D
    BY <1>0 DEF Index
  <2>2. f[i] = Filled(i)
    BY <1>6
  <2>3. f[i + 1] = AddChain(Filled(i), i)
    BY <1>4, <2>2
  <2> QED BY <2>1, <2>3, FillOne
<1> HIDE DEF S
<1>7. \A i \in 0 .. MaxConnection : i \in S
  BY <1>0, <1>5, <1>6, C!UpTo, TableAssumption
<1> QED BY <1>0, <1>2, <1>7 DEF S

\* It is a list of all the slots, each in the block of its own number.
LEMMA FirstPoolList ==
    /\ C!ListOf(FirstPool, [k \in Blocks |-> k], MaxConnection)
    /\ \A b \in Index : FirstPool.data[b] = b
<1> DEFINE o == [k \in Blocks |-> k]
           d == [b \in Blocks |-> IF b < MaxConnection THEN b ELSE -1]
           f == Filled(MaxConnection)
<1>1. NewChain \in Chains /\ C!Links(NewChain, o)
  BY C!NewChainList, TableAssumption, SameChain DEF C!ListOf
<1>2. /\ NewChain.start = 0 /\ NewChain.end = MaxConnection
      /\ NewChain.prev \in [Blocks -> Blocks \cup {None}]
      /\ NewChain.next \in [Blocks -> Blocks \cup {None}]
  <2>1. NewChain.start = 0 /\ NewChain.end = MaxConnection
    BY DEF NewChain
  <2> QED BY <1>1, <2>1 DEF Chains
<1>3. f = [start |-> 0, tail |-> MaxConnection, end |-> MaxConnection, prev |-> NewChain.prev,
           next |-> NewChain.next, data |-> d]
  BY DEF Filled
<1>4. d \in [Blocks -> Index \cup {-1}] /\ \A b \in Index : d[b] = b
  BY Numbers DEF Blocks, Index
<1>5. o[MaxConnection] = MaxConnection /\ \A k \in 0 .. MaxConnection - 1 : o[k] = k
  BY Numbers DEF Blocks
<1> HIDE DEF o, d, f
<1>6. /\ f.start = NewChain.start /\ f.end = NewChain.end /\ f.prev = NewChain.prev
      /\ f.next = NewChain.next /\ f.tail = MaxConnection /\ f.data = d
  BY <1>2, <1>3
<1>7. f \in Chains
  BY <1>2, <1>3, <1>4, Numbers DEF Chains
<1>8. C!Links(f, o)
  BY <1>1, <1>6, SameChain DEF C!Links
<1>9. \A k \in 0 .. MaxConnection - 1 : f.data[o[k]] \in Index
  BY <1>4, <1>5, <1>6 DEF Index
<1>10. C!ListOf(f, o, MaxConnection)
  BY <1>5, <1>6, <1>7, <1>8, <1>9, SameChain, Numbers DEF C!ListOf
<1> QED BY <1>4, <1>6, <1>10, FirstPoolIs DEF f, o

-----------------------------------------------------------------------------
\* The server's start.
LEMMA InitIInv == Init => IInv
<1> SUFFICES ASSUME Init
             PROVE  IInv
  OBVIOUS
<1>1. /\ table = [conns |-> [i \in Index |-> NewConnection], pool |-> FirstPool, open |-> {},
                  session |-> [i \in Index |-> FALSE]]
      /\ at = [phase |-> "idle", i |-> 0] /\ refused = FALSE
  BY DEF Init
<1>2. /\ NewConnection \in Connection /\ NewConnection.id = -1 /\ NewConnection.acc = -1
      /\ NewConnection.status = "default"
  BY TimeoutAssumption DEF NewConnection, Connection
<1>3. IsPool(FirstPool) /\ FirstPool \in Chains
  BY FirstPoolList, PoolIsChain DEF IsPool
<1> HIDE DEF Init
<1>4. /\ table.conns = [i \in Index |-> NewConnection] /\ table.pool = FirstPool
      /\ table.open = {} /\ table.session = [i \in Index |-> FALSE]
  BY <1>1
<1>5. /\ table.conns \in [Index -> Connection]
      /\ table.session \in [Index -> BOOLEAN]
      /\ \A i \in Index : table.conns[i] = NewConnection /\ ~table.session[i]
  BY <1>2, <1>4
<1>6. table \in Tables
  BY <1>1, <1>3, <1>4, <1>5 DEF Tables
<1>7. Sound(table)
  BY <1>2, <1>3, <1>4, <1>5, <1>6 DEF Sound, Tables
<1>8. \A i \in Index : Settled(table, i)
  BY <1>2, <1>5 DEF Settled
<1>9. Typed
  BY <1>1, <1>6, Numbers DEF Typed, Tables
<1> QED BY <1>1, <1>7, <1>8, <1>9 DEF IInv

\* Time, and sends between updates, keep every slot.
LEMMA TickBroadcast ==
    ASSUME IInv, Tick \/ \E F \in SUBSET Reachable(table) : Broadcast(F)
    PROVE  IInv' /\ Keeps(table, table')
<1>1. /\ at' = at /\ refused' = refused /\ at.phase \in {"idle", "accept"}
      /\ Typed /\ Sound(table) /\ table \in Tables /\ \A j \in Index : Settled(table, j)
      /\ refused => FreeSlots(table) = {}
  BY SoundTable DEF Tick, Broadcast, IInv
<1>2. Sound(table') /\ Keeps(table, table') /\ \A j \in Index : Settled(table', j)
  <2>1. CASE Tick
    <3> DEFINE A == 0 .. MaxAge
               older(a) == IF a < MaxAge THEN a + 1 ELSE a
               e(j) == [table.conns[j] EXCEPT !.age = older(table.conns[j].age)]
               k == [i \in Index |-> e(i)]
    <3>1. table.conns \in [Index -> Connection] /\ table.session \in [Index -> BOOLEAN]
      BY <1>1, TableFields
    <3>2. \A a \in A : older(a) \in A
      BY TimeoutAssumption
    <3>3. table' = [table EXCEPT !.conns = k]
      BY <2>1, Zenon DEF Tick
    <3>4. Connection = [id : Fds \cup {-1}, acc : Fds \cup {-1}, status : {"default", "other"},
                        counter : {0, 1}, age : A]
      BY DEF Connection
    <3> HIDE DEF A, older
    <3>5. \A j \in Index : /\ e(j) \in Connection /\ e(j).id = table.conns[j].id
                           /\ e(j).acc = table.conns[j].acc /\ e(j).status = table.conns[j].status
      BY <3>1, <3>2, <3>4
    <3> HIDE DEF e
    <3>6. k \in [Index -> Connection] /\ \A j \in Index : k[j] = e(j)
      BY <3>5
    <3> HIDE DEF k
    <3>7. table' = [conns |-> k, pool |-> table.pool, open |-> table.open, session |-> table.session]
      BY <1>1, <3>3 DEF Tables
    <3>8. \A j \in Index : k[j].id = table.conns[j].id
      BY <3>5, <3>6
    <3>9. /\ Sound(table') /\ Keeps(table, table') /\ table'.conns = k
          /\ table'.session = table.session
      BY <1>1, <3>1, <3>6, <3>7, <3>8, EditIs
    <3> QED BY <1>1, <3>5, <3>6, <3>9 DEF Settled, Free
  <2>2. CASE \E F \in SUBSET Reachable(table) : Broadcast(F)
    <3>1. PICK F \in SUBSET Index : table' = SendsFail(table, F)
      BY <2>2 DEF Broadcast, Reachable
    <3> QED BY <1>1, <3>1, SendsFailIs
  <2> QED BY <2>1, <2>2
<1>3. Typed'
  BY <1>1, <1>2, SoundTable DEF Typed, Tables
<1>4. FreeSlots(table') = FreeSlots(table)
  BY <1>2 DEF Keeps, FreeSlots
<1> QED BY <1>1, <1>2, <1>3, <1>4 DEF IInv

\* The descriptor a client gets was not open.
LEMMA LowestFdIs ==
    ASSUME NEW t, t.open \in SUBSET Fds, Fds \ t.open # {}
    PROVE  LowestFd(t) \in Fds \ t.open
<1>1. Fds \ t.open \in SUBSET Nat
  BY DEF Fds
<1> QED BY <1>1, MinIn DEF LowestFd

\* A turn of the accept loop.
LEMMA AcceptStep ==
    ASSUME IInv, NEW unnamed \in BOOLEAN, NEW unnamedAgain \in BOOLEAN,
           AcceptClient(unnamed, unnamedAgain)
    PROVE  IInv'
<1> DEFINE fd == LowestFd(table)
           x == Accept(table, fd, unnamed, unnamedAgain)
           w == Unpool(table)
<1>1. /\ Sound(table) /\ table \in Tables /\ Typed
      /\ \A j \in Index : Settled(table, j)
  BY SoundTable DEF IInv
<1>2. /\ Fds \ table.open # {} /\ table' = x.table
      /\ refused' = (x.got = -1 /\ x.table.open = table.open)
      /\ at' = IF x.got # -1 /\ at.i + 1 \in Index THEN [at EXCEPT !.i = @ + 1]
               ELSE [phase |-> "recv", i |-> 0]
      /\ at.phase = "accept"
  BY DEF AcceptClient
<1>3. fd \in Fds \ table.open
  BY <1>1, <1>2, TableFields, LowestFdIs
<1> HIDE DEF fd
<1>4. /\ Sound(w) /\ w \in Tables /\ w.conns = table.conns /\ w.open = table.open
      /\ w.session = table.session
      /\ \A j \in Index : Settled(w, j)
  <2>1. /\ Sound(w) /\ w.conns = table.conns /\ w.open = table.open
        /\ w.session = table.session
    BY <1>1, UnpoolIs
  <2> HIDE DEF w
  <2> QED BY <1>1, <2>1, SoundTable DEF Settled, Free
<1>5. \/ /\ x.got \in Index /\ Free(table, x.got) /\ x.table \in Tables
         /\ Takes(w, x.table, x.got, fd)
      \/ /\ x.got = -1 /\ FreeSlots(table) = {} /\ x.table = w
      \/ /\ x.got = -1 /\ x.table \in Tables
         /\ x.table.conns = table.conns /\ x.table.session = table.session
         /\ x.table.pool = w.pool /\ x.table.open = table.open \cup {fd}
  <2> HIDE DEF x, w
  <2> QED BY <1>1, <1>3, AcceptIs DEF x, w
<1> HIDE DEF x, w
<1>6. at' \in [phase : {"idle", "accept", "recv", "event"}, i : Index] /\ at'.phase # "event"
  <2>1. at \in [phase : {"idle", "accept", "recv", "event"}, i : Index]
    BY <1>1 DEF Typed
  <2> QED BY <1>2, <2>1, Numbers
<1>7. CASE /\ x.got \in Index /\ Free(table, x.got) /\ x.table \in Tables
           /\ Takes(w, x.table, x.got, fd)
  <2>1. Sound(table') /\ \A j \in Index : Settled(table', j)
    BY <1>2, <1>3, <1>4, <1>7, TakesSound
  <2>2. refused' = FALSE
    BY <1>2, <1>7, Numbers
  <2> QED BY <1>6, <2>1, <2>2, SoundTable DEF IInv, Typed, Tables
<1>8. CASE x.got = -1 /\ FreeSlots(table) = {} /\ x.table = w
  <2>1. FreeSlots(table') = {}
    BY <1>2, <1>4, <1>8 DEF FreeSlots
  <2>2. refused' \in BOOLEAN
    BY <1>2
  <2> QED BY <1>2, <1>4, <1>6, <1>8, <2>1, <2>2, SoundTable DEF IInv, Typed, Tables
<1>9. CASE /\ x.got = -1 /\ x.table \in Tables
           /\ x.table.conns = table.conns /\ x.table.session = table.session
           /\ x.table.pool = w.pool /\ x.table.open = table.open \cup {fd}
  <2>1. refused' = FALSE
    BY <1>2, <1>3, <1>9
  <2>2. Sound(table')
    BY <1>2, <1>4, <1>9 DEF Sound, Tables
  <2>3. \A j \in Index : Settled(table', j)
    BY <1>1, <1>2, <1>9 DEF Settled, Free
  <2> QED BY <1>6, <2>1, <2>2, <2>3, SoundTable DEF IInv, Typed, Tables
<1> QED BY <1>5, <1>7, <1>8, <1>9

\* Every step keeps the inductive invariant, and apart from the accept of a client keeps every
\* slot or gives one up, twice when its client is gone and its time is up.
LEMMA NextStep ==
    ASSUME IInv, [Next]_vars
    PROVE  /\ IInv'
           /\ \/ Keeps(table, table')
              \/ \E i \in Index : ~Free(table, i) /\ Gives(table, table', i)
              \/ \E i \in Index : /\ Gone(i) /\ TimedOut(table.conns[i])
                                  /\ \E s : Sound(s) /\ Gives(table, s, i) /\ Gives(s, table', i)
              \/ \E unnamed, unnamedAgain \in BOOLEAN : AcceptClient(unnamed, unnamedAgain)
<1>1. CASE Tick \/ \E F \in SUBSET Reachable(table) : Broadcast(F)
  BY <1>1, TickBroadcast
<1>2. CASE Update \/ NoClient
  <2>1. table' = table /\ refused' = refused /\ at' \in [phase : {"accept", "recv"}, i : {0}]
    BY <1>2 DEF Update, NoClient
  <2>2. IInv'
    BY <2>1, Numbers DEF IInv, Typed
  <2> QED BY <2>1, <2>2 DEF Keeps
<1>3. CASE \E unnamed, unnamedAgain \in BOOLEAN : AcceptClient(unnamed, unnamedAgain)
  BY <1>3, AcceptStep
<1>4. ASSUME NEW i \in Index, Visit(i)
      PROVE  /\ IInv'
             /\ \/ Keeps(table, table')
                \/ ~Free(table, i) /\ Gives(table, table', i)
                \/ /\ Gone(i) /\ TimedOut(table.conns[i])
                   /\ \E s : Sound(s) /\ Gives(table, s, i) /\ Gives(s, table', i)
  BY <1>4, ShortVisit, DataVisit, MessageVisit DEF Visit
<1>5. CASE UNCHANGED vars
  <2>1. table' = table /\ refused' = refused /\ at' = at
    BY <1>5 DEF vars
  <2>2. IInv'
    BY <2>1 DEF IInv, Typed
  <2> QED BY <2>1, <2>2 DEF Keeps
<1> QED BY <1>1, <1>2, <1>3, <1>4, <1>5 DEF Next, ServerUpdate

\* The inductive invariant holds in every state.
THEOREM Invariance == Spec => []IInv
<1>1. IInv /\ [Next]_vars => IInv'
  BY NextStep
<1> QED BY <1>1, InitIInv, PTL DEF Spec

-----------------------------------------------------------------------------
\* Two slots never share a socket, the socket of a slot is open, and what the callbacks send
\* goes to the socket of the slot or nowhere: never to a descriptor that was closed and may
\* since belong to another client.
THEOREM SlotOwnsSocketAlways == Spec => []SlotOwnsSocket
<1>1. Init => silent \subseteq Index
  BY DEF Init
<1>2. silent \subseteq Index /\ [Next]_vars => (silent \subseteq Index)'
  BY DEF Next, vars, Tick, Broadcast, ServerUpdate, Update, NoClient, AcceptClient, FreeSlots,
         Visit, Skip, NoData, Gone, Data, BadMessage, PartMessage, Message
<1>3. IInv /\ silent \subseteq Index => SlotOwnsSocket
  BY DEF IInv, Typed, TypeOK, SlotOwnsSocket, Sound, Settled
<1> QED BY <1>1, <1>2, <1>3, Invariance, PTL DEF Spec

\* A client is refused only when every slot is taken, whatever has become of the pool.
THEOREM RefusedOnlyWhenFullAlways == Spec => []RefusedOnlyWhenFull
<1>1. IInv => RefusedOnlyWhenFull
  BY DEF IInv, RefusedOnlyWhenFull
<1> QED BY <1>1, Invariance, PTL

\* The application has been told of the close of a slot before the slot is used again.
THEOREM ClosedBeforeReuseAlways == Spec => []ClosedBeforeReuse
<1>1. IInv => ClosedBeforeReuse
  BY DEF IInv, ClosedBeforeReuse, Settled
<1> QED BY <1>1, Invariance, PTL

\* What a descriptor lost is, of any table.
LostOf(t) == t.open \ {t.conns[i].id : i \in Index}

\* Nothing is lost when the slots are kept, or one gives up its socket.
LEMMA NoneLost ==
    ASSUME NEW t, NEW r, NEW i \in Index, Keeps(t, r) \/ Gives(t, r, i)
    PROVE  LostOf(r) \subseteq LostOf(t)
BY DEF LostOf, Keeps, Gives

\* Nor when the name of the client is had the second time.
LEMMA NamedNotLost ==
    ASSUME IInv, NEW unnamed \in BOOLEAN, AcceptClient(unnamed, FALSE)
    PROVE  LostOf(table') \subseteq LostOf(table)
<1> DEFINE fd == LowestFd(table)
           x == Accept(table, fd, unnamed, FALSE)
           w == Unpool(table)
<1>1. /\ Sound(table) /\ table \in Tables /\ table' = x.table
      /\ Fds \ table.open # {}
  BY SoundTable DEF IInv, AcceptClient
<1>2. fd \in Fds \ table.open
  BY <1>1, TableFields, LowestFdIs
<1>3. w.conns = table.conns /\ w.open = table.open
  BY <1>1, UnpoolIs
<1> HIDE DEF fd
<1>4. \/ /\ x.got \in Index /\ Free(table, x.got)
         /\ Takes(w, x.table, x.got, fd)
      \/ FreeSlots(table) = {} /\ x.table = w
  <2> HIDE DEF x, w
  <2> QED BY <1>1, <1>2, AcceptIs DEF x, w
<1> HIDE DEF x, w
<1>5. CASE x.got \in Index /\ Free(table, x.got) /\ Takes(w, x.table, x.got, fd)
  <2>1. /\ table'.open = table.open \cup {fd} /\ table'.conns[x.got].id = fd
        /\ \A j \in Index \ {x.got} : table'.conns[j].id = table.conns[j].id
        /\ table.conns[x.got].id = -1
    BY <1>1, <1>3, <1>5 DEF Takes, Free
  <2>2. -1 \notin table.open
    BY <1>1, TableFields, Numbers
  <2> QED BY <1>5, <2>1, <2>2 DEF LostOf
<1>6. CASE FreeSlots(table) = {} /\ x.table = w
  BY <1>1, <1>3, <1>6 DEF LostOf
<1> QED BY <1>4, <1>5, <1>6

\* A descriptor is lost in one way only: the name of a client cannot be had in the second
\* half of qs_accept.
THEOREM NoLeakAlways == Spec => NoLeak
<1>1. IInv /\ [Next]_vars =>
        [Leaked' \subseteq Leaked \/ \E unnamed \in BOOLEAN : AcceptClient(unnamed, TRUE)]_table
  <2> SUFFICES ASSUME IInv, [Next]_vars
               PROVE  LostOf(table') \subseteq LostOf(table)
                      \/ \E unnamed \in BOOLEAN : AcceptClient(unnamed, TRUE)
    BY DEF Leaked, LostOf
  <2>0. 0 \in Index
    BY Numbers
  <2>1. \/ Keeps(table, table')
        \/ \E i \in Index : Gives(table, table', i)
        \/ \E i \in Index : \E s : Gives(table, s, i) /\ Gives(s, table', i)
        \/ \E unnamed, unnamedAgain \in BOOLEAN : AcceptClient(unnamed, unnamedAgain)
    BY NextStep
  <2>2. CASE Keeps(table, table') \/ \E i \in Index : Gives(table, table', i)
    BY <2>0, <2>2, NoneLost
  <2>3. CASE \E i \in Index : \E s : Gives(table, s, i) /\ Gives(s, table', i)
    <3>1. PICK i \in Index : \E s : Gives(table, s, i) /\ Gives(s, table', i)
      BY <2>3
    <3>2. PICK s : Gives(table, s, i) /\ Gives(s, table', i)
      BY <3>1
    <3>3. LostOf(s) \subseteq LostOf(table)
      BY <3>2, NoneLost
    <3>4. LostOf(table') \subseteq LostOf(s)
      BY <3>2, NoneLost
    <3> QED BY <3>3, <3>4
  <2>4. CASE \E unnamed, unnamedAgain \in BOOLEAN : AcceptClient(unnamed, unnamedAgain)
    BY <2>4, NamedNotLost
  <2> QED BY <2>1, <2>2, <2>3, <2>4
<1> QED BY <1>1, Invariance, PTL DEF Spec, NoLeak

-----------------------------------------------------------------------------
\* The blocks of a pool that are in use, as a walk finds them.
EntriesOf(c) ==
    LET entry[k \in Blocks] ==
            IF k = 0 THEN NextBlock(c, None)
            ELSE IF entry[k - 1] = None THEN None ELSE NextBlock(c, entry[k - 1])
    IN  {entry[k] : k \in Blocks} \ {None}

\* Exact, of any table.
ExactOf(t) ==
    /\ {t.pool.data[b] : b \in EntriesOf(t.pool)} = FreeSlots(t)
    /\ Cardinality(EntriesOf(t.pool)) = Cardinality(FreeSlots(t))

-----------------------------------------------------------------------------
\* The walk finds the blocks in use.
LEMMA EntriesAre ==
    ASSUME NEW c, NEW o, NEW u, C!ListOf(c, o, u)
    PROVE  EntriesOf(c) = {o[k] : k \in 0 .. u - 1}
<1> DEFINE F(f) == [k \in Blocks |->
                      IF k = 0 THEN NextBlock(c, None)
                      ELSE IF f[k - 1] = None THEN None ELSE NextBlock(c, f[k - 1])]
           w == [k \in Blocks |-> IF k < u THEN o[k] ELSE None]
           f == CHOOSE x : x = F(x)
<1>0. /\ u \in Nat /\ u <= MaxConnection /\ o \in [Blocks -> Blocks]
      /\ NextBlock(c, None) = IF u = 0 THEN None ELSE o[0]
      /\ \A k \in 0 .. u - 1 : NextBlock(c, o[k]) = IF k + 1 = u THEN None ELSE o[k + 1]
  <2>1. u \in 0 .. MaxConnection /\ o \in [Blocks -> Blocks]
    BY SameChain DEF C!ListOf, C!Links, Blocks
  <2>2. /\ NextBlock(c, None) = IF u = 0 THEN None ELSE o[0]
        /\ \A k \in 0 .. u - 1 : NextBlock(c, o[k]) = IF k + 1 = u THEN None ELSE o[k + 1]
    BY C!NextBlockIs, TableAssumption, SameChain
  <2> QED BY <2>1, <2>2, Numbers
<1>1. w = F(w)
  <2>1. ASSUME NEW k \in Blocks
        PROVE  w[k] = IF k = 0 THEN NextBlock(c, None)
                      ELSE IF w[k - 1] = None THEN None ELSE NextBlock(c, w[k - 1])
    <3>1. CASE k = 0
      BY <1>0, <3>1
    <3>2. CASE k # 0 /\ k - 1 < u
      <4>1. k - 1 \in Blocks /\ k - 1 \in 0 .. u - 1 /\ (k - 1) + 1 = k
        BY <1>0, <3>2, Numbers DEF Blocks
      <4>2. w[k - 1] = o[k - 1] /\ o[k - 1] # None
        BY <1>0, <3>2, <4>1, Numbers
      <4>3. NextBlock(c, o[k - 1]) = IF (k - 1) + 1 = u THEN None ELSE o[(k - 1) + 1]
        BY <1>0, <4>1
      <4>4. w[k] = IF k = u THEN None ELSE o[k]
        BY <1>0, <3>2, Numbers DEF Blocks
      <4> HIDE DEF w
      <4> QED BY <3>2, <4>1, <4>2, <4>3, <4>4
    <3>3. CASE k # 0 /\ ~(k - 1 < u)
      BY <1>0, <3>3, Numbers DEF Blocks
    <3> QED BY <3>1, <3>2, <3>3
  <2> HIDE DEF w
  <2>2. w \in [Blocks -> {w[k] : k \in Blocks}]
    BY DEF w
  <2> QED BY <2>1, <2>2
<1>2. EntriesOf(c) = {f[k] : k \in Blocks} \ {None}
  BY Zenon DEF EntriesOf
<1>3. f = F(f)
  <2> HIDE DEF F
  <2> QED BY <1>1, Zenon
<1> HIDE DEF f
<1>4. f[0] = NextBlock(c, None)
  BY <1>3, Numbers
<1>5. ASSUME NEW k \in 0 .. MaxConnection - 1
      PROVE  f[k + 1] = IF f[k] = None THEN None ELSE NextBlock(c, f[k])
  <2>1. k + 1 \in Blocks /\ k + 1 # 0 /\ (k + 1) - 1 = k
    BY Numbers DEF Blocks
  <2>2. f[k + 1] = F(f)[k + 1]
    BY <1>3
  <2> QED BY <2>1, <2>2
<1>6. /\ w[0] = NextBlock(c, None)
      /\ \A k \in 0 .. MaxConnection - 1 :
            w[k + 1] = IF w[k] = None THEN None ELSE NextBlock(c, w[k])
  <2>1. w[0] = NextBlock(c, None)
    BY <1>0, Numbers
  <2>2. ASSUME NEW k \in 0 .. MaxConnection - 1
        PROVE  w[k + 1] = IF w[k] = None THEN None ELSE NextBlock(c, w[k])
    <3>1. k + 1 \in Blocks /\ k + 1 # 0 /\ (k + 1) - 1 = k
      BY Numbers DEF Blocks
    <3>2. w[k + 1] = F(w)[k + 1]
      <4> HIDE DEF w, F
      <4> QED BY <1>1
    <3> HIDE DEF w
    <3> QED BY <3>1, <3>2
  <2> QED BY <2>1, <2>2
<1> HIDE DEF w
<1> DEFINE S == {k \in 0 .. MaxConnection : f[k] = w[k]}
<1>7. 0 \in S
  BY <1>4, <1>6, Numbers
<1>8. ASSUME NEW k \in 0 .. MaxConnection - 1, k \in S
      PROVE  k + 1 \in S
  <2>1. f[k] = w[k] /\ k + 1 \in 0 .. MaxConnection
    BY <1>8, Numbers
  <2> QED BY <1>5, <1>6, <2>1
<1> HIDE DEF S
<1>9. \A k \in 0 .. MaxConnection : k \in S
  BY <1>7, <1>8, C!UpTo, TableAssumption
<1>10. \A k \in Blocks : f[k] = IF k < u THEN o[k] ELSE None
  BY <1>9 DEF S, Blocks, w
<1>11. \A k \in 0 .. u - 1 : k \in Blocks /\ k < u /\ o[k] # None
  BY <1>0, Numbers DEF Blocks
<1>12. \A k \in Blocks : k < u => k \in 0 .. u - 1
  BY <1>0, Numbers DEF Blocks
<1> QED BY <1>2, <1>10, <1>11, <1>12

\* They are blocks, finitely many; the first one is the one qs_accept takes.
LEMMA EntriesFinite ==
    ASSUME NEW c, IsPool(c)
    PROVE  /\ EntriesOf(c) \subseteq Blocks /\ IsFiniteSet(EntriesOf(c))
           /\ IF EntriesOf(c) = {} THEN NextBlock(c, None) = None
              ELSE NextBlock(c, None) \in EntriesOf(c) /\ NextBlock(c, None) # None
<1>1. PICK o, u : C!ListOf(c, o, u)
  BY DEF IsPool
<1>2. EntriesOf(c) = {o[k] : k \in 0 .. u - 1}
  BY <1>1, EntriesAre
<1>3. NextBlock(c, None) = IF u = 0 THEN None ELSE o[0]
  BY <1>1, C!NextBlockIs, TableAssumption, SameChain
<1>4. u \in Nat /\ u <= MaxConnection /\ o \in [Blocks -> Blocks]
  <2>1. u \in 0 .. MaxConnection /\ o \in [Blocks -> Blocks]
    BY <1>1, SameChain DEF C!ListOf, C!Links, Blocks
  <2> QED BY <2>1, Numbers
<1>5. \A k \in 0 .. u - 1 : k \in Blocks
  BY <1>4, Numbers DEF Blocks
<1>6. EntriesOf(c) \subseteq Blocks
  BY <1>2, <1>4, <1>5
<1>7. IsFiniteSet(EntriesOf(c))
  <2>1. 0 \in Int /\ MaxConnection \in Int
    BY Numbers
  <2>2. IsFiniteSet(Blocks)
    BY <2>1, FS_Interval, Zenon DEF Blocks
  <2> QED BY <1>6, <2>2, FS_Subset
<1>8. CASE u = 0
  BY <1>2, <1>3, <1>6, <1>7, <1>8
<1>9. CASE u # 0
  <2>1. 0 \in 0 .. u - 1
    BY <1>4, <1>9
  <2>2. o[0] \in EntriesOf(c)
    BY <1>2, <2>1
  <2> QED BY <1>3, <1>6, <1>7, <1>9, <2>2, Numbers
<1> QED BY <1>8, <1>9

\* An index is added in a block that was not in use, or every block is.
LEMMA EntriesAdd ==
    ASSUME NEW c, IsPool(c), NEW i \in Index
    PROVE  \/ Cardinality(EntriesOf(c)) = MaxConnection
           \/ \E b \in Blocks \ EntriesOf(c) :
                /\ EntriesOf(AddChain(c, i)) = EntriesOf(c) \cup {b}
                /\ AddChain(c, i).data[b] = i
                /\ \A e \in EntriesOf(c) : AddChain(c, i).data[e] = c.data[e]
<1>1. PICK o, u : C!ListOf(c, o, u)
  BY DEF IsPool
<1>2. EntriesOf(c) = {o[k] : k \in 0 .. u - 1}
  BY <1>1, EntriesAre
<1>3. /\ u \in Nat /\ u <= MaxConnection /\ o \in [Blocks -> Blocks]
      /\ \A k, m \in Blocks : o[k] = o[m] => k = m
      /\ c.data \in [Blocks -> Index \cup {-1}]
  <2>1. /\ u \in 0 .. MaxConnection /\ o \in [Blocks -> Blocks]
        /\ \A k, m \in Blocks : o[k] = o[m] => k = m
        /\ c \in Chains
    BY <1>1, SameChain DEF C!ListOf, C!Links, Blocks
  <2> QED BY <2>1, Numbers DEF Chains
<1>4. u \in Blocks /\ \A k \in 0 .. u - 1 : k \in Blocks /\ k # u
  BY <1>3, Numbers DEF Blocks
<1>5. CASE u = MaxConnection
  <2> DEFINE D == 0 .. u - 1
             E == EntriesOf(c)
             g == [k \in D |-> o[k]]
  <2>1. IsFiniteSet(D) /\ Cardinality(D) = u
    <3>1. 0 \in Int /\ u - 1 \in Int /\ ~(0 > u - 1) /\ (u - 1) - 0 + 1 = u
      BY <1>3, <1>5, Numbers
    <3>2. IsFiniteSet(D) /\ Cardinality(D) = IF 0 > u - 1 THEN 0 ELSE (u - 1) - 0 + 1
      BY <3>1, FS_Interval, Zenon
    <3> QED BY <3>1, <3>2
  <2>2. \A k, m \in D : o[k] = o[m] => k = m
    BY <1>3, <1>4
  <2> HIDE DEF D
  <2>3. g \in [D -> E] /\ g \in Injection(D, E)
    BY <1>2, <2>2 DEF Injection, IsInjective, D
  <2>4. g \in Surjection(D, E)
    BY <1>2, <2>3 DEF Surjection, D
  <2>5. ExistsBijection(D, E)
    BY <2>3, <2>4 DEF ExistsBijection, Bijection
  <2>6. Cardinality(E) = u
    BY <2>1, <2>5, FS_Bijection
  <2> QED BY <1>5, <2>6
<1>6. CASE u # MaxConnection
  <2> DEFINE a == AddChain(c, i)
             b == o[u]
  <2>1. C!ListOf(a, o, u + 1) /\ a.data = [c.data EXCEPT ![b] = i]
    BY <1>1, <1>6, C!AddChainList, SameChain, TableAssumption
  <2>2. EntriesOf(a) = {o[k] : k \in 0 .. (u + 1) - 1}
    BY <2>1, EntriesAre
  <2> HIDE DEF a
  <2>3. b \in Blocks /\ b \notin EntriesOf(c)
    BY <1>2, <1>3, <1>4
  <2>4. 0 .. (u + 1) - 1 = (0 .. u - 1) \cup {u}
    BY <1>3
  <2>5. EntriesOf(a) = EntriesOf(c) \cup {b}
    BY <1>2, <2>2, <2>4
  <2>6. \A e \in EntriesOf(c) : e \in Blocks /\ e # b
    BY <1>2, <1>3, <1>4, <2>3
  <2>7. a.data[b] = i /\ \A e \in EntriesOf(c) : a.data[e] = c.data[e]
    BY <1>3, <2>1, <2>3, <2>6
  <2> QED BY <2>3, <2>5, <2>7 DEF a
<1> QED BY <1>5, <1>6

\* The first entry is removed: the others stay.
LEMMA EntriesRemove ==
    ASSUME NEW c, IsPool(c), NextBlock(c, None) # None
    PROVE  LET b == NextBlock(c, None)
               r == RemoveChain(c, b)
           IN  EntriesOf(r) = EntriesOf(c) \ {b} /\ r.data = c.data
<1>1. PICK o, u : C!ListOf(c, o, u)
  BY DEF IsPool
<1>2. EntriesOf(c) = {o[k] : k \in 0 .. u - 1}
  BY <1>1, EntriesAre
<1>3. /\ u \in Nat /\ u <= MaxConnection /\ o \in [Blocks -> Blocks]
      /\ \A k, m \in Blocks : o[k] = o[m] => k = m
  <2>1. /\ u \in 0 .. MaxConnection /\ o \in [Blocks -> Blocks]
        /\ \A k, m \in Blocks : o[k] = o[m] => k = m
    BY <1>1, SameChain DEF C!ListOf, C!Links, Blocks
  <2> QED BY <2>1, Numbers
<1>4. NextBlock(c, None) = o[0] /\ u # 0
  BY <1>1, C!NextBlockIs, TableAssumption, SameChain
<1> DEFINE r == RemoveChain(c, o[0])
<1>5. 0 \in 0 .. u - 1
  BY <1>3, <1>4
<1>6. PICK q : /\ r.data = c.data /\ C!ListOf(r, q, u - 1)
               /\ \A k \in 0 .. u - 2 : q[k] = IF k < 0 THEN o[k] ELSE o[k + 1]
  BY <1>1, <1>5, C!RemoveChainList, SameChain, TableAssumption
<1>7. EntriesOf(r) = {q[k] : k \in 0 .. (u - 1) - 1}
  BY <1>6, EntriesAre
<1> HIDE DEF r
<1>8. \A k \in 0 .. (u - 1) - 1 : q[k] = o[k + 1] /\ k + 1 \in 0 .. u - 1 /\ k + 1 # 0
  BY <1>3, <1>4, <1>6
<1>9. \A m \in 0 .. u - 1 : m # 0 => m - 1 \in 0 .. (u - 1) - 1 /\ (m - 1) + 1 = m
  BY <1>3
<1>10. \A m \in 0 .. u - 1 : m \in Blocks /\ (m # 0 => o[m] # o[0])
  <2>1. \A m \in 0 .. u - 1 : m \in Blocks
    BY <1>3, Numbers DEF Blocks
  <2> QED BY <1>3, <2>1, Numbers
<1>11. EntriesOf(r) \subseteq EntriesOf(c) \ {o[0]}
  BY <1>2, <1>7, <1>8, <1>10
<1>12. ASSUME NEW e \in EntriesOf(c), e # o[0]
       PROVE  e \in EntriesOf(r)
  <2>1. PICK m \in 0 .. u - 1 : e = o[m]
    BY <1>2
  <2>2. m # 0
    BY <1>12, <2>1
  <2>3. e = q[m - 1] /\ m - 1 \in 0 .. (u - 1) - 1
    BY <1>8, <1>9, <2>1, <2>2
  <2> QED BY <1>7, <2>3
<1> QED BY <1>4, <1>6, <1>11, <1>12 DEF r

-----------------------------------------------------------------------------
\* The facts about an exact pool that the steps need.
LEMMA ExactFacts ==
    ASSUME NEW t, Sound(t), ExactOf(t)
    PROVE  /\ IsFiniteSet(FreeSlots(t)) /\ IsFiniteSet(EntriesOf(t.pool))
           /\ Cardinality(FreeSlots(t)) \in Nat
           /\ \A i \in Index : ~Free(t, i) => Cardinality(FreeSlots(t)) # MaxConnection
           /\ \A b, e \in EntriesOf(t.pool) : t.pool.data[b] = t.pool.data[e] => b = e
           /\ FreeSlots(t) = {} => NextBlock(t.pool, None) = None
           /\ FreeSlots(t) # {} => /\ NextBlock(t.pool, None) # None
                                   /\ NextBlock(t.pool, None) \in EntriesOf(t.pool)
                                   /\ Free(t, t.pool.data[NextBlock(t.pool, None)])
<1> DEFINE E == EntriesOf(t.pool)
           S == FreeSlots(t)
           g == [e \in E |-> t.pool.data[e]]
<1>1. /\ IsPool(t.pool) /\ {t.pool.data[b] : b \in E} = S /\ Cardinality(E) = Cardinality(S)
      /\ IsFiniteSet(E)
      /\ IF E = {} THEN NextBlock(t.pool, None) = None
         ELSE NextBlock(t.pool, None) \in E /\ NextBlock(t.pool, None) # None
  BY EntriesFinite DEF Sound, ExactOf
<1>2. IsFiniteSet(Index) /\ Cardinality(Index) = MaxConnection
  <2>1. /\ 0 \in Int /\ MaxConnection - 1 \in Int /\ ~(0 > MaxConnection - 1)
        /\ (MaxConnection - 1) - 0 + 1 = MaxConnection
    BY Numbers
  <2>2. /\ IsFiniteSet(Index)
        /\ Cardinality(Index) = IF 0 > MaxConnection - 1 THEN 0 ELSE (MaxConnection - 1) - 0 + 1
    BY <2>1, FS_Interval, Zenon DEF Index
  <2> QED BY <2>1, <2>2
<1>3. S \in SUBSET Index
  BY DEF FreeSlots
<1>4. IsFiniteSet(S) /\ (Cardinality(S) = MaxConnection => S = Index)
  BY <1>2, <1>3, FS_Subset
<1>5. Cardinality(S) \in Nat
  BY <1>4, FS_CardinalityType
<1>6. \A i \in Index : ~Free(t, i) => i \notin S
  BY DEF Free, FreeSlots
<1>7. \A i \in S : Free(t, i)
  BY DEF Free, FreeSlots
<1> HIDE DEF E, S
<1>8. \A b, e \in E : t.pool.data[b] = t.pool.data[e] => b = e
  <2>1. g \in Surjection(E, S)
    BY <1>1 DEF Surjection
  <2> HIDE DEF g
  <2>2. g \in Injection(E, S)
    BY <1>1, <2>1, FS_SurjSameCardinalityImpliesInj
  <2> QED BY <2>2 DEF Injection, IsInjective, g
<1> QED BY <1>1, <1>4, <1>5, <1>6, <1>7, <1>8 DEF E, S

\* Slots and pool kept: exact still.
LEMMA ExactSame ==
    ASSUME NEW t, ExactOf(t), NEW r, r.pool = t.pool,
           \A j \in Index : r.conns[j].id = t.conns[j].id
    PROVE  ExactOf(r)
BY DEF ExactOf, FreeSlots

\* A slot that was in use is given up: exact still.
LEMMA ExactAdd ==
    ASSUME NEW t, Sound(t), ExactOf(t), NEW i \in Index, ~Free(t, i), NEW r, Gives(t, r, i)
    PROVE  ExactOf(r)
<1> DEFINE E == EntriesOf(t.pool)
           S == FreeSlots(t)
<1>1. /\ IsFiniteSet(S) /\ IsFiniteSet(E) /\ Cardinality(S) \in Nat
      /\ Cardinality(S) # MaxConnection
  BY ExactFacts
<1>2. {t.pool.data[b] : b \in E} = S /\ Cardinality(E) = Cardinality(S) /\ IsPool(t.pool)
  BY DEF ExactOf, Sound
<1>3. FreeSlots(r) = S \cup {i} /\ i \notin S
  BY DEF FreeSlots, Free, Gives
<1>4. PICK b \in Blocks \ E :
        /\ EntriesOf(r.pool) = E \cup {b} /\ r.pool.data[b] = i
        /\ \A e \in E : r.pool.data[e] = t.pool.data[e]
  BY <1>1, <1>2, EntriesAdd DEF Gives
<1> HIDE DEF E, S
<1>5. {r.pool.data[e] : e \in E \cup {b}} = S \cup {i}
  BY <1>2, <1>4
<1>6. Cardinality(E \cup {b}) = Cardinality(E) + 1 /\ Cardinality(S \cup {i}) = Cardinality(S) + 1
  BY <1>1, <1>3, <1>4, FS_AddElement
<1> QED BY <1>2, <1>3, <1>4, <1>5, <1>6 DEF ExactOf

\* The slot of the first entry is taken: exact still.
LEMMA ExactTake ==
    ASSUME NEW t, Sound(t), ExactOf(t), FreeSlots(t) # {},
           NEW i, i = t.pool.data[NextBlock(t.pool, None)],
           NEW r, NEW fd \in Fds, Takes(Unpool(t), r, i, fd)
    PROVE  ExactOf(r)
<1> DEFINE E == EntriesOf(t.pool)
           S == FreeSlots(t)
           b == NextBlock(t.pool, None)
<1>1. /\ IsFiniteSet(S) /\ IsFiniteSet(E) /\ b # None /\ b \in E /\ Free(t, i)
      /\ \A d, e \in E : t.pool.data[d] = t.pool.data[e] => d = e
  BY ExactFacts
<1>2. {t.pool.data[e] : e \in E} = S /\ Cardinality(E) = Cardinality(S) /\ IsPool(t.pool)
  BY DEF ExactOf, Sound
<1>3. i \in S /\ i \in Index
  BY <1>1, <1>2 DEF FreeSlots
<1>4. r.pool = RemoveChain(t.pool, b)
  <2>1. Unpool(t).pool = RemoveChain(t.pool, b)
    BY <1>1, UnpoolIs
  <2> HIDE DEF b
  <2> QED BY <2>1 DEF Takes
<1>5. EntriesOf(r.pool) = E \ {b} /\ r.pool.data = t.pool.data
  BY <1>1, <1>2, <1>4, EntriesRemove
<1>6. FreeSlots(r) = S \ {i}
  <2>1. Unpool(t).conns = t.conns
    BY UnpoolIs
  <2>2. r.conns[i].id = fd /\ \A j \in Index \ {i} : r.conns[j] = t.conns[j]
    BY <2>1 DEF Takes
  <2> QED BY <1>3, <2>2, Numbers DEF FreeSlots
<1>7. i = t.pool.data[b]
  OBVIOUS
<1> HIDE DEF E, S, b
<1>8. {t.pool.data[e] : e \in E \ {b}} = S \ {i}
  BY <1>1, <1>2, <1>7
<1>9. Cardinality(E \ {b}) = Cardinality(E) - 1 /\ Cardinality(S \ {i}) = Cardinality(S) - 1
  <2>1. Cardinality(E \ {b}) = Cardinality(E) - 1
    BY <1>1, FS_RemoveElement, Zenon
  <2>2. Cardinality(S \ {i}) = Cardinality(S) - 1
    <3>1. IsFiniteSet(S) /\ i \in S
      BY <1>1, <1>3
    <3>2. Cardinality(S \ {i}) = IF i \in S THEN Cardinality(S) - 1 ELSE Cardinality(S)
      BY <3>1, FS_RemoveElement
    <3> QED BY <3>1, <3>2
  <2> QED BY <2>1, <2>2
<1> QED BY <1>2, <1>5, <1>6, <1>8, <1>9 DEF ExactOf

\* A turn of the accept loop from an exact pool: the slot taken is the first one's and starts
\* afresh, or the name of the client could not be had; the pool stays exact.
LEMMA ExactAccept ==
    ASSUME IInv, ExactOf(table), NEW unnamed \in BOOLEAN, NEW unnamedAgain \in BOOLEAN,
           AcceptClient(unnamed, unnamedAgain)
    PROVE  /\ ~unnamed => ExactOf(table')
           /\ \/ \A i \in Index : Free(table, i) /\ table'.conns[i].id # -1 =>
                        table'.conns[i].counter = 0 /\ table'.conns[i].age = 0
              \/ unnamed /\ ~unnamedAgain
<1> DEFINE fd == LowestFd(table)
           x == Accept(table, fd, unnamed, unnamedAgain)
           w == Unpool(table)
           b == NextBlock(table.pool, None)
<1>1. /\ Sound(table) /\ table \in Tables /\ table' = x.table
      /\ Fds \ table.open # {}
  BY SoundTable DEF IInv, AcceptClient
<1>2. fd \in Fds \ table.open
  BY <1>1, TableFields, LowestFdIs
<1>3. w.conns = table.conns /\ w.pool = IF b = None THEN table.pool ELSE RemoveChain(table.pool, b)
  BY <1>1, UnpoolIs
<1>4. /\ FreeSlots(table) = {} => b = None
      /\ FreeSlots(table) # {} => b # None /\ Free(table, table.pool.data[b])
  BY <1>1, ExactFacts
<1> HIDE DEF fd
<1>5. \/ /\ x.got \in Index /\ Free(table, x.got)
         /\ Takes(w, x.table, x.got, fd)
         /\ \/ /\ b # None /\ x.got = table.pool.data[b] /\ ~unnamed
               /\ x.table.conns[x.got].counter = 0 /\ x.table.conns[x.got].age = 0
            \/ /\ ~unnamedAgain
               /\ ~(b # None /\ Free(table, table.pool.data[b]) /\ ~unnamed)
      \/ FreeSlots(table) = {} /\ x.table = w
      \/ /\ FreeSlots(table) # {} /\ x.table.conns = table.conns
         /\ ~(b # None /\ Free(table, table.pool.data[b]) /\ ~unnamed)
  <2> HIDE DEF x, w, b
  <2> QED BY <1>1, <1>2, AcceptIs DEF x, w, b
<1> HIDE DEF x
<1>6. CASE /\ x.got \in Index /\ Free(table, x.got)
           /\ Takes(w, x.table, x.got, fd)
           /\ \/ /\ b # None /\ x.got = table.pool.data[b] /\ ~unnamed
                 /\ x.table.conns[x.got].counter = 0 /\ x.table.conns[x.got].age = 0
              \/ /\ ~unnamedAgain
                 /\ ~(b # None /\ Free(table, table.pool.data[b]) /\ ~unnamed)
  <2>1. FreeSlots(table) # {}
    BY <1>6 DEF FreeSlots, Free
  <2>2. \A j \in Index \ {x.got} : table'.conns[j] = table.conns[j]
    BY <1>1, <1>3, <1>6 DEF Takes
  <2>3. CASE b # None /\ x.got = table.pool.data[b] /\ ~unnamed
    <3>1. x.table.conns[x.got].counter = 0 /\ x.table.conns[x.got].age = 0
      BY <1>4, <1>6, <2>1, <2>3
    <3>2. ExactOf(table')
      BY <1>1, <1>2, <1>6, <2>1, <2>3, ExactTake
    <3> QED BY <1>1, <2>2, <3>1, <3>2 DEF Free
  <2>4. CASE ~(b # None /\ x.got = table.pool.data[b] /\ ~unnamed)
    <3>1. unnamed /\ ~unnamedAgain
      BY <1>4, <1>6, <2>1, <2>4
    <3> QED BY <3>1
  <2> QED BY <2>3, <2>4
<1>7. CASE FreeSlots(table) = {} /\ x.table = w
  <2>1. table'.pool = table.pool /\ table'.conns = table.conns
    BY <1>1, <1>3, <1>4, <1>7
  <2> QED BY <2>1, ExactSame DEF Free
<1>8. CASE /\ FreeSlots(table) # {} /\ x.table.conns = table.conns
           /\ ~(b # None /\ Free(table, table.pool.data[b]) /\ ~unnamed)
  BY <1>1, <1>4, <1>8 DEF Free
<1> QED BY <1>5, <1>6, <1>7, <1>8

\* The pool is exact when the server starts: it holds every slot, each once.
LEMMA FirstExact == Init => Exact
<1> SUFFICES ASSUME Init
             PROVE  ExactOf(table)
  BY DEF Exact, ExactOf, PoolEntries, EntriesOf
<1>1. table.pool = FirstPool /\ \A i \in Index : table.conns[i].id = -1
  BY DEF Init, NewConnection
<1>2. FreeSlots(table) = Index
  BY <1>1 DEF FreeSlots
<1> DEFINE o == [k \in Blocks |-> k]
<1>3. EntriesOf(FirstPool) = {o[k] : k \in 0 .. MaxConnection - 1}
  BY FirstPoolList, EntriesAre
<1>4. \A k \in 0 .. MaxConnection - 1 : o[k] = k
  BY Numbers DEF Blocks
<1> HIDE DEF o
<1>5. EntriesOf(FirstPool) = Index
  BY <1>3, <1>4 DEF Index
<1>6. \A b \in Index : FirstPool.data[b] = b
  BY FirstPoolList
<1>7. {FirstPool.data[b] : b \in Index} = Index
  BY <1>6
<1> QED BY <1>1, <1>2, <1>5, <1>7 DEF ExactOf

\* Only two things end an exact pool: a client found gone in the pass in which its time is up,
\* whose slot is given up twice, and a client whose name cannot be had.
THEOREM PoolExactAlways == Spec => PoolExact
<1> DEFINE A == Exact' \/ (Exact => \/ \E i \in Index : TimedOut(table.conns[i]) /\ Gone(i)
                                   \/ \E unnamedAgain \in BOOLEAN : AcceptClient(TRUE, unnamedAgain))
<1>1. IInv /\ [Next]_vars => [A]_table
  <2>1. Exact <=> ExactOf(table)
    BY DEF Exact, ExactOf, PoolEntries, EntriesOf
  <2>2. Exact' <=> ExactOf(table')
    BY DEF Exact, ExactOf, PoolEntries, EntriesOf
  <2> SUFFICES ASSUME IInv, [Next]_vars, ExactOf(table),
                      ~\E i \in Index : TimedOut(table.conns[i]) /\ Gone(i),
                      ~\E unnamedAgain \in BOOLEAN : AcceptClient(TRUE, unnamedAgain)
               PROVE  ExactOf(table')
    BY <2>1, <2>2
  <2>3. \/ Keeps(table, table')
        \/ \E i \in Index : ~Free(table, i) /\ Gives(table, table', i)
        \/ \E unnamed, unnamedAgain \in BOOLEAN : AcceptClient(unnamed, unnamedAgain)
    BY NextStep
  <2>4. CASE Keeps(table, table')
    BY <2>4, ExactSame DEF Keeps
  <2>5. CASE \E i \in Index : ~Free(table, i) /\ Gives(table, table', i)
    BY <2>5, ExactAdd DEF IInv
  <2>6. CASE \E unnamed, unnamedAgain \in BOOLEAN : AcceptClient(unnamed, unnamedAgain)
    <3>1. PICK unnamed \in BOOLEAN, unnamedAgain \in BOOLEAN : AcceptClient(unnamed, unnamedAgain)
      BY <2>6
    <3>2. unnamed = FALSE
      BY <3>1
    <3> QED BY <3>1, <3>2, ExactAccept
  <2> QED BY <2>3, <2>4, <2>5, <2>6
<1> QED BY <1>1, Invariance, PTL DEF Spec, PoolExact

\* While the pool is exact a new connection starts with no message counted and its clock at
\* zero, whoever had the slot before, unless its name could only be had the second time.
THEOREM FreshConnectionAlways == Spec => FreshConnection
<1> DEFINE A == \/ \A i \in Index : Free(table, i) /\ ~Free(table, i)' =>
                          table'.conns[i].counter = 0 /\ table'.conns[i].age = 0
                \/ Exact => AcceptClient(TRUE, FALSE)
<1>1. IInv /\ [Next]_vars => [A]_table
  <2>1. Exact <=> ExactOf(table)
    BY DEF Exact, ExactOf, PoolEntries, EntriesOf
  <2> SUFFICES ASSUME IInv, [Next]_vars, ExactOf(table), ~AcceptClient(TRUE, FALSE),
                      NEW i \in Index, Free(table, i), table'.conns[i].id # -1
               PROVE  table'.conns[i].counter = 0 /\ table'.conns[i].age = 0
    BY <2>1 DEF Free
  <2>2. \/ Keeps(table, table')
        \/ \E j \in Index : Gives(table, table', j)
        \/ \E j \in Index : \E s : Gives(table, s, j) /\ Gives(s, table', j)
        \/ \E unnamed, unnamedAgain \in BOOLEAN : AcceptClient(unnamed, unnamedAgain)
    BY NextStep
  <2>3. \E unnamed, unnamedAgain \in BOOLEAN : AcceptClient(unnamed, unnamedAgain)
    BY <2>2 DEF Keeps, Gives, Free
  <2>4. PICK unnamed \in BOOLEAN, unnamedAgain \in BOOLEAN : AcceptClient(unnamed, unnamedAgain)
    BY <2>3
  <2>5. ~(unnamed /\ ~unnamedAgain)
    BY <2>4
  <2> QED BY <2>4, <2>5, ExactAccept
<1> QED BY <1>1, Invariance, PTL DEF Spec, FreshConnection
=============================================================================
