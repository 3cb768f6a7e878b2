------------------------------ MODULE ChainProofs ------------------------------
(***************************************************************************)
(* The list behind a chain array, and the array itself, for every capacity. *)
(* A chain is a list when an order of all its blocks exists that its links  *)
(* follow both ways; the first u blocks of that order are in use.  Each     *)
(* function of qs_chain_array.c is shown to lead from a list to a list: an  *)
(* add only moves the border between used and free, and a removal moves one *)
(* block behind the last, with all others in the order they had.  The chain *)
(* array therefore never loses a block, is a bounded list, and a walk over  *)
(* it that may remove the block it leaves passes every block that stays.    *)
(***************************************************************************)
EXTENDS ChainArray, SequenceTheorems, WellFoundedInduction, NaturalsInduction, TLAPS

\* o is the order of the blocks of c
Links(c, o) ==
    /\ o \in [Blocks -> Blocks]
    /\ \A j, k \in Blocks : o[j] = o[k] => j = k
    /\ \A b \in Blocks : \E k \in Blocks : o[k] = b
    /\ c.start = o[0] /\ c.end = o[Capacity]
    /\ c.prev[o[0]] = None /\ c.next[o[Capacity]] = None
    /\ \A k \in 0 .. Capacity - 1 : c.next[o[k]] = o[k + 1] /\ c.prev[o[k + 1]] = o[k]

\* ... the first u of them are in use, and hold values
ListOf(c, o, u) ==
    /\ c \in Chains /\ Links(c, o)
    /\ u \in Blocks /\ c.tail = o[u]
    /\ \A k \in 0 .. u - 1 : c.data[o[k]] \in Values

-----------------------------------------------------------------------------
\* The fields of a chain.
LEMMA ChainFields ==
    ASSUME NEW c \in Chains
    PROVE  /\ c.start \in Blocks /\ c.tail \in Blocks /\ c.end \in Blocks
           /\ c.prev \in [Blocks -> Blocks \cup {None}]
           /\ c.next \in [Blocks -> Blocks \cup {None}]
           /\ c.data \in [Blocks -> Values \cup {NoValue}]
BY DEF Chains

\* None is no block.
LEMMA NoneIsNone == None \notin Blocks /\ 0 \in Blocks /\ Capacity \in Blocks /\ Capacity \in Nat \ {0}
BY CapacityAssumption DEF None, Blocks

\* qs_create_chain_array makes the list of the blocks in their own order, none of them in use.
LEMMA NewChainList ==
    /\ ListOf(NewChain, [k \in Blocks |-> k], 0)
    /\ \A b \in Blocks : NewChain.data[b] = NoValue
<1> DEFINE o == [k \in Blocks |-> k]
           p == [b \in Blocks |-> b - 1]
           n == [b \in Blocks |-> IF b = Capacity THEN None ELSE b + 1]
           d == [b \in Blocks |-> NoValue]
<1>1. p \in [Blocks -> Blocks \cup {None}] /\ n \in [Blocks -> Blocks \cup {None}]
      /\ d \in [Blocks -> Values \cup {NoValue}]
  BY CapacityAssumption DEF Blocks, None
<1>2. NewChain = [start |-> 0, tail |-> 0, end |-> Capacity, prev |-> p, next |-> n, data |-> d]
  BY DEF NewChain
<1>3. NewChain \in Chains
  <2> HIDE DEF p, n, d
  <2> QED BY <1>1, <1>2, NoneIsNone DEF Chains
<1>4. Links(NewChain, o)
  <2>1. NewChain.prev = p /\ NewChain.next = n /\ NewChain.start = 0 /\ NewChain.end = Capacity
    BY <1>2
  <2>2. p[0] = None /\ n[Capacity] = None
    BY NoneIsNone DEF None
  <2>3. \A k \in 0 .. Capacity - 1 : n[k] = k + 1 /\ p[k + 1] = k /\ k \in Blocks /\ k + 1 \in Blocks
    BY CapacityAssumption DEF Blocks
  <2>4. o \in [Blocks -> Blocks] /\ \A k \in Blocks : o[k] = k
    OBVIOUS
  <2> HIDE DEF p, n, o
  <2> QED BY <2>1, <2>2, <2>3, <2>4, NoneIsNone DEF Links
<1>5. NewChain.tail = o[0] /\ NewChain.data = d
  BY <1>2, NoneIsNone
<1> QED BY <1>3, <1>4, <1>5, NoneIsNone DEF ListOf

\* qs_get_chain from the beginning, and from a block in use.
LEMMA NextBlockIs ==
    ASSUME NEW c, NEW o, NEW u, ListOf(c, o, u)
    PROVE  /\ NextBlock(c, None) = IF u = 0 THEN None ELSE o[0]
           /\ \A k \in 0 .. u - 1 : NextBlock(c, o[k]) = IF k + 1 = u THEN None ELSE o[k + 1]
<1>1. /\ o \in [Blocks -> Blocks] /\ u \in Blocks /\ Capacity \in Nat \ {0}
      /\ c.tail = o[u] /\ c.start = o[0]
      /\ \A j, k \in Blocks : o[j] = o[k] => j = k
      /\ \A k \in 0 .. Capacity - 1 : c.next[o[k]] = o[k + 1]
  BY CapacityAssumption DEF ListOf, Links
<1>2. NextBlock(c, None) = IF u = 0 THEN None ELSE o[0]
  BY <1>1, NoneIsNone DEF NextBlock
<1>3. ASSUME NEW k \in 0 .. u - 1
      PROVE  NextBlock(c, o[k]) = IF k + 1 = u THEN None ELSE o[k + 1]
  <2>1. k \in 0 .. Capacity - 1 /\ k \in Blocks /\ k + 1 \in Blocks
    <3>1. u \in Nat /\ u =< Capacity
      BY <1>1 DEF Blocks
    <3>2. k \in Nat /\ k < u
      BY <3>1
    <3> QED BY <3>1, <3>2, <1>1 DEF Blocks
  <2>2. o[k] # None /\ c.next[o[k]] = o[k + 1]
    BY <1>1, <2>1, NoneIsNone
  <2>3. o[k + 1] = o[u] <=> k + 1 = u
    BY <1>1, <2>1
  <2> QED BY <1>1, <2>2, <2>3 DEF NextBlock
<1> QED BY <1>2, <1>3

\* qs_add_chain: a full list stays as it is; otherwise the tail is the next block in use and
\* holds the value, and the order is the same.
THEOREM AddChainList ==
    ASSUME NEW c, NEW o, NEW u, ListOf(c, o, u), NEW v \in Values
    PROVE  /\ u = Capacity => FreeBlock(c) = None /\ AddChain(c, v) = c
           /\ u # Capacity => /\ FreeBlock(c) = o[u]
                              /\ ListOf(AddChain(c, v), o, u + 1)
                              /\ AddChain(c, v).data = [c.data EXCEPT ![o[u]] = v]
<1>1. /\ o \in [Blocks -> Blocks] /\ u \in Blocks /\ Capacity \in Nat \ {0}
      /\ c \in Chains /\ Links(c, o) /\ c.tail = o[u] /\ c.next[o[Capacity]] = None
      /\ \A j, k \in Blocks : o[j] = o[k] => j = k
      /\ \A k \in 0 .. Capacity - 1 : c.next[o[k]] = o[k + 1]
      /\ \A k \in 0 .. u - 1 : c.data[o[k]] \in Values
  BY CapacityAssumption DEF ListOf, Links
<1>2. CASE u = Capacity
  BY <1>1, <1>2 DEF FreeBlock, AddChain
<1>3. CASE u # Capacity
  <2> DEFINE a == AddChain(c, v)
             e == [c.data EXCEPT ![o[u]] = v]
  <2>1. u \in 0 .. Capacity - 1 /\ u + 1 \in Blocks /\ u \in Nat /\ u =< Capacity
    BY <1>1, <1>3 DEF Blocks
  <2>2. o[u] \in Blocks /\ o[u + 1] \in Blocks /\ c.next[c.tail] = o[u + 1] /\ o[u + 1] # None
    BY <1>1, <2>1, NoneIsNone
  <2>3. a = [c EXCEPT !.data = e, !.tail = o[u + 1]]
    <3>1. FreeBlock(c) # None
      BY <1>1, <2>2, NoneIsNone DEF FreeBlock
    <3>2. a = [c EXCEPT !.data[c.tail] = v, !.tail = c.next[c.tail]]
      BY <3>1, Zenon DEF AddChain
    <3> QED BY <1>1, <2>2, <3>2, Zenon
  <2>4. /\ a \in Chains /\ a.tail = o[u + 1] /\ a.data = e /\ a.start = c.start /\ a.end = c.end
        /\ a.prev = c.prev /\ a.next = c.next
    <3>1. e \in [Blocks -> Values \cup {NoValue}]
      BY <1>1, ChainFields
    <3> HIDE DEF e, a
    <3> QED BY <1>1, <2>2, <2>3, <3>1 DEF Chains
  <2>5. Links(a, o)
    <3> HIDE DEF e, a
    <3> QED BY <1>1, <2>4 DEF Links
  <2>6. \A k \in 0 .. (u + 1) - 1 : e[o[k]] \in Values
    <3>1. c.data \in [Blocks -> Values \cup {NoValue}]
      BY <1>1, ChainFields
    <3> SUFFICES ASSUME NEW k \in 0 .. (u + 1) - 1
                 PROVE  e[o[k]] \in Values
      OBVIOUS
    <3>2. k = u \/ k \in 0 .. u - 1
      BY <2>1
    <3>3. k \in Blocks /\ o[k] \in Blocks
      BY <1>1, <2>1 DEF Blocks
    <3>4. CASE k = u
      BY <3>1, <3>4, <2>2
    <3>5. CASE k # u
      <4>1. o[k] # o[u]
        BY <1>1, <3>3, <3>5
      <4> QED BY <1>1, <3>1, <3>2, <3>3, <3>5, <4>1
    <3> QED BY <3>4, <3>5
  <2>7. ListOf(a, o, u + 1)
    <3> HIDE DEF e, a
    <3> QED BY <2>1, <2>4, <2>5, <2>6 DEF ListOf
  <2>8. FreeBlock(c) = o[u]
    BY <1>1, <2>2 DEF FreeBlock
  <2> QED BY <1>3, <2>4, <2>7, <2>8
<1> QED BY <1>2, <1>3

\* The order after the block with place j was put behind the last one.
Requeued(o, j) == [k \in Blocks |-> IF k < j THEN o[k] ELSE IF k < Capacity THEN o[k + 1] ELSE o[j]]

\* It is an order of the blocks.
LEMMA RequeuedOrder ==
    ASSUME NEW c, NEW o, Links(c, o), NEW j \in 0 .. Capacity - 1
    PROVE  /\ Requeued(o, j) \in [Blocks -> Blocks]
           /\ \A k, m \in Blocks : Requeued(o, j)[k] = Requeued(o, j)[m] => k = m
           /\ \A b \in Blocks : \E k \in Blocks : Requeued(o, j)[k] = b
<1> DEFINE q == Requeued(o, j)
<1>0. Capacity \in Nat \ {0} /\ j \in Nat /\ j < Capacity
  BY CapacityAssumption
<1>1. /\ o \in [Blocks -> Blocks]
      /\ \A k, m \in Blocks : o[k] = o[m] => k = m
      /\ \A b \in Blocks : \E k \in Blocks : o[k] = b
  BY DEF Links
\* the place in o of what is at place k now
<1> DEFINE from(k) == IF k < j THEN k ELSE IF k < Capacity THEN k + 1 ELSE j
<1>2. \A k \in Blocks : from(k) \in Blocks /\ q[k] = o[from(k)]
  <2> SUFFICES ASSUME NEW k \in Blocks
               PROVE  from(k) \in Blocks /\ q[k] = o[from(k)]
    OBVIOUS
  <2>1. from(k) \in Blocks
    BY <1>0 DEF Blocks
  <2>2. q[k] = o[from(k)]
    BY DEF Requeued
  <2> QED BY <2>1, <2>2
<1>3. \A k, m \in Blocks : from(k) = from(m) => k = m
  <2> SUFFICES ASSUME NEW k \in Blocks, NEW m \in Blocks, from(k) = from(m)
               PROVE  k = m
    OBVIOUS
  <2>1. k \in Int /\ m \in Int /\ k =< Capacity /\ m =< Capacity
    BY <1>0 DEF Blocks
  <2> QED BY <1>0, <2>1
<1>4. \A m \in Blocks : \E k \in Blocks : from(k) = m
  <2> SUFFICES ASSUME NEW m \in Blocks
               PROVE  \E k \in Blocks : from(k) = m
    OBVIOUS
  <2>1. CASE m < j
    BY <2>1
  <2>2. CASE m = j
    <3>1. Capacity \in Blocks /\ from(Capacity) = m
      BY <1>0, <2>2 DEF Blocks
    <3> QED BY <3>1
  <2>3. CASE m > j
    <3>1. m - 1 \in Blocks /\ from(m - 1) = m
      BY <1>0, <2>3 DEF Blocks
    <3> QED BY <3>1
  <2> QED BY <1>0, <2>1, <2>2, <2>3 DEF Blocks
<1>5. q \in [Blocks -> Blocks]
  <2>1. q = [k \in Blocks |-> q[k]]
    BY DEF Requeued
  <2> HIDE DEF q, from
  <2> QED BY <1>1, <1>2, <2>1
<1>6. \A k, m \in Blocks : q[k] = q[m] => k = m
  <2> HIDE DEF q, from
  <2> QED BY <1>1, <1>2, <1>3
<1>7. \A b \in Blocks : \E k \in Blocks : q[k] = b
  <2> HIDE DEF q, from
  <2> SUFFICES ASSUME NEW b \in Blocks
               PROVE  \E k \in Blocks : q[k] = b
    OBVIOUS
  <2>1. PICK m \in Blocks : o[m] = b
    BY <1>1
  <2>2. PICK k \in Blocks : from(k) = m
    BY <1>4
  <2> QED BY <1>2, <2>1, <2>2
<1> QED BY <1>5, <1>6, <1>7

\* qs_remove_chain of a block far from the end: it goes behind the end, and the rest moves up.
LEMMA RequeueLinks ==
    ASSUME NEW c \in Chains, NEW o, Links(c, o), NEW j \in 0 .. Capacity - 2
    PROVE  /\ Requeue(c, o[j]) \in Chains
           /\ Links(Requeue(c, o[j]), Requeued(o, j))
           /\ Requeue(c, o[j]).tail = c.tail /\ Requeue(c, o[j]).data = c.data
<1> DEFINE q == Requeued(o, j)
           b == o[j]
           n == c.next[b]
           p == c.prev[b]
           r == Requeue(c, b)
           pv == [c.prev EXCEPT ![n] = p, ![b] = c.end]
           nx == [x \in Blocks |-> CASE x = b -> None
                                     [] x = c.end -> b
                                     [] x = p -> n
                                     [] OTHER -> c.next[x]]
           st == IF p = None THEN n ELSE c.start
<1>0. Capacity \in Nat \ {0} /\ j \in Nat /\ j + 1 < Capacity /\ j \in 0 .. Capacity - 1
      /\ j \in Blocks /\ j + 1 \in Blocks
  BY CapacityAssumption DEF Blocks
<1>1. /\ o \in [Blocks -> Blocks]
      /\ \A k, m \in Blocks : o[k] = o[m] => k = m
      /\ c.start = o[0] /\ c.end = o[Capacity] /\ c.prev[o[0]] = None
      /\ \A k \in 0 .. Capacity - 1 : c.next[o[k]] = o[k + 1] /\ c.prev[o[k + 1]] = o[k]
  BY DEF Links
<1>2. n = o[j + 1] /\ b \in Blocks /\ n \in Blocks /\ n # None /\ n # b
  BY <1>0, <1>1, NoneIsNone
<1>3. p = IF j = 0 THEN None ELSE o[j - 1]
  <2>1. CASE j = 0
    BY <1>1, <2>1
  <2>2. CASE j # 0
    <3>1. j - 1 \in 0 .. Capacity - 1 /\ (j - 1) + 1 = j
      BY <1>0, <2>2
    <3> QED BY <1>1, <2>2, <3>1
  <2> QED BY <2>1, <2>2
<1>4. p \in Blocks \cup {None} /\ (j # 0 => p # None) /\ c.end \in Blocks
  <2>1. j # 0 => j - 1 \in Blocks
    BY <1>0 DEF Blocks
  <2> QED BY <1>1, <1>3, <2>1, NoneIsNone
<1>5. r = [start |-> st, tail |-> c.tail, end |-> b, prev |-> pv, next |-> nx, data |-> c.data]
  <2>1. r = [c EXCEPT !.start = st, !.end = b, !.prev = pv, !.next = nx]
    BY Zenon DEF Requeue
  <2> HIDE DEF st, b, pv, nx, r
  <2> QED BY <2>1 DEF Chains
<1>6. pv \in [Blocks -> Blocks \cup {None}] /\ nx \in [Blocks -> Blocks \cup {None}] /\ st \in Blocks
  <2>1. /\ c.start \in Blocks
        /\ c.prev \in [Blocks -> Blocks \cup {None}]
        /\ c.next \in [Blocks -> Blocks \cup {None}]
    BY ChainFields
  <2>2. pv \in [Blocks -> Blocks \cup {None}]
    <3> HIDE DEF p, n, b
    <3> QED BY <1>2, <1>4, <2>1
  <2>3. nx \in [Blocks -> Blocks \cup {None}]
    <3> HIDE DEF p, n, b
    <3> QED BY <1>2, <1>4, <2>1
  <2> HIDE DEF p, n, b
  <2> QED BY <1>2, <1>4, <2>1, <2>2, <2>3
<1>7. r \in Chains
  <2> HIDE DEF st, b, pv, nx, r
  <2> QED BY <1>2, <1>5, <1>6, ChainFields DEF Chains
<1>8. /\ r.start = st /\ r.end = b /\ r.prev = pv /\ r.next = nx /\ r.tail = c.tail /\ r.data = c.data
  <2> HIDE DEF st, b, pv, nx, r
  <2> QED BY <1>5
\* the old order and the new one
<1>9. \A k \in Blocks : q[k] = IF k < j THEN o[k] ELSE IF k < Capacity THEN o[k + 1] ELSE b
  BY DEF Requeued
<1>10. st = q[0] /\ b = q[Capacity]
  <2>1. 0 \in Blocks /\ Capacity \in Blocks /\ ~(Capacity < j) /\ ~(Capacity < Capacity)
    BY <1>0 DEF Blocks
  <2>2. b = q[Capacity]
    BY <1>9, <2>1, Zenon
  <2>3. CASE j = 0
    BY <1>0, <1>2, <1>3, <1>9, <2>1, <2>2, <2>3
  <2>4. CASE j # 0
    <3>1. 0 < j
      BY <1>0, <2>4
    <3>2. q[0] = o[0]
      BY <1>9, <2>1, <3>1
    <3>3. p # None
      BY <1>4, <2>4
    <3> HIDE DEF p
    <3> QED BY <1>1, <2>2, <3>2, <3>3
  <2> QED BY <2>3, <2>4
<1> HIDE DEF q, p, n, b, st
<1>11. nx[b] = None /\ nx[c.end] = b /\ (j # 0 => nx[p] = n)
       /\ \A x \in Blocks \ {b, c.end, p} : nx[x] = c.next[x]
  <2>1. c.end # b
    BY <1>0, <1>1 DEF b, Blocks
  <2>2. p # b /\ p # c.end
    <3>1. j # 0 => j - 1 \in Blocks /\ j - 1 # j /\ j - 1 # Capacity
      BY <1>0 DEF Blocks
    <3> QED BY <1>0, <1>1, <1>2, <1>3, <1>4, <3>1, NoneIsNone DEF b
  <2>3. nx[b] = None
    BY <1>2, <2>1, <2>2
  <2>4. nx[c.end] = b
    BY <1>4, <2>1, <2>2
  <2>5. j # 0 => nx[p] = n
    BY <1>4, <2>1, <2>2
  <2>6. \A x \in Blocks \ {b, c.end, p} : nx[x] = c.next[x]
    <3> SUFFICES ASSUME NEW x \in Blocks, x # b, x # c.end, x # p
                 PROVE  nx[x] = c.next[x]
      OBVIOUS
    <3> QED BY DEF nx
  <2> QED BY <2>3, <2>4, <2>5, <2>6
<1>12. pv[n] = p /\ pv[b] = c.end /\ \A x \in Blocks \ {n, b} : pv[x] = c.prev[x]
  <2>1. c.prev \in [Blocks -> Blocks \cup {None}]
    BY ChainFields
  <2> QED BY <1>2, <2>1
<1> HIDE DEF pv, nx
<1>13. ASSUME NEW k \in 0 .. Capacity - 1
       PROVE  nx[q[k]] = q[k + 1] /\ pv[q[k + 1]] = q[k]
  <2>1. k \in Nat /\ k < Capacity /\ k \in Blocks /\ k + 1 \in Blocks /\ k + 1 =< Capacity
    BY <1>0 DEF Blocks
  <2>2. CASE k + 1 < j
    <3>1. q[k] = o[k] /\ q[k + 1] = o[k + 1]
      BY <1>0, <1>9, <2>1, <2>2
    <3>2. o[k] # b /\ o[k] # c.end /\ o[k] # p
      <4>1. k # j /\ k # Capacity /\ k # j - 1 /\ (j # 0 => j - 1 \in Blocks) /\ Capacity \in Blocks
        BY <1>0, <2>1, <2>2 DEF Blocks
      <4> QED BY <1>0, <1>1, <1>3, <2>1, <4>1, NoneIsNone DEF b
    <3>3. o[k + 1] # b /\ o[k + 1] # n
      <4>1. k + 1 # j /\ k + 1 # j + 1
        BY <1>0, <2>1, <2>2
      <4> QED BY <1>0, <1>1, <1>2, <2>1, <4>1 DEF b
    <3>4. nx[o[k]] = c.next[o[k]]
      BY <1>1, <1>11, <2>1, <3>2
    <3>5. pv[o[k + 1]] = c.prev[o[k + 1]]
      BY <1>1, <1>12, <2>1, <3>3
    <3> QED BY <1>1, <3>1, <3>4, <3>5
  <2>3. CASE k + 1 = j
    <3>1. k = j - 1 /\ k < j /\ ~(k + 1 < j) /\ k + 1 < Capacity /\ j # 0 /\ j + 1 = (k + 1) + 1
      BY <1>0, <2>1, <2>3
    <3>2. q[k] = p /\ q[k + 1] = n
      BY <1>2, <1>3, <1>9, <2>1, <2>3, <3>1
    <3> QED BY <1>11, <1>12, <3>1, <3>2
  <2>4. CASE j =< k /\ k + 1 < Capacity
    <3>1. ~(k < j) /\ ~(k + 1 < j) /\ (k + 1) + 1 \in Blocks /\ k + 1 \in 0 .. Capacity - 1
      BY <1>0, <2>1, <2>4 DEF Blocks
    <3>2. q[k] = o[k + 1] /\ q[k + 1] = o[(k + 1) + 1]
      BY <1>9, <2>1, <2>4, <3>1
    <3>3. c.next[o[k + 1]] = o[(k + 1) + 1] /\ c.prev[o[(k + 1) + 1]] = o[k + 1]
      BY <1>1, <3>1
    <3>4. o[k + 1] # b /\ o[k + 1] # c.end /\ o[k + 1] # p
      <4>1. k + 1 # j /\ k + 1 # Capacity /\ k + 1 # j - 1 /\ (j # 0 => j - 1 \in Blocks) /\ Capacity \in Blocks
        BY <1>0, <2>1, <2>4 DEF Blocks
      <4> QED BY <1>0, <1>1, <1>3, <2>1, <4>1, NoneIsNone DEF b
    <3>5. o[(k + 1) + 1] # b /\ o[(k + 1) + 1] # n
      <4>1. (k + 1) + 1 # j /\ (k + 1) + 1 # j + 1
        BY <1>0, <2>1, <2>4
      <4> QED BY <1>0, <1>1, <1>2, <3>1, <4>1 DEF b
    <3>6. nx[o[k + 1]] = c.next[o[k + 1]]
      BY <1>1, <1>11, <2>1, <3>4
    <3>7. pv[o[(k + 1) + 1]] = c.prev[o[(k + 1) + 1]]
      BY <1>1, <1>12, <3>1, <3>5
    <3> QED BY <3>2, <3>3, <3>6, <3>7
  <2>5. CASE k + 1 = Capacity
    <3>1. ~(k < j)
      BY <1>0, <2>1, <2>5
    <3>2. q[k] = o[Capacity] /\ q[k + 1] = b
      BY <1>9, <1>10, <2>1, <2>5, <3>1
    <3> QED BY <1>1, <1>11, <1>12, <3>2
  <2> QED BY <1>0, <2>1, <2>2, <2>3, <2>4, <2>5
<1>14. pv[q[0]] = None
  <2>1. 0 \in Blocks
    BY <1>0 DEF Blocks
  <2>2. CASE j = 0
    <3>1. q[0] = n
      BY <1>0, <1>2, <1>9, <2>1, <2>2
    <3> QED BY <1>3, <1>12, <2>2, <3>1
  <2>3. CASE j # 0
    <3>1. 0 < j /\ 0 # j + 1
      BY <1>0, <2>3
    <3>2. q[0] = o[0] /\ o[0] # b /\ o[0] # n /\ o[0] \in Blocks
      BY <1>0, <1>1, <1>2, <1>9, <2>1, <2>3, <3>1 DEF b
    <3> QED BY <1>1, <1>12, <3>2
  <2> QED BY <2>2, <2>3
<1>15. /\ q \in [Blocks -> Blocks]
       /\ \A k, m \in Blocks : q[k] = q[m] => k = m
       /\ \A x \in Blocks : \E k \in Blocks : q[k] = x
  <2>1. j \in 0 .. Capacity - 1
    BY <1>0
  <2> QED BY <2>1, RequeuedOrder DEF q
<1>16. Links(r, q)
  <2> HIDE DEF r
  <2> QED BY <1>8, <1>10, <1>11, <1>13, <1>14, <1>15 DEF Links
<1> QED BY <1>7, <1>8, <1>16 DEF q, b


\* qs_remove_chain of a block in use: one block less is in use, the others keep their order
\* and their values.
THEOREM RemoveChainList ==
    ASSUME NEW c, NEW o, NEW u, ListOf(c, o, u), NEW j \in 0 .. u - 1
    PROVE  /\ RemoveChain(c, o[j]).data = c.data
           /\ \E q : /\ ListOf(RemoveChain(c, o[j]), q, u - 1)
                     /\ \A k \in 0 .. u - 2 : q[k] = IF k < j THEN o[k] ELSE o[k + 1]
<1> DEFINE r == RemoveChain(c, o[j])
<1>1. /\ c \in Chains /\ Links(c, o) /\ c.tail = o[u] /\ u \in Blocks
      /\ \A k \in 0 .. u - 1 : c.data[o[k]] \in Values
      /\ o \in [Blocks -> Blocks]
      /\ \A k, m \in Blocks : o[k] = o[m] => k = m
      /\ c.next[o[Capacity]] = None
      /\ \A k \in 0 .. Capacity - 1 : c.next[o[k]] = o[k + 1] /\ c.prev[o[k + 1]] = o[k]
  BY DEF ListOf, Links
<1>2. /\ Capacity \in Nat \ {0} /\ u \in Nat /\ u =< Capacity /\ j \in Nat /\ j < u
      /\ j \in Blocks /\ j + 1 \in Blocks /\ j \in 0 .. Capacity - 1 /\ u - 1 \in Blocks
  <2>1. Capacity \in Nat /\ u \in Nat /\ u =< Capacity
    BY <1>1, CapacityAssumption DEF Blocks
  <2>2. j \in Nat /\ j < u
    BY <2>1
  <2> QED BY <2>1, <2>2, CapacityAssumption DEF Blocks
<1>3. c.next[o[j]] = o[j + 1] /\ o[j + 1] \in Blocks /\ o[j + 1] # None /\ c.prev[o[j + 1]] = o[j]
  BY <1>1, <1>2, NoneIsNone
<1>4. CASE j + 1 = Capacity
  <2>1. u = Capacity /\ j = u - 1
    BY <1>2, <1>4
  <2>2. r = [c EXCEPT !.tail = o[j]]
    BY <1>1, <1>3, <1>4, Zenon DEF RemoveChain
  <2>3. /\ r \in Chains /\ r.start = c.start /\ r.end = c.end /\ r.prev = c.prev /\ r.next = c.next
        /\ r.data = c.data /\ r.tail = o[j]
    <3>1. o[j] \in Blocks
      BY <1>1, <1>2
    <3> HIDE DEF r
    <3> QED BY <1>1, <2>2, <3>1 DEF Chains
  <2>4. Links(r, o)
    <3> HIDE DEF r
    <3> QED BY <1>1, <2>3 DEF Links
  <2>5. \A k \in 0 .. (u - 1) - 1 : r.data[o[k]] \in Values
    <3> HIDE DEF r
    <3>1. \A k \in 0 .. (u - 1) - 1 : k \in 0 .. u - 1
      BY <1>2
    <3> QED BY <1>1, <2>3, <3>1
  <2>6. ListOf(r, o, u - 1)
    <3> HIDE DEF r
    <3> QED BY <1>2, <2>1, <2>3, <2>4, <2>5 DEF ListOf
  <2>7. \A k \in 0 .. u - 2 : o[k] = IF k < j THEN o[k] ELSE o[k + 1]
    BY <1>2, <2>1
  <2> QED BY <2>3, <2>6, <2>7
<1>5. CASE j + 1 # Capacity
  <2>1. j \in 0 .. Capacity - 2 /\ j + 1 \in 0 .. Capacity - 1
    BY <1>2, <1>5
  <2>2. c.next[o[j + 1]] # None
    <3>1. (j + 1) + 1 \in Blocks
      BY <1>2, <1>5 DEF Blocks
    <3> QED BY <1>1, <2>1, <3>1, NoneIsNone
  <2>3. r = Requeue(c, o[j])
    BY <1>3, <2>2 DEF RemoveChain
  <2> DEFINE q == Requeued(o, j)
  <2>4. r \in Chains /\ Links(r, q) /\ r.tail = c.tail /\ r.data = c.data
    BY <1>1, <2>1, <2>3, RequeueLinks
  <2>5. \A k \in Blocks : q[k] = IF k < j THEN o[k] ELSE IF k < Capacity THEN o[k + 1] ELSE o[j]
    BY DEF Requeued
  <2> HIDE DEF q, r
  <2>6. q[u - 1] = o[u]
    <3>1. ~(u - 1 < j) /\ u - 1 < Capacity /\ (u - 1) + 1 = u
      BY <1>2
    <3> QED BY <1>2, <2>5, <3>1
  <2>7. \A k \in 0 .. u - 2 : /\ q[k] = IF k < j THEN o[k] ELSE o[k + 1]
                              /\ k \in 0 .. u - 1 /\ k + 1 \in 0 .. u - 1
    <3> SUFFICES ASSUME NEW k \in 0 .. u - 2
                 PROVE  /\ q[k] = IF k < j THEN o[k] ELSE o[k + 1]
                        /\ k \in 0 .. u - 1 /\ k + 1 \in 0 .. u - 1
      OBVIOUS
    <3>1. k \in Nat /\ k < Capacity /\ k \in Blocks /\ k \in 0 .. u - 1 /\ k + 1 \in 0 .. u - 1
      BY <1>2 DEF Blocks
    <3> QED BY <2>5, <3>1
  <2>8. \A k \in 0 .. (u - 1) - 1 : r.data[q[k]] \in Values
    <3> SUFFICES ASSUME NEW k \in 0 .. (u - 1) - 1
                 PROVE  c.data[q[k]] \in Values
      BY <2>4
    <3>1. k \in 0 .. u - 2
      BY <1>2
    <3> QED BY <1>1, <2>7, <3>1
  <2>9. ListOf(r, q, u - 1)
    BY <1>1, <1>2, <2>4, <2>6, <2>8 DEF ListOf
  <2> QED BY <2>4, <2>7, <2>9 DEF r
<1> QED BY <1>4, <1>5

-----------------------------------------------------------------------------
\* What holds of 0, and of k + 1 when it holds of k, holds up to N.
LEMMA UpTo ==
    ASSUME NEW N \in Nat, NEW S, 0 \in S, \A k \in 0 .. N - 1 : k \in S => k + 1 \in S
    PROVE  \A k \in 0 .. N : k \in S
<1> DEFINE T == {k \in 0 .. N : k \notin S}
<1>1. ASSUME T # {}
      PROVE  FALSE
  <2>1. T \subseteq Nat
    OBVIOUS
  <2>2. PICK m \in T : \A y \in T : <<y, m>> \notin OpToRel(<, Nat)
    BY <1>1, <2>1, NatLessThanWellFounded, WFMin
  <2>3. m # 0 /\ m \in 0 .. N
    OBVIOUS
  <2>4. m - 1 \in 0 .. N - 1 /\ m - 1 \in Nat /\ m \in Nat /\ m - 1 < m /\ (m - 1) + 1 = m
    BY <2>3
  <2>5. m - 1 \notin T
    BY <2>2, <2>4 DEF OpToRel
  <2>6. m - 1 \in S
    BY <2>4, <2>5
  <2> QED BY <2>2, <2>4, <2>6
<1> QED BY <1>1

\* An order begins at the start of its chain and follows the links, and no other does.
LEMMA OneOrder ==
    ASSUME NEW c, NEW o, Links(c, o), NEW f,
           f[0] = c.start, \A k \in 0 .. Capacity - 1 : f[k] # None => f[k + 1] = c.next[f[k]]
    PROVE  \A k \in Blocks : f[k] = o[k]
<1> DEFINE S == {k \in Blocks : f[k] = o[k]}
<1>1. Capacity \in Nat /\ 0 \in S
  BY NoneIsNone DEF Links
<1>2. ASSUME NEW k \in 0 .. Capacity - 1, k \in S
      PROVE  k + 1 \in S
  <2>1. k + 1 \in Blocks /\ k \in Blocks
    BY <1>1 DEF Blocks
  <2>2. f[k] = o[k] /\ o[k] # None
    BY <1>2, <2>1, NoneIsNone DEF Links
  <2> QED BY <2>1, <2>2 DEF Links
<1> HIDE DEF S
<1>3. \A k \in 0 .. Capacity : k \in S
  BY <1>1, <1>2, UpTo
<1> QED BY <1>3 DEF S, Blocks

-----------------------------------------------------------------------------
\* the blocks in use, in whatever order
InUse(c) == {b \in Blocks : \E o, u : ListOf(c, o, u) /\ \E k \in 0 .. u - 1 : o[k] = b}
IsList(c) == \E o, u : ListOf(c, o, u)

\* A chain is a list in one way.
LEMMA OneWay ==
    ASSUME NEW c, NEW o, NEW u, ListOf(c, o, u), NEW p, NEW v, ListOf(c, p, v)
    PROVE  p = o /\ v = u
<1>1. Links(c, o) /\ Links(c, p) /\ c.tail = o[u] /\ c.tail = p[v] /\ u \in Blocks /\ v \in Blocks
  BY DEF ListOf
<1>2. /\ o \in [Blocks -> Blocks] /\ p \in [Blocks -> Blocks] /\ p[0] = c.start
      /\ \A k \in 0 .. Capacity - 1 : c.next[p[k]] = p[k + 1]
      /\ \A j, k \in Blocks : o[j] = o[k] => j = k
  BY <1>1 DEF Links
<1>3. \A k \in Blocks : p[k] = o[k]
  BY <1>1, <1>2, OneOrder
<1>4. p = o
  BY <1>2, <1>3
<1>5. o[u] = o[v]
  BY <1>1, <1>4
<1> QED BY <1>1, <1>2, <1>4, <1>5

\* The blocks in use of a list are the first of its order.
LEMMA InUseIs ==
    ASSUME NEW c, NEW o, NEW u, ListOf(c, o, u)
    PROVE  /\ InUse(c) = {o[k] : k \in 0 .. u - 1} /\ InUse(c) \subseteq Blocks
           /\ u \in Nat /\ u <= Capacity
           /\ \A b \in InUse(c) : \E k \in 0 .. u - 1 : o[k] = b
<1>1. u \in 0 .. Capacity /\ o \in [Blocks -> Blocks] /\ Capacity \in Nat
  BY NoneIsNone DEF ListOf, Links, Blocks
<1>2. ASSUME NEW k \in 0 .. u - 1
      PROVE  o[k] \in InUse(c)
  <2>1. k \in Blocks
    BY <1>1 DEF Blocks
  <2> QED BY <1>1, <2>1 DEF InUse
<1>3. ASSUME NEW b \in InUse(c)
      PROVE  \E k \in 0 .. u - 1 : o[k] = b
  <2>1. PICK p, v : ListOf(c, p, v) /\ \E k \in 0 .. v - 1 : p[k] = b
    BY <1>3 DEF InUse
  <2>2. p = o /\ v = u
    BY <2>1, OneWay
  <2> QED BY <2>1, <2>2
<1> QED BY <1>1, <1>2, <1>3 DEF InUse

\* No block of a new chain is in use.
LEMMA NewInUse == IsList(NewChain) /\ InUse(NewChain) = {}
<1>1. ListOf(NewChain, [k \in Blocks |-> k], 0)
  BY NewChainList
<1>2. PICK o : ListOf(NewChain, o, 0)
  BY <1>1
<1>3. \A b \in InUse(NewChain) : \E k \in 0 .. 0 - 1 : o[k] = b
  BY <1>2, InUseIs
<1> QED BY <1>2, <1>3 DEF IsList

\* A list is a chain, and its blocks in use hold values.
LEMMA ListFields ==
    ASSUME NEW c, IsList(c)
    PROVE  c \in Chains /\ InUse(c) \subseteq Blocks /\ \A b \in InUse(c) : c.data[b] \in Values
<1>1. PICK o, u : ListOf(c, o, u)
  BY DEF IsList
<1>2. \A b \in InUse(c) : \E k \in 0 .. u - 1 : o[k] = b
  BY <1>1, InUseIs
<1> QED BY <1>1, <1>2 DEF ListOf, InUse

\* The first block of a walk is one in use, and there is none if no block is.
LEMMA FirstInUse ==
    ASSUME NEW c, IsList(c)
    PROVE  /\ NextBlock(c, None) = None <=> InUse(c) = {}
           /\ NextBlock(c, None) # None => NextBlock(c, None) \in InUse(c)
<1>1. PICK o, u : ListOf(c, o, u)
  BY DEF IsList
<1>2. NextBlock(c, None) = IF u = 0 THEN None ELSE o[0]
  BY <1>1, NextBlockIs
<1>3. /\ u \in Nat /\ u <= Capacity /\ InUse(c) = {o[k] : k \in 0 .. u - 1}
      /\ InUse(c) \subseteq Blocks
  BY <1>1, InUseIs
<1>4. CASE u = 0
  BY <1>2, <1>3, <1>4
<1>5. CASE u # 0
  <2>1. 0 \in 0 .. u - 1
    BY <1>3, <1>5
  <2>2. o[0] \in InUse(c)
    BY <1>3, <2>1
  <2> QED BY <1>2, <1>3, <1>5, <2>2, NoneIsNone
<1> QED BY <1>4, <1>5

\* An add takes a block that was not in use.
LEMMA AddInUse ==
    ASSUME NEW c, IsList(c), NEW v \in Values, FreeBlock(c) # None
    PROVE  /\ FreeBlock(c) \in Blocks \ InUse(c) /\ IsList(AddChain(c, v))
           /\ InUse(AddChain(c, v)) = InUse(c) \cup {FreeBlock(c)}
           /\ AddChain(c, v).data = [c.data EXCEPT ![FreeBlock(c)] = v]
<1>1. PICK o, u : ListOf(c, o, u)
  BY DEF IsList
<1>2. /\ u # Capacity /\ FreeBlock(c) = o[u] /\ ListOf(AddChain(c, v), o, u + 1)
      /\ AddChain(c, v).data = [c.data EXCEPT ![o[u]] = v]
  BY <1>1, AddChainList
<1>3. /\ u \in Nat /\ u <= Capacity /\ InUse(c) = {o[k] : k \in 0 .. u - 1}
      /\ \A b \in InUse(c) : \E k \in 0 .. u - 1 : o[k] = b
  BY <1>1, InUseIs
<1>4. InUse(AddChain(c, v)) = {o[k] : k \in 0 .. (u + 1) - 1}
  BY <1>2, InUseIs
<1>5. 0 .. (u + 1) - 1 = (0 .. u - 1) \cup {u}
  BY <1>3
<1>6. o[u] \in Blocks /\ o[u] \notin InUse(c)
  <2>1. u \in Blocks /\ o \in [Blocks -> Blocks] /\ \A j, k \in Blocks : o[j] = o[k] => j = k
    BY <1>1 DEF ListOf, Links
  <2>2. ASSUME NEW k \in 0 .. u - 1, o[k] = o[u]
        PROVE  FALSE
    <3>1. k \in Blocks /\ k # u
      BY <1>3, NoneIsNone DEF Blocks
    <3> QED BY <2>1, <2>2, <3>1
  <2> QED BY <1>3, <2>1, <2>2
<1>7. InUse(AddChain(c, v)) = InUse(c) \cup {o[u]}
  BY <1>3, <1>4, <1>5
<1> QED BY <1>2, <1>6, <1>7 DEF IsList

\* A removal takes the block it is given, and only it.
LEMMA RemoveInUse ==
    ASSUME NEW c, IsList(c), NEW b \in InUse(c)
    PROVE  /\ IsList(RemoveChain(c, b)) /\ InUse(RemoveChain(c, b)) = InUse(c) \ {b}
           /\ RemoveChain(c, b).data = c.data
<1>1. PICK o, u : ListOf(c, o, u)
  BY DEF IsList
<1>2. /\ u \in Nat /\ u <= Capacity /\ InUse(c) = {o[k] : k \in 0 .. u - 1}
      /\ \A x \in InUse(c) : \E k \in 0 .. u - 1 : o[k] = x
  BY <1>1, InUseIs
<1>3. PICK j \in 0 .. u - 1 : o[j] = b
  BY <1>2
<1>4. RemoveChain(c, b).data = c.data
  BY <1>1, <1>3, RemoveChainList
<1>5. PICK q : /\ ListOf(RemoveChain(c, b), q, u - 1)
               /\ \A k \in 0 .. u - 2 : q[k] = IF k < j THEN o[k] ELSE o[k + 1]
  BY <1>1, <1>3, RemoveChainList
<1>6. /\ InUse(RemoveChain(c, b)) = {q[k] : k \in 0 .. (u - 1) - 1}
      /\ \A x \in InUse(RemoveChain(c, b)) : \E k \in 0 .. (u - 1) - 1 : q[k] = x
  BY <1>5, InUseIs
<1>7. \A k, m \in 0 .. u - 1 : o[k] = o[m] => k = m
  <2>1. \A k, m \in Blocks : o[k] = o[m] => k = m
    BY <1>1 DEF ListOf, Links
  <2>2. 0 .. u - 1 \subseteq Blocks
    BY <1>2, NoneIsNone DEF Blocks
  <2> QED BY <2>1, <2>2
<1>8. ASSUME NEW x \in InUse(RemoveChain(c, b))
      PROVE  x \in InUse(c) \ {b}
  <2>1. PICK k \in 0 .. (u - 1) - 1 : q[k] = x
    BY <1>6
  <2>2. k \in 0 .. u - 2 /\ k \in 0 .. u - 1 /\ k + 1 \in 0 .. u - 1 /\ j \in 0 .. u - 1
    BY <1>2
  <2>3. x = IF k < j THEN o[k] ELSE o[k + 1]
    BY <1>5, <2>1, <2>2
  <2>4. CASE k < j
    BY <1>2, <1>3, <1>7, <2>2, <2>3, <2>4
  <2>5. CASE ~(k < j)
    <3>1. k + 1 # j
      BY <2>2, <2>5
    <3> QED BY <1>2, <1>3, <1>7, <2>2, <2>3, <2>5, <3>1
  <2> QED BY <2>4, <2>5
<1>9. ASSUME NEW x \in InUse(c) \ {b}
      PROVE  x \in InUse(RemoveChain(c, b))
  <2>1. PICK k \in 0 .. u - 1 : o[k] = x
    BY <1>2
  <2>2. k # j /\ k \in Nat /\ j \in Nat /\ k < u /\ j < u
    BY <1>2, <1>3, <2>1
  <2>3. CASE k < j
    <3>1. k \in 0 .. u - 2 /\ k \in 0 .. (u - 1) - 1
      BY <1>2, <2>2, <2>3
    <3> QED BY <1>5, <1>6, <2>1, <2>3, <3>1
  <2>4. CASE j < k
    <3>1. /\ k - 1 \in 0 .. u - 2 /\ k - 1 \in 0 .. (u - 1) - 1 /\ ~(k - 1 < j)
          /\ (k - 1) + 1 = k
      BY <1>2, <2>2, <2>4
    <3> QED BY <1>5, <1>6, <2>1, <3>1
  <2> QED BY <2>2, <2>3, <2>4
<1> QED BY <1>4, <1>5, <1>8, <1>9 DEF IsList

\* A walk that stands in a block which is removed from a list that is not full ends there.
LEMMA RemovedIsLast ==
    ASSUME NEW c, IsList(c), FreeBlock(c) # None, NEW b \in InUse(c)
    PROVE  NextBlock(RemoveChain(c, b), b) = None
<1>1. PICK o, u : ListOf(c, o, u)
  BY DEF IsList
<1>2. /\ c \in Chains /\ o \in [Blocks -> Blocks] /\ c.tail = o[u] /\ u \in Blocks
      /\ Capacity \in Nat /\ \A j \in Blocks : o[j] # None
      /\ c.next[o[Capacity]] = None
      /\ \A k \in 0 .. Capacity - 1 : c.next[o[k]] = o[k + 1]
  BY <1>1, NoneIsNone DEF ListOf, Links
<1>3. u # Capacity
  BY <1>2 DEF FreeBlock
<1>4. PICK j \in 0 .. u - 1 : o[j] = b
  BY <1>1, InUseIs
<1>5. /\ j \in 0 .. Capacity - 1 /\ j + 1 \in 0 .. Capacity - 1 /\ j + 1 \in Blocks
      /\ (j + 1) + 1 \in Blocks /\ j \in Blocks
  <2>1. u \in Nat /\ u < Capacity
    BY <1>2, <1>3 DEF Blocks
  <2> QED BY <1>2, <1>4, <2>1 DEF Blocks
<1>6. c.next[b] # None /\ c.next[c.next[b]] # None /\ b \in Blocks
  BY <1>2, <1>4, <1>5
<1>7. RemoveChain(c, b) = Requeue(c, b)
  BY <1>6 DEF RemoveChain
<1>8. Requeue(c, b).next[b] = None
  <2> DEFINE nx == [x \in Blocks |-> CASE x = b -> None
                                        [] x = c.end -> b
                                        [] x = c.prev[b] -> c.next[b]
                                        [] OTHER -> c.next[x]]
             st == IF c.prev[b] = None THEN c.next[b] ELSE c.start
             pv == [c.prev EXCEPT ![c.next[b]] = c.prev[b], ![b] = c.end]
  <2>1. Requeue(c, b) = [c EXCEPT !.start = st, !.end = b, !.prev = pv, !.next = nx]
    BY Zenon DEF Requeue
  <2>2. b # c.end /\ c.prev[b] # b
    <3>1. /\ c.end = o[Capacity] /\ c.prev[o[0]] = None /\ Capacity \in Blocks
          /\ \A k \in 0 .. Capacity - 1 : c.prev[o[k + 1]] = o[k]
          /\ \A k, m \in Blocks : o[k] = o[m] => k = m
      BY <1>1, NoneIsNone DEF ListOf, Links
    <3>2. j # 0 => j - 1 \in 0 .. Capacity - 1 /\ j - 1 \in Blocks /\ (j - 1) + 1 = j /\ j - 1 # j
      BY <1>2, <1>5 DEF Blocks
    <3>3. j # Capacity
      BY <1>2, <1>5
    <3> QED BY <1>2, <1>4, <1>5, <3>1, <3>2, <3>3
  <2>3. nx[b] = None
    BY <1>6, <2>2
  <2> HIDE DEF nx, st, pv
  <2> QED BY <1>2, <2>1, <2>3 DEF Chains
<1> QED BY <1>6, <1>7, <1>8, NoneIsNone DEF NextBlock

\* The value of a block may be written over.
LEMMA DataInUse ==
    ASSUME NEW c, IsList(c), NEW b \in Blocks, NEW v \in Values
    PROVE  /\ IsList([c EXCEPT !.data[b] = v]) /\ InUse([c EXCEPT !.data[b] = v]) = InUse(c)
           /\ [c EXCEPT !.data[b] = v].data = [c.data EXCEPT ![b] = v]
           /\ \A x : NextBlock([c EXCEPT !.data[b] = v], x) = NextBlock(c, x)
           /\ \A o, u : ListOf(c, o, u) => ListOf([c EXCEPT !.data[b] = v], o, u)
<1>1. PICK o, u : ListOf(c, o, u)
  BY DEF IsList
<1> DEFINE e == [c.data EXCEPT ![b] = v]
           d == [c EXCEPT !.data[b] = v]
<1>2. d = [c EXCEPT !.data = e]
  BY Zenon
<1>3. c \in Chains /\ c.data \in [Blocks -> Values \cup {NoValue}]
  BY <1>1 DEF ListOf, Chains
<1>4. e \in [Blocks -> Values \cup {NoValue}]
  BY <1>3
<1>5. /\ d \in Chains /\ d.data = e /\ d.start = c.start /\ d.tail = c.tail /\ d.end = c.end
      /\ d.prev = c.prev /\ d.next = c.next
  <2> HIDE DEF d, e
  <2> QED BY <1>2, <1>3, <1>4 DEF Chains
<1>6. \A k \in 0 .. u - 1 : e[o[k]] \in Values
  <2>1. u \in 0 .. Capacity /\ o \in [Blocks -> Blocks] /\ Capacity \in Nat
    BY <1>1, NoneIsNone DEF ListOf, Links, Blocks
  <2>2. ASSUME NEW k \in 0 .. u - 1
        PROVE  e[o[k]] \in Values
    <3>1. k \in Blocks
      BY <2>1 DEF Blocks
    <3>2. o[k] \in Blocks /\ c.data[o[k]] \in Values
      BY <1>1, <2>1, <3>1 DEF ListOf
    <3> QED BY <1>3, <3>2
  <2> QED BY <2>2
<1>7. ListOf(d, o, u)
  <2> HIDE DEF d, e
  <2> QED BY <1>1, <1>5, <1>6 DEF ListOf, Links
<1>8. InUse(c) = {o[k] : k \in 0 .. u - 1} /\ InUse(d) = {o[k] : k \in 0 .. u - 1}
  <2> HIDE DEF d
  <2> QED BY <1>1, <1>7, InUseIs
<1>9. \A x : NextBlock(d, x) = NextBlock(c, x)
  <2> HIDE DEF d
  <2> QED BY <1>5 DEF NextBlock
<1>10. \A p, w : ListOf(c, p, w) => ListOf(d, p, w)
  <2> HIDE DEF d
  <2> QED BY <1>1, <1>7, OneWay
<1> QED BY <1>5, <1>7, <1>8, <1>9, <1>10 DEF IsList

-----------------------------------------------------------------------------
\* f[k] is what comes of x when h is applied k times
Iterates(f, n, x, h) == \A k \in 0 .. n : f[k] = IF k = 0 THEN x ELSE h[f[k - 1]]

\* A function applied again and again: the recursion has a solution.
LEMMA Iterated ==
    ASSUME NEW T, NEW h \in [T -> T], NEW x \in T, NEW N \in Nat
    PROVE  \E f \in [0 .. N -> T] : Iterates(f, N, x, h)
<1> DEFINE Is(f, n) == \A k \in 0 .. n : f[k] = IF k = 0 THEN x ELSE h[f[k - 1]]
           S == {n \in 0 .. N : \E f \in [0 .. n -> T] : Is(f, n)}
<1>1. 0 \in S
  <2>1. [k \in 0 .. 0 |-> x] \in [0 .. 0 -> T] /\ Is([k \in 0 .. 0 |-> x], 0) /\ 0 \in 0 .. N
    OBVIOUS
  <2> HIDE DEF Is
  <2> QED BY <2>1, Zenon
<1>2. ASSUME NEW n \in 0 .. N - 1, n \in S
      PROVE  n + 1 \in S
  <2>1. PICK f \in [0 .. n -> T] : Is(f, n)
    BY <1>2
  <2> DEFINE g == [k \in 0 .. n + 1 |-> IF k = n + 1 THEN h[f[n]] ELSE f[k]]
  <2>2. n \in Nat /\ n \in 0 .. n /\ n + 1 \in 0 .. N /\ f[n] \in T /\ h[f[n]] \in T
    OBVIOUS
  <2>3. g \in [0 .. n + 1 -> T]
    <3>1. \A k \in 0 .. n + 1 : k # n + 1 => k \in 0 .. n
      BY <2>2
    <3> QED BY <2>2, <3>1
  <2>4. ASSUME NEW k \in 0 .. n + 1
        PROVE  g[k] = IF k = 0 THEN x ELSE h[g[k - 1]]
    <3>1. CASE k = n + 1
      <4>1. k - 1 = n /\ k # 0 /\ n # n + 1 /\ n \in 0 .. n + 1
        BY <2>2, <3>1
      <4>2. g[n] = f[n] /\ g[k] = h[f[n]]
        BY <3>1, <4>1
      <4> QED BY <4>1, <4>2
    <3>2. CASE k # n + 1
      <4>1. k \in 0 .. n /\ (k # 0 => k - 1 \in 0 .. n /\ k - 1 # n + 1 /\ k - 1 \in 0 .. n + 1)
        BY <2>2, <3>2
      <4>2. g[k] = f[k] /\ (k # 0 => g[k - 1] = f[k - 1])
        BY <3>2, <4>1
      <4> QED BY <2>1, <4>1, <4>2
    <3> QED BY <3>1, <3>2
  <2> HIDE DEF g
  <2> QED BY <2>2, <2>3, <2>4
<1>3. N \in S
  <2> HIDE DEF S
  <2>1. \A k \in 0 .. N : k \in S
    BY <1>1, <1>2, UpTo
  <2> QED BY <2>1
<1>4. PICK f \in [0 .. N -> T] : Is(f, N)
  BY <1>3
<1> QED BY <1>4 DEF Iterates

\* A walk by qs_get_chain passes the blocks in use in their order, and is then at the end.
LEMMA WalkIs ==
    ASSUME NEW c, NEW o, NEW u, ListOf(c, o, u), NEW f,
           f[0] = NextBlock(c, None), \A k \in 0 .. Capacity - 1 : f[k + 1] = NextBlock(c, f[k])
    PROVE  /\ \A k \in 0 .. u - 1 : f[k] = o[k] /\ f[k] # None
           /\ u \in Blocks /\ f[u] = None
<1>1. u \in 0 .. Capacity /\ Capacity \in Nat /\ o \in [Blocks -> Blocks]
  BY NoneIsNone DEF ListOf, Links, Blocks
<1>2. /\ NextBlock(c, None) = IF u = 0 THEN None ELSE o[0]
      /\ \A k \in 0 .. u - 1 : NextBlock(c, o[k]) = IF k + 1 = u THEN None ELSE o[k + 1]
  BY NextBlockIs
<1> DEFINE S == {k \in 0 .. u : f[k] = IF k = u THEN None ELSE o[k]}
<1>3. 0 \in S
  BY <1>1, <1>2
<1>4. ASSUME NEW k \in 0 .. u - 1, k \in S
      PROVE  k + 1 \in S
  <2>1. k + 1 \in 0 .. u /\ k # u /\ k \in 0 .. Capacity - 1
    BY <1>1
  <2>2. f[k] = o[k] /\ f[k + 1] = NextBlock(c, f[k])
    BY <1>4, <2>1
  <2> QED BY <1>2, <2>1, <2>2
<1>5. \A k \in 0 .. u : k \in S
  <2> HIDE DEF S
  <2>1. u \in Nat
    BY <1>1
  <2> QED BY <1>3, <1>4, <2>1, UpTo
<1>6. ASSUME NEW k \in 0 .. u - 1
      PROVE  f[k] = o[k] /\ f[k] # None
  <2>1. k \in 0 .. u /\ k # u /\ k \in Blocks
    BY <1>1 DEF Blocks
  <2> QED BY <1>1, <1>5, <2>1, NoneIsNone
<1>7. f[u] = None
  <2>1. u \in 0 .. u
    BY <1>1
  <2> QED BY <1>5, <2>1
<1> QED BY <1>1, <1>6, <1>7 DEF Blocks

\* A chain, and a walk that is at its first block.
Fronts == {w \in [chain : Chains, at : Blocks \cup {None}] :
             IsList(w.chain) /\ w.at = NextBlock(w.chain, None)}

\* one turn of a loop that takes out block after block, each written over with v
Cleared(w, v) ==
    IF w.at = None THEN w
    ELSE [chain |-> RemoveChain([w.chain EXCEPT !.data[w.at] = v], w.at),
          at    |-> NextBlock(w.chain, w.at)]

\* Such a turn leaves one block less in use, and comes to the first of the others.
LEMMA ClearedIs ==
    ASSUME NEW w \in Fronts, NEW v \in Values, NEW o, NEW u, ListOf(w.chain, o, u)
    PROVE  /\ Cleared(w, v) \in Fronts
           /\ \E q : ListOf(Cleared(w, v).chain, q, IF u = 0 THEN 0 ELSE u - 1)
<1> DEFINE c == w.chain
           d == [c EXCEPT !.data[o[0]] = v]
           r == RemoveChain(d, o[0])
<1>1. /\ w.at = NextBlock(c, None) /\ c \in Chains /\ IsList(c)
      /\ u \in Nat /\ u <= Capacity /\ Capacity \in Nat \ {0} /\ o \in [Blocks -> Blocks]
  <2>1. u \in 0 .. Capacity
    BY DEF ListOf, Blocks
  <2> QED BY <2>1, NoneIsNone DEF Fronts, ListOf, Links
<1>2. /\ NextBlock(c, None) = IF u = 0 THEN None ELSE o[0]
      /\ \A k \in 0 .. u - 1 : NextBlock(c, o[k]) = IF k + 1 = u THEN None ELSE o[k + 1]
  BY NextBlockIs
<1>3. CASE u = 0
  BY <1>1, <1>2, <1>3 DEF Cleared
<1>4. CASE u # 0
  <2>1. 0 \in 0 .. u - 1 /\ o[0] \in Blocks /\ o[0] # None /\ u - 1 \in Nat
    BY <1>1, <1>4, NoneIsNone
  <2>2. ListOf(d, o, u)
    BY <1>1, <2>1, DataInUse
  <2> HIDE DEF d
  <2>3. PICK q : /\ ListOf(r, q, u - 1)
                 /\ \A k \in 0 .. u - 2 : q[k] = IF k < 0 THEN o[k] ELSE o[k + 1]
    BY <2>1, <2>2, RemoveChainList
  <2>4. NextBlock(r, None) = IF u - 1 = 0 THEN None ELSE q[0]
    <3> HIDE DEF r
    <3>1. PICK m : m = u - 1
      OBVIOUS
    <3>2. ListOf(r, q, m)
      BY <2>3, <3>1
    <3>3. NextBlock(r, None) = IF m = 0 THEN None ELSE q[0]
      BY <3>2, NextBlockIs
    <3> QED BY <3>1, <3>3
  <2>5. NextBlock(c, o[0]) = IF 0 + 1 = u THEN None ELSE o[0 + 1]
    BY <1>2, <2>1
  <2>6. NextBlock(r, None) = NextBlock(c, o[0])
    <3>1. CASE u = 1
      BY <2>4, <2>5, <3>1
    <3>2. CASE u # 1
      <4>1. 0 \in 0 .. u - 2 /\ u - 1 # 0
        BY <1>1, <1>4, <3>2
      <4>2. q[0] = o[0 + 1]
        BY <2>3, <4>1
      <4> QED BY <1>4, <2>4, <2>5, <3>2, <4>1, <4>2
    <3> QED BY <3>1, <3>2
  <2>7. w.at = o[0]
    BY <1>1, <1>2, <1>4
  <2>8. Cleared(w, v) = [chain |-> r, at |-> NextBlock(c, o[0])]
    BY <2>1, <2>7, Zenon DEF Cleared, d
  <2>9. r \in Chains /\ IsList(r) /\ NextBlock(c, o[0]) \in Blocks \cup {None}
    <3>1. r \in Chains /\ IsList(r)
      BY <2>3 DEF ListOf, IsList
    <3>2. NextBlock(r, None) = None \/ NextBlock(r, None) \in Blocks
      BY <3>1, FirstInUse, ListFields
    <3> QED BY <2>6, <3>1, <3>2
  <2> HIDE DEF r, c
  <2>10. Cleared(w, v) \in Fronts /\ Cleared(w, v).chain = r
    BY <2>6, <2>8, <2>9 DEF Fronts
  <2> QED BY <1>4, <2>3, <2>10
<1> QED BY <1>3, <1>4

\* the states of such a loop, which begins with the chain c
Clears(f, c, v) ==
    \A k \in 0 .. Capacity :
        f[k] = IF k = 0 THEN [chain |-> c, at |-> NextBlock(c, None)] ELSE Cleared(f[k - 1], v)

\* The loop empties the list.
LEMMA ClearedAll ==
    ASSUME NEW c, IsList(c), NEW v \in Values, NEW f, Clears(f, c, v)
    PROVE  IsList(f[Capacity].chain) /\ InUse(f[Capacity].chain) = {}
<1>1. PICK o, u : ListOf(c, o, u)
  BY DEF IsList
<1>2. u \in Nat /\ u <= Capacity /\ Capacity \in Nat
  BY <1>1, InUseIs, NoneIsNone
<1> DEFINE Left(k) == IF k < u THEN u - k ELSE 0
           S == {k \in 0 .. Capacity : f[k] \in Fronts /\ \E q : ListOf(f[k].chain, q, Left(k))}
<1>3. 0 \in S
  <2>1. f[0] = [chain |-> c, at |-> NextBlock(c, None)]
    BY <1>2 DEF Clears
  <2>2. c \in Chains /\ NextBlock(c, None) \in Blocks \cup {None}
    BY FirstInUse, ListFields
  <2>3. f[0] \in Fronts /\ f[0].chain = c
    BY <2>1, <2>2 DEF Fronts
  <2>4. Left(0) = u
    BY <1>2
  <2> QED BY <1>1, <1>2, <2>3, <2>4
<1>4. ASSUME NEW k \in 0 .. Capacity - 1, k \in S
      PROVE  k + 1 \in S
  <2>1. k + 1 \in 0 .. Capacity /\ k + 1 # 0 /\ (k + 1) - 1 = k
    BY <1>2
  <2>2. f[k + 1] = Cleared(f[k], v)
    <3> HIDE DEF Left, S
    <3> QED BY <2>1, Zenon DEF Clears
  <2>3. PICK q : ListOf(f[k].chain, q, Left(k))
    BY <1>4
  <2>4. PICK p : ListOf(f[k + 1].chain, p, IF Left(k) = 0 THEN 0 ELSE Left(k) - 1)
    BY <1>4, <2>2, <2>3, ClearedIs
  <2>5. f[k + 1] \in Fronts
    BY <1>4, <2>2, <2>3, ClearedIs
  <2>6. Left(k + 1) = IF Left(k) = 0 THEN 0 ELSE Left(k) - 1
    BY <1>2, <2>1
  <2> HIDE DEF Left
  <2> QED BY <2>1, <2>4, <2>5, <2>6
<1>5. Capacity \in S
  <2> HIDE DEF S
  <2>1. \A k \in 0 .. Capacity : k \in S
    BY <1>2, <1>3, <1>4, UpTo
  <2> QED BY <1>2, <2>1
<1>6. PICK d : d = f[Capacity].chain
  OBVIOUS
<1>7. PICK q : ListOf(d, q, 0)
  <2>1. Left(Capacity) = 0
    BY <1>2
  <2> HIDE DEF Left
  <2> QED BY <1>5, <1>6, <2>1
<1>8. \A b \in InUse(d) : \E k \in 0 .. 0 - 1 : q[k] = b
  BY <1>7, InUseIs
<1>9. IsList(d) /\ InUse(d) = {}
  BY <1>7, <1>8 DEF IsList
<1> QED BY <1>6, <1>9, Zenon

-----------------------------------------------------------------------------
\* What a walk that has come to the block at place j of the order has still to visit: the
\* values of the blocks in use behind it, which are those of "expected" not visited yet.
Walk(o, u) ==
    \/ at = None
    \/ /\ \E j \in 0 .. u - 1 :
            /\ at = o[j]
            /\ Len(expected) = Len(visited) + ((u - 1) - j)
            /\ \A i \in 1 .. (u - 1) - j : expected[Len(visited) + i] = chain.data[o[j + i]]
       /\ visited \in Seq(Values) /\ expected \in Seq(Values)
       /\ \A i \in 1 .. Len(visited) : visited[i] = expected[i]

\* The inductive invariant.
IInv ==
    /\ ListOf(chain, Order(chain), UsedCount(chain))
    /\ Walk(Order(chain), UsedCount(chain))

-----------------------------------------------------------------------------
\* The order of a list is the one its links spell, and its length in use is where its tail is.
LEMMA ListIs ==
    ASSUME NEW c, NEW o, NEW u, ListOf(c, o, u)
    PROVE  Order(c) = o /\ UsedCount(c) = u
<1> DEFINE F(f) == [k \in Blocks |-> IF k = 0 THEN c.start
                                     ELSE IF f[k - 1] = None THEN None ELSE c.next[f[k - 1]]]
<1>1. /\ Links(c, o) /\ c.tail = o[u] /\ u \in Blocks
      /\ o \in [Blocks -> Blocks] /\ c.start = o[0]
      /\ \A j, k \in Blocks : o[j] = o[k] => j = k
      /\ \A k \in 0 .. Capacity - 1 : c.next[o[k]] = o[k + 1]
  BY DEF ListOf, Links
<1>2. o = F(o)
  <2>1. ASSUME NEW k \in Blocks
        PROVE  o[k] = F(o)[k]
    <3>1. CASE k = 0
      BY <1>1, <3>1
    <3>2. CASE k # 0
      <4>1. k - 1 \in 0 .. Capacity - 1 /\ (k - 1) + 1 = k /\ k - 1 \in Blocks
        BY <3>2, CapacityAssumption DEF Blocks
      <4>2. o[k - 1] # None /\ o[k] = c.next[o[k - 1]]
        BY <1>1, <4>1, NoneIsNone
      <4> QED BY <3>2, <4>2
    <3> QED BY <3>1, <3>2
  <2>2. F(o) = [k \in Blocks |-> F(o)[k]]
    OBVIOUS
  <2> HIDE DEF F
  <2> QED BY <1>1, <2>1, <2>2
<1>3. Order(c) = CHOOSE f : f = F(f)
  BY DEF Order
<1>4. Order(c) = F(Order(c))
  <2> HIDE DEF F
  <2> QED BY <1>2, <1>3, Zenon
<1> DEFINE f == Order(c)
<1>5. f = [k \in Blocks |-> f[k]]
  <2> HIDE DEF f
  <2>1. f = F(f)
    BY <1>4 DEF f
  <2> QED BY <2>1
<1>6. f[0] = c.start
  BY <1>4, NoneIsNone
<1>7. \A k \in 0 .. Capacity - 1 : f[k] # None => f[k + 1] = c.next[f[k]]
  <2> SUFFICES ASSUME NEW k \in 0 .. Capacity - 1, f[k] # None
               PROVE  f[k + 1] = c.next[f[k]]
    OBVIOUS
  <2>1. k + 1 \in Blocks /\ k + 1 # 0 /\ (k + 1) - 1 = k
    BY CapacityAssumption DEF Blocks
  <2> HIDE DEF f
  <2>2. f[k + 1] = F(f)[k + 1]
    BY <1>4 DEF f
  <2> QED BY <2>1, <2>2
<1> HIDE DEF f
<1>8. \A k \in Blocks : f[k] = o[k]
  BY <1>1, <1>6, <1>7, OneOrder
<1>9. f = o
  BY <1>1, <1>5, <1>8
<1>10. UsedCount(c) = u
  BY <1>1, <1>9 DEF UsedCount, f
<1> QED BY <1>9, <1>10 DEF f

\* The values of a list, whatever the chain.
ItemsOf(c) == [k \in 1 .. UsedCount(c) |-> c.data[Order(c)[k - 1]]]

\* They are values, as many as blocks are in use.
LEMMA ItemsAre ==
    ASSUME NEW c, ListOf(c, Order(c), UsedCount(c))
    PROVE  /\ ItemsOf(c) \in Seq(Values) /\ Len(ItemsOf(c)) = UsedCount(c)
           /\ \A k \in 1 .. UsedCount(c) : ItemsOf(c)[k] = c.data[Order(c)[k - 1]]
<1> DEFINE o == Order(c)
           u == UsedCount(c)
<1>1. u \in Nat /\ \A k \in 0 .. u - 1 : c.data[o[k]] \in Values
  BY CapacityAssumption DEF ListOf, Blocks
<1>2. ItemsOf(c) = [k \in 1 .. u |-> c.data[o[k - 1]]]
  BY DEF ItemsOf
<1> HIDE DEF o, u
<1>3. \A k \in 1 .. u : c.data[o[k - 1]] \in Values
  BY <1>1
<1> QED BY <1>1, <1>2, <1>3 DEF o, u

\* Items before and after a step.
LEMMA ItemsIs == Items = ItemsOf(chain) /\ Items' = ItemsOf(chain')
BY DEF Items, ItemsOf

\* qs_remove_chain in terms of the order the links spell.
LEMMA RemoveOrder ==
    ASSUME NEW c, ListOf(c, Order(c), UsedCount(c)), NEW j \in 0 .. UsedCount(c) - 1
    PROVE  LET r == RemoveChain(c, Order(c)[j]) IN
           /\ ListOf(r, Order(r), UsedCount(r))
           /\ UsedCount(r) = UsedCount(c) - 1 /\ r.data = c.data
           /\ \A k \in 0 .. UsedCount(c) - 2 :
                Order(r)[k] = IF k < j THEN Order(c)[k] ELSE Order(c)[k + 1]
<1> DEFINE o == Order(c)
           u == UsedCount(c)
           r == RemoveChain(c, o[j])
<1> HIDE DEF o, u
<1>0. ListOf(c, o, u) /\ j \in 0 .. u - 1
  BY DEF o, u
<1>1. r.data = c.data
  BY <1>0, RemoveChainList
<1>2. PICK q : /\ ListOf(r, q, u - 1)
               /\ \A k \in 0 .. u - 2 : q[k] = IF k < j THEN o[k] ELSE o[k + 1]
  BY <1>0, RemoveChainList
<1> HIDE DEF r
<1>3. Order(r) = q /\ UsedCount(r) = u - 1
  BY <1>2, ListIs
<1> QED BY <1>1, <1>2, <1>3 DEF o, u, r

\* qs_add_chain in terms of the order the links spell.
LEMMA AddOrder ==
    ASSUME NEW c, ListOf(c, Order(c), UsedCount(c)), NEW v \in Values
    PROVE  LET a == AddChain(c, v) IN
           /\ ListOf(a, Order(a), UsedCount(a)) /\ Order(a) = Order(c)
           /\ UsedCount(c) = Capacity => a = c
           /\ UsedCount(c) # Capacity =>
                /\ UsedCount(a) = UsedCount(c) + 1
                /\ a.data = [c.data EXCEPT ![Order(c)[UsedCount(c)]] = v]
<1> DEFINE o == Order(c)
           u == UsedCount(c)
           a == AddChain(c, v)
<1> HIDE DEF o, u, a
<1>0. ListOf(c, o, u)
  BY DEF o, u
<1>1. CASE u = Capacity
  <2>1. a = c
    BY <1>0, <1>1, AddChainList DEF a
  <2> QED BY <1>0, <1>1, <2>1 DEF o, u, a
<1>2. CASE u # Capacity
  <2>1. ListOf(a, o, u + 1) /\ a.data = [c.data EXCEPT ![o[u]] = v]
    BY <1>0, <1>2, AddChainList DEF a
  <2>2. Order(a) = o /\ UsedCount(a) = u + 1
    BY <2>1, ListIs
  <2> QED BY <1>2, <2>1, <2>2 DEF o, u, a
<1> QED BY <1>1, <1>2

\* A block in use has a place.
LEMMA UsedPlace ==
    ASSUME NEW c, NEW b \in Used(c)
    PROVE  \E j \in 0 .. UsedCount(c) - 1 : b = Order(c)[j]
BY DEF Used

\* The number of blocks in use, and what NextBlock answers.
LEMMA ListFacts ==
    ASSUME NEW c, ListOf(c, Order(c), UsedCount(c))
    PROVE  /\ UsedCount(c) \in Nat /\ UsedCount(c) <= Capacity /\ c \in Chains
           /\ \A k \in 0 .. UsedCount(c) - 1 :
                /\ Order(c)[k] \in Blocks /\ Order(c)[k] # None /\ c.data[Order(c)[k]] \in Values
                /\ NextBlock(c, Order(c)[k]) = IF k + 1 = UsedCount(c) THEN None ELSE Order(c)[k + 1]
           /\ NextBlock(c, None) = IF UsedCount(c) = 0 THEN None ELSE Order(c)[0]
<1> DEFINE o == Order(c)
           u == UsedCount(c)
<1> HIDE DEF o, u
<1>0. ListOf(c, o, u)
  BY DEF o, u
<1>1. /\ c \in Chains /\ u \in Nat /\ u <= Capacity /\ o \in [Blocks -> Blocks]
      /\ \A k \in 0 .. u - 1 : c.data[o[k]] \in Values
  <2>1. /\ c \in Chains /\ u \in 0 .. Capacity /\ o \in [Blocks -> Blocks]
        /\ \A k \in 0 .. u - 1 : c.data[o[k]] \in Values
    BY <1>0 DEF ListOf, Links, Blocks
  <2> QED BY <2>1, CapacityAssumption
<1>2. \A k \in 0 .. u - 1 : k \in Blocks
  BY <1>1, CapacityAssumption DEF Blocks
<1>3. \A k \in 0 .. u - 1 : o[k] \in Blocks /\ o[k] # None
  BY <1>1, <1>2, NoneIsNone
<1>4. /\ NextBlock(c, None) = IF u = 0 THEN None ELSE o[0]
      /\ \A k \in 0 .. u - 1 : NextBlock(c, o[k]) = IF k + 1 = u THEN None ELSE o[k + 1]
  BY <1>0, NextBlockIs
<1> QED BY <1>1, <1>3, <1>4 DEF o, u

-----------------------------------------------------------------------------
\* qs_create_chain_array leads to the inductive invariant.
LEMMA InitIInv == Init => IInv
<1> SUFFICES ASSUME Init
             PROVE  IInv
  OBVIOUS
<1> DEFINE o == [k \in Blocks |-> k]
<1>1. ListOf(chain, o, 0)
  BY NewChainList DEF Init
<1> HIDE DEF o
<1>2. Order(chain) = o /\ UsedCount(chain) = 0
  BY <1>1, ListIs
<1> QED BY <1>1, <1>2 DEF IInv, Walk, Init

\* The walk's steps.
LEMMA StepIInv ==
    ASSUME IInv, NEW remove \in BOOLEAN, Step(remove)
    PROVE  IInv'
<1> DEFINE o == Order(chain)
           u == UsedCount(chain)
<1>1. /\ ListOf(chain, o, u) /\ u \in Nat
      /\ \A k \in 0 .. u - 1 :
           /\ o[k] # None /\ chain.data[o[k]] \in Values
           /\ NextBlock(chain, o[k]) = IF k + 1 = u THEN None ELSE o[k + 1]
  BY ListFacts DEF IInv
<1>2. /\ at # None /\ at' = NextBlock(chain, at) /\ expected' = expected
      /\ chain' = IF remove THEN RemoveChain(chain, at) ELSE chain
      /\ visited' = IF at' = None THEN visited ELSE Append(visited, chain.data[at'])
  BY DEF Step
<1>3. /\ visited \in Seq(Values) /\ expected \in Seq(Values)
      /\ \A i \in 1 .. Len(visited) : visited[i] = expected[i]
  BY <1>2 DEF IInv, Walk
<1>4. PICK j \in 0 .. u - 1 :
        /\ at = o[j]
        /\ Len(expected) = Len(visited) + ((u - 1) - j)
        /\ \A i \in 1 .. (u - 1) - j : expected[Len(visited) + i] = chain.data[o[j + i]]
  BY <1>2 DEF IInv, Walk
<1> DEFINE p == Order(chain')
           w == UsedCount(chain')
           d == IF remove THEN j ELSE j + 1
\* place d is where the block after at is now
<1>5. /\ ListOf(chain', p, w) /\ chain'.data = chain.data
      /\ w \in Nat /\ (w - 1) - d = (u - 1) - (j + 1)
      /\ \A i \in 0 .. (w - 1) - d : p[d + i] = o[(j + 1) + i]
  <2>1. CASE remove
    <3>1. chain' = RemoveChain(chain, o[j])
      BY <1>2, <1>4, <2>1
    <3>2. /\ ListOf(chain', p, w) /\ w = u - 1 /\ chain'.data = chain.data
          /\ \A k \in 0 .. u - 2 : p[k] = IF k < j THEN o[k] ELSE o[k + 1]
      BY <1>1, <3>1, RemoveOrder
    <3> HIDE DEF o, u, p, w
    <3>3. ASSUME NEW i \in 0 .. (w - 1) - d
          PROVE  p[d + i] = o[(j + 1) + i]
      <4>1. j + i \in 0 .. u - 2 /\ ~(j + i < j) /\ (j + i) + 1 = (j + 1) + i
        BY <1>1, <2>1, <3>2
      <4>2. p[j + i] = o[(j + i) + 1]
        BY <3>2, <4>1
      <4> QED BY <2>1, <4>1, <4>2
    <3> QED BY <1>1, <2>1, <3>2, <3>3
  <2>2. CASE ~remove
    <3>1. chain' = chain
      BY <1>2, <2>2
    <3>2. p = o /\ w = u
      BY <3>1
    <3> HIDE DEF o, u, p, w
    <3> QED BY <1>1, <2>2, <3>1, <3>2
  <2> QED BY <2>1, <2>2
<1>6. Walk(Order(chain), UsedCount(chain))'
  <2> SUFFICES ASSUME at' # None
               PROVE  Walk(Order(chain), UsedCount(chain))'
    BY DEF Walk
  <2> HIDE DEF o, u
  <2>1. j + 1 # u /\ at' = o[j + 1]
    BY <1>1, <1>2, <1>4
  <2>2. j + 1 \in 0 .. u - 1 /\ 1 \in 1 .. (u - 1) - j /\ d \in 0 .. w - 1
    <3> HIDE DEF w
    <3> QED BY <1>1, <1>5, <2>1
  <2>3. at' = p[d]
    <3>1. 0 \in 0 .. (w - 1) - d /\ d + 0 = d /\ (j + 1) + 0 = j + 1
      <4> HIDE DEF w
      <4> QED BY <1>5, <2>2
    <3> HIDE DEF w, p, d
    <3> QED BY <1>5, <2>1, <3>1
  <2> HIDE DEF p, w
  <2> DEFINE x == chain.data[o[j + 1]]
  <2>4. x \in Values /\ visited' = Append(visited, x)
    BY <1>1, <1>2, <2>1, <2>2
  <2>5. expected[Len(visited) + 1] = x
    BY <1>4, <2>2
  <2> HIDE DEF x
  <2>6. /\ visited' \in Seq(Values) /\ Len(visited') = Len(visited) + 1 /\ Len(visited) \in Nat
        /\ \A i \in 1 .. Len(visited') : visited'[i] = expected[i]
    BY <1>3, <2>4, <2>5
  <2>7. Len(expected') = Len(visited') + ((w - 1) - d)
    <3>1. (u - 1) - j = 1 + ((u - 1) - (j + 1)) /\ (u - 1) - (j + 1) \in Int
      BY <1>1
    <3> HIDE DEF d
    <3> QED BY <1>2, <1>4, <1>5, <2>6, <3>1
  <2>8. ASSUME NEW i \in 1 .. (w - 1) - d
        PROVE  expected'[Len(visited') + i] = chain'.data[p[d + i]]
    <3>1. /\ i \in 0 .. (w - 1) - d /\ i + 1 \in 1 .. (u - 1) - j
          /\ j + (i + 1) = (j + 1) + i /\ Len(visited) + (i + 1) = Len(visited') + i
      BY <1>1, <1>5, <2>6
    <3>2. expected[Len(visited) + (i + 1)] = chain.data[o[j + (i + 1)]]
      BY <1>4, <3>1
    <3> HIDE DEF d
    <3> QED BY <1>2, <1>5, <3>1, <3>2
  <2>9. visited' \in Seq(Values) /\ expected' \in Seq(Values)
        /\ \A i \in 1 .. Len(visited') : visited'[i] = expected'[i]
    BY <1>2, <1>3, <2>6
  <2>10. \E m \in 0 .. w - 1 :
            /\ at' = p[m]
            /\ Len(expected') = Len(visited') + ((w - 1) - m)
            /\ \A i \in 1 .. (w - 1) - m : expected'[Len(visited') + i] = chain'.data[p[m + i]]
    <3> HIDE DEF d
    <3> QED BY <2>2, <2>3, <2>7, <2>8
  <2> QED BY <2>9, <2>10 DEF Walk, p, w
<1> QED BY <1>5, <1>6 DEF IInv


\* A call between walks.
LEMMA CallIInv ==
    ASSUME IInv, \/ \E v \in Values : Add(v)
                 \/ \E b \in Used(chain) : Remove(b)
    PROVE  IInv'
<1>1. ListOf(chain, Order(chain), UsedCount(chain))
  BY DEF IInv
<1>2. at' = None
  BY DEF Add, Remove
<1>3. ListOf(chain', Order(chain'), UsedCount(chain'))
  <2>1. CASE \E v \in Values : Add(v)
    BY <1>1, <2>1, AddOrder DEF Add
  <2>2. CASE \E b \in Used(chain) : Remove(b)
    <3>1. PICK b \in Used(chain) : chain' = RemoveChain(chain, b)
      BY <2>2 DEF Remove
    <3>2. PICK j \in 0 .. UsedCount(chain) - 1 : b = Order(chain)[j]
      BY UsedPlace
    <3> QED BY <1>1, <3>1, <3>2, RemoveOrder
  <2> QED BY <2>1, <2>2
<1> QED BY <1>2, <1>3 DEF IInv, Walk

\* The beginning of a walk.
LEMMA BeginIInv ==
    ASSUME IInv, Begin
    PROVE  IInv'
<1> DEFINE o == Order(chain)
           u == UsedCount(chain)
<1>1. /\ ListOf(chain, o, u) /\ u \in Nat
      /\ \A k \in 0 .. u - 1 : chain.data[o[k]] \in Values
      /\ NextBlock(chain, None) = IF u = 0 THEN None ELSE o[0]
  BY ListFacts DEF IInv
<1>2. Items \in Seq(Values) /\ Len(Items) = u /\ \A k \in 1 .. u : Items[k] = chain.data[o[k - 1]]
  BY <1>1, ItemsAre, ItemsIs
<1>3. /\ at' = o[0] /\ u # 0 /\ chain' = chain /\ expected' = Items
      /\ visited' = <<chain.data[o[0]]>>
  BY <1>1 DEF Begin
<1> HIDE DEF o, u
<1>4. visited' \in Seq(Values) /\ Len(visited') = 1 /\ visited'[1] = chain.data[o[0]] /\ 0 \in 0 .. u - 1
  BY <1>1, <1>3
<1>5. \A i \in 1 .. Len(visited') : visited'[i] = expected'[i]
  BY <1>1, <1>2, <1>3, <1>4
<1>6. Len(expected') = Len(visited') + ((u - 1) - 0)
  BY <1>1, <1>2, <1>3, <1>4
<1>7. ASSUME NEW i \in 1 .. (u - 1) - 0
      PROVE  expected'[Len(visited') + i] = chain'.data[o[0 + i]]
  <2>1. 1 + i \in 1 .. u /\ (1 + i) - 1 = 0 + i
    BY <1>1
  <2> QED BY <1>2, <1>3, <1>4, <2>1
<1> QED BY <1>1, <1>2, <1>3, <1>4, <1>5, <1>6, <1>7 DEF IInv, Walk, o, u

\* Every step keeps the inductive invariant.
LEMMA NextIInv == IInv /\ [Next]_vars => IInv'
<1> SUFFICES ASSUME IInv, [Next]_vars
             PROVE  IInv'
  OBVIOUS
<1>1. CASE UNCHANGED vars
  BY <1>1 DEF vars, IInv, Walk
<1>2. CASE Next
  BY <1>2, CallIInv, BeginIInv, StepIInv DEF Next
<1> QED BY <1>1, <1>2

\* The inductive invariant holds in every state.
THEOREM Invariance == Spec => []IInv
<1> QED BY InitIInv, NextIInv, PTL DEF Spec

-----------------------------------------------------------------------------
\* No call of qs_chain_array.c ever loses a block: the list goes through every block once,
\* from start to end by next and back by prev.
THEOREM OneListAlways == Spec => []OneList
<1>1. IInv => OneList
  <2> SUFFICES ASSUME IInv
               PROVE  OneList
    OBVIOUS
  <2> DEFINE o == Order(chain)
  <2>1. /\ chain \in Chains /\ chain.start = o[0] /\ o[Capacity] = chain.end
        /\ o \in [Blocks -> Blocks]
        /\ \A b \in Blocks : \E k \in Blocks : o[k] = b
        /\ chain.next[chain.end] = None /\ chain.prev[chain.start] = None
        /\ \A k \in 0 .. Capacity - 1 : chain.prev[o[k + 1]] = o[k]
    BY DEF IInv, ListOf, Links
  <2>2. TypeOK
    <3>1. CASE at = None
      BY <2>1, <3>1 DEF TypeOK
    <3>2. CASE at # None
      <4>1. PICK j \in 0 .. UsedCount(chain) - 1 : at = o[j]
        BY <3>2 DEF IInv, Walk
      <4> QED BY <2>1, <4>1, ListFacts DEF IInv, TypeOK
    <3> QED BY <3>1, <3>2
  <2>3. {o[k] : k \in Blocks} = Blocks
    BY <2>1
  <2>4. \A k \in Blocks \ {0} : chain.prev[o[k]] = o[k - 1]
    <3> SUFFICES ASSUME NEW k \in Blocks \ {0}
                 PROVE  chain.prev[o[k]] = o[k - 1]
      OBVIOUS
    <3>1. k - 1 \in 0 .. Capacity - 1 /\ (k - 1) + 1 = k
      BY CapacityAssumption DEF Blocks
    <3> HIDE DEF o
    <3>2. chain.prev[o[(k - 1) + 1]] = o[k - 1]
      BY <2>1, <3>1
    <3> QED BY <3>1, <3>2
  <2> QED BY <2>1, <2>2, <2>3, <2>4 DEF OneList
<1> QED BY <1>1, Invariance, PTL

\* A walk that removes blocks as it leaves them comes to every value that was in the list
\* when it began, once and in order.
THEOREM WalkCompleteAlways == Spec => WalkComplete
<1>1. IInv /\ [Next]_vars => [at # None /\ at' = None => visited' = expected]_vars
  <2> SUFFICES ASSUME IInv, Next, at # None, at' = None
               PROVE  visited' = expected
    OBVIOUS
  <2> DEFINE o == Order(chain)
             u == UsedCount(chain)
  <2>1. PICK remove \in BOOLEAN : Step(remove)
    BY DEF Next, Add, Remove, Begin
  <2>2. /\ u \in Nat
        /\ \A k \in 0 .. u - 1 :
             /\ NextBlock(chain, o[k]) = IF k + 1 = u THEN None ELSE o[k + 1]
             /\ o[k] # None
    BY ListFacts DEF IInv
  <2>3. PICK j \in 0 .. u - 1 : at = o[j] /\ Len(expected) = Len(visited) + ((u - 1) - j)
    BY DEF IInv, Walk
  <2>4. /\ visited \in Seq(Values) /\ expected \in Seq(Values)
        /\ \A i \in 1 .. Len(visited) : visited[i] = expected[i]
    BY DEF IInv, Walk
  <2>5. visited' = visited /\ at' = NextBlock(chain, o[j])
    BY <2>1, <2>3 DEF Step
  <2> HIDE DEF o, u
  <2>6. j + 1 = u
    <3>1. j + 1 # u => j + 1 \in 0 .. u - 1
      BY <2>2
    <3> QED BY <2>2, <2>5, <3>1
  <2>7. Len(visited) \in Nat /\ (u - 1) - j = 0
    BY <2>2, <2>4, <2>6
  <2>8. Len(expected) = Len(visited)
    BY <2>3, <2>7
  <2> QED BY <2>4, <2>5, <2>8, SeqEqual
<1> QED BY <1>1, Invariance, PTL DEF Spec, WalkComplete


-----------------------------------------------------------------------------
\* The values of a list after an add that finds room.
LEMMA AddItems ==
    ASSUME IInv, NEW v \in Values, Add(v), UsedCount(chain) # Capacity
    PROVE  Items' = Append(Items, v)
<1> DEFINE o == Order(chain)
           u == UsedCount(chain)
           d == chain.data
           y == Items
           z == Items'
<1>1. /\ ListOf(chain, o, u) /\ u \in Nat /\ u <= Capacity
      /\ y \in Seq(Values) /\ Len(y) = u
      /\ \A k \in 1 .. u : y[k] = d[o[k - 1]]
  BY ListFacts, ItemsAre, ItemsIs DEF IInv
<1>2. /\ ListOf(chain', Order(chain'), UsedCount(chain')) /\ Order(chain') = o
      /\ UsedCount(chain') = u + 1
      /\ chain'.data = [d EXCEPT ![o[u]] = v]
  BY <1>1, AddOrder DEF Add
<1>3. z \in Seq(Values) /\ Len(z) = u + 1 /\ \A k \in 1 .. u + 1 : z[k] = chain'.data[o[k - 1]]
  <2>1. /\ z \in Seq(Values) /\ Len(z) = UsedCount(chain')
        /\ \A k \in 1 .. UsedCount(chain') : z[k] = chain'.data[Order(chain')[k - 1]]
    BY <1>2, ItemsAre, ItemsIs
  <2> HIDE DEF o, u, d, y, z
  <2> QED BY <1>2, <2>1
<1>4. /\ d \in [Blocks -> Values \cup {NoValue}] /\ o \in [Blocks -> Blocks] /\ u \in Blocks
      /\ \A k, m \in Blocks : o[k] = o[m] => k = m
  BY <1>1, ChainFields DEF ListOf, Links
<1> HIDE DEF o, u, d, y, z
<1>5. Append(y, v) \in Seq(Values) /\ Len(Append(y, v)) = u + 1
  BY <1>1
<1>6. ASSUME NEW k \in 1 .. u + 1
      PROVE  z[k] = Append(y, v)[k]
  <2>1. k - 1 \in Blocks /\ o[k - 1] \in Blocks /\ o[u] \in Blocks
    <3>1. k - 1 \in Blocks
      BY <1>1, CapacityAssumption DEF Blocks
    <3> QED BY <1>4, <3>1
  <2>2. CASE k = u + 1
    <3>1. k - 1 = u
      BY <1>1, <2>2
    <3> QED BY <1>1, <1>2, <1>3, <1>4, <2>1, <2>2, <3>1
  <2>3. CASE k # u + 1
    <3>1. k \in 1 .. u /\ k - 1 # u
      BY <1>1, <2>3
    <3>2. o[k - 1] # o[u]
      BY <1>4, <2>1, <3>1
    <3>3. z[k] = d[o[k - 1]]
      BY <1>2, <1>3, <1>4, <2>1, <3>2
    <3> QED BY <1>1, <3>1, <3>3
  <2> QED BY <2>2, <2>3
<1>7. z = Append(y, v)
  BY <1>3, <1>5, <1>6, SeqEqual
<1> QED BY <1>7 DEF y, z

\* The values of a list after the block at one place was taken out.
LEMMA RemoveItems ==
    ASSUME IInv, NEW j \in 0 .. UsedCount(chain) - 1, chain' = RemoveChain(chain, Order(chain)[j])
    PROVE  /\ j + 1 \in DOMAIN Items
           /\ Items' = SubSeq(Items, 1, (j + 1) - 1) \o SubSeq(Items, (j + 1) + 1, Len(Items))
<1> DEFINE o == Order(chain)
           u == UsedCount(chain)
           d == chain.data
           y == Items
           z == Items'
           s == SubSeq(y, 1, j)
           t == SubSeq(y, j + 2, u)
<1>1. /\ ListOf(chain, o, u) /\ u \in Nat /\ u <= Capacity
      /\ y \in Seq(Values) /\ Len(y) = u
      /\ \A k \in 1 .. u : y[k] = d[o[k - 1]]
  BY ListFacts, ItemsAre, ItemsIs DEF IInv
<1>2. /\ ListOf(chain', Order(chain'), UsedCount(chain'))
      /\ UsedCount(chain') = u - 1 /\ chain'.data = d
      /\ \A k \in 0 .. u - 2 : Order(chain')[k] = IF k < j THEN o[k] ELSE o[k + 1]
  BY <1>1, RemoveOrder
<1>3. /\ z \in Seq(Values) /\ Len(z) = u - 1
      /\ \A k \in 1 .. u - 1 : z[k] = d[Order(chain')[k - 1]]
  <2>1. /\ z \in Seq(Values) /\ Len(z) = UsedCount(chain')
        /\ \A k \in 1 .. UsedCount(chain') : z[k] = chain'.data[Order(chain')[k - 1]]
    BY <1>2, ItemsAre, ItemsIs
  <2> HIDE DEF o, u, d, y, z
  <2> QED BY <1>2, <2>1
<1>0. j \in 0 .. u - 1
  OBVIOUS
<1> HIDE DEF o, u, d, y, z
<1>4. ASSUME NEW k \in 1 .. u - 1
      PROVE  z[k] = IF k <= j THEN y[k] ELSE y[k + 1]
  <2>1. /\ k - 1 \in 0 .. u - 2 /\ k \in 1 .. u /\ k + 1 \in 1 .. u
        /\ (k - 1) + 1 = k /\ (k + 1) - 1 = k /\ (k - 1 < j <=> k <= j)
    BY <1>0, <1>1
  <2>2. z[k] = d[IF k - 1 < j THEN o[k - 1] ELSE o[(k - 1) + 1]]
    BY <1>2, <1>3, <2>1
  <2>3. y[k] = d[o[k - 1]] /\ y[k + 1] = d[o[k]]
    BY <1>1, <2>1
  <2> QED BY <2>1, <2>2, <2>3
<1>5. s \in Seq(Values) /\ Len(s) = j /\ \A i \in 1 .. j : s[i] = y[i]
  <2>1. \A i \in 1 .. j : y[i] \in Values
    BY <1>0, <1>1
  <2>2. /\ s \in Seq(Values) /\ Len(s) = IF 1 <= j THEN j - 1 + 1 ELSE 0
        /\ \A i \in 1 .. j - 1 + 1 : s[i] = y[1 + i - 1]
    BY <1>0, <2>1, SubSeqProperties
  <2> HIDE DEF s
  <2>3. \A i \in 1 .. j : 1 + i - 1 = i /\ i \in 1 .. j - 1 + 1
    BY <1>0
  <2> QED BY <1>0, <2>2, <2>3
<1>6. t \in Seq(Values) /\ Len(t) = (u - 1) - j /\ \A i \in 1 .. (u - 1) - j : t[i] = y[(j + 1) + i]
  <2>1. \A i \in j + 2 .. u : y[i] \in Values
    BY <1>0, <1>1
  <2>2. /\ t \in Seq(Values) /\ Len(t) = IF j + 2 <= u THEN u - (j + 2) + 1 ELSE 0
        /\ \A i \in 1 .. u - (j + 2) + 1 : t[i] = y[(j + 2) + i - 1]
    BY <1>0, <1>1, <2>1, SubSeqProperties
  <2> HIDE DEF t
  <2>3. \A i \in 1 .. (u - 1) - j : (j + 2) + i - 1 = (j + 1) + i /\ i \in 1 .. u - (j + 2) + 1
    BY <1>0, <1>1
  <2>4. (IF j + 2 <= u THEN u - (j + 2) + 1 ELSE 0) = (u - 1) - j
    BY <1>0, <1>1
  <2> QED BY <2>2, <2>3, <2>4
<1> HIDE DEF s, t
<1>7. /\ s \o t \in Seq(Values) /\ Len(s \o t) = u - 1
      /\ \A i \in 1 .. u - 1 : (s \o t)[i] = IF i <= j THEN s[i] ELSE t[i - j]
  <2>1. Len(s) + Len(t) = u - 1
    BY <1>0, <1>1, <1>5, <1>6
  <2>2. /\ s \o t \in Seq(Values) /\ Len(s \o t) = Len(s) + Len(t)
        /\ \A i \in 1 .. Len(s) + Len(t) : (s \o t)[i] = IF i <= Len(s) THEN s[i] ELSE t[i - Len(s)]
    BY <1>5, <1>6, ConcatProperties
  <2> QED BY <1>5, <2>1, <2>2
<1>8. ASSUME NEW i \in 1 .. u - 1
      PROVE  z[i] = (s \o t)[i]
  <2>1. CASE i <= j
    <3>1. i \in 1 .. j
      BY <1>0, <2>1
    <3> QED BY <1>4, <1>5, <1>7, <2>1, <3>1
  <2>2. CASE ~(i <= j)
    <3>1. i - j \in 1 .. (u - 1) - j /\ (j + 1) + (i - j) = i + 1
      BY <1>0, <1>1, <2>2
    <3> QED BY <1>4, <1>6, <1>7, <2>2, <3>1
  <2> QED BY <2>1, <2>2
<1>9. z = s \o t
  BY <1>3, <1>7, <1>8, SeqEqual
<1>10. (j + 1) - 1 = j /\ (j + 1) + 1 = j + 2 /\ j + 1 \in DOMAIN y /\ Len(y) = u
  BY <1>0, <1>1
<1> QED BY <1>9, <1>10 DEF s, t, y, z

\* The chain is a bounded list: an add appends its value or finds the list full, a removal
\* takes out the value of its block and leaves the others in order.
THEOREM ListImplemented == Spec => ImplementsList
<1>1. Init => L!Init
  <2> SUFFICES ASSUME Init
               PROVE  Items = << >>
    BY DEF L!Init
  <2>1. IInv
    BY InitIInv
  <2>2. UsedCount(chain) = 0
    <3> DEFINE o == [k \in Blocks |-> k]
    <3>1. ListOf(chain, o, 0)
      BY NewChainList DEF Init
    <3> HIDE DEF o
    <3> QED BY <3>1, ListIs
  <2>3. Items \in Seq(Values) /\ Len(Items) = 0
    BY <2>1, <2>2, ItemsAre, ItemsIs DEF IInv
  <2> HIDE DEF Items
  <2> QED BY <2>3, EmptySeq
<1>2. IInv /\ [Next]_vars => [L!Next]_Items
  <2> SUFFICES ASSUME IInv, [Next]_vars
               PROVE  L!Next \/ Items' = Items
    OBVIOUS
  <2>1. CASE chain' = chain
    BY <2>1 DEF Items
  <2>2. CASE \E v \in Values : Add(v)
    <3>1. PICK v \in Values : Add(v)
      BY <2>2
    <3>2. CASE UsedCount(chain) = Capacity
      <4>1. chain' = chain
        BY <3>1, <3>2, AddOrder DEF Add, IInv
      <4> QED BY <2>1, <4>1
    <3>3. CASE UsedCount(chain) # Capacity
      <4>1. Items' = Append(Items, v)
        BY <3>1, <3>3, AddItems
      <4>2. Len(Items) < Capacity
        <5>1. UsedCount(chain) \in Nat /\ UsedCount(chain) <= Capacity /\ Len(Items) = UsedCount(chain)
          BY ListFacts, ItemsAre, ItemsIs DEF IInv
        <5> QED BY <3>3, <5>1, CapacityAssumption
      <4> QED BY <4>1, <4>2 DEF L!Next, L!Add
    <3> QED BY <3>2, <3>3
  <2>3. ASSUME NEW b \in Used(chain), chain' = RemoveChain(chain, b)
        PROVE  L!Next
    <3>1. PICK j \in 0 .. UsedCount(chain) - 1 : b = Order(chain)[j]
      BY UsedPlace
    <3>2. chain' = RemoveChain(chain, Order(chain)[j])
      BY <2>3, <3>1
    <3>3. /\ j + 1 \in DOMAIN Items
          /\ Items' = SubSeq(Items, 1, (j + 1) - 1) \o SubSeq(Items, (j + 1) + 1, Len(Items))
      BY <3>2, RemoveItems
    <3> QED BY <3>3 DEF L!Next, L!Remove
  <2>4. CASE \E b \in Used(chain) : Remove(b)
    BY <2>3, <2>4 DEF Remove
  <2>5. CASE \E remove \in BOOLEAN : Step(remove)
    <3>1. PICK remove \in BOOLEAN : Step(remove)
      BY <2>5
    <3>2. CASE remove
      <4>1. at # None /\ chain' = RemoveChain(chain, at)
        BY <3>1, <3>2 DEF Step
      <4>2. at \in Used(chain)
        BY <4>1 DEF IInv, Walk, Used
      <4> QED BY <2>3, <4>1, <4>2
    <3>3. CASE ~remove
      BY <2>1, <3>1, <3>3 DEF Step
    <3> QED BY <3>2, <3>3
  <2>6. CASE Begin
    BY <2>1, <2>6 DEF Begin
  <2>7. CASE UNCHANGED vars
    BY <2>1, <2>7 DEF vars
  <2> QED BY <2>2, <2>4, <2>5, <2>6, <2>7 DEF Next
<1> QED BY <1>1, <1>2, Invariance, PTL DEF Spec, ImplementsList, L!Spec
=============================================================================
