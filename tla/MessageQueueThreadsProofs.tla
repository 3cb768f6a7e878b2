---------------------- MODULE MessageQueueThreadsProofs ----------------------
(***************************************************************************)
(* Proofs about the message queue between threads, for every length of the  *)
(* ring and every set of producers: until a dequeue clashes with the call   *)
(* of a producer, whole messages are read, each at most once and in the     *)
(* order in which they were sent, whatever an overflow gives up and however *)
(* the steps of the consumer and of the producers interleave.               *)
(***************************************************************************)
EXTENDS MessageQueueThreads, TLAPS

\* from slot a up to slot b, and the slot k before slot t, around the ring
Dist(a, b) == IF a <= b THEN b - a ELSE b - a + QueueLen
Back(t, k) == IF k <= t THEN t - k ELSE t - k + QueueLen

\* Slot s holds a whole message with a number up to b, later than what was received.
Whole(h, r, got, b, s) == h[s] = r[s] /\ got < h[s] /\ h[s] <= b

\* The c slots before the tail t hold whole messages, the older ones further back.
Window(h, r, got, b, t, c) ==
    /\ \A k \in 1 .. c : Whole(h, r, got, b, Back(t, k))
    /\ \A j, k \in 1 .. c : j < k => h[Back(t, k)] < h[Back(t, j)]

\* where the producer that holds the mutex is
Phase == IF mutex = Nobody THEN "idle" ELSE at[mutex]

\* The messages the indices speak of and the one the consumer has counted out to read it; and
\* those kept: the oldest is given up as soon as a producer begins to write over it, and is
\* not counted out before the status is written.
Base == Count + (IF reader \in {"head", "rest"} THEN 1 ELSE 0)
Kept == CASE Phase \in {"rest", "tail"} -> IF Base = QueueLen THEN QueueLen - 1 ELSE Base
          [] Phase = "full" -> IF tail = top THEN QueueLen ELSE Base
          [] Phase \in {"sum", "top", "status"} -> QueueLen
          [] OTHER -> Base

\* the number of the last message written
Written == IF Phase \in {"head", "rest", "tail"} THEN sent - 1 ELSE sent

\* the statements a producer can be at
Places == {"idle", "head", "rest", "tail", "full", "sum", "top", "status", "unlock"}

Typed ==
    /\ top \in Slots /\ tail \in Slots /\ status \in {0, 1}
    /\ head \in [Slots -> Nat] /\ rest \in [Slots -> Nat]
    /\ mutex \in Producers \cup {Nobody} /\ at \in [Producers -> Places]
    /\ sum \in Slots /\ sent \in Nat
    /\ reader \in {"idle", "target", "again", "empty", "last", "clear", "sum", "top", "head", "rest"}
    /\ target \in Slots /\ first \in Slots /\ readHead \in Nat /\ received \in Nat

\* A producer is inside its call while it holds the mutex.
Exclusion == \A p \in Producers : at[p] # "idle" <=> mutex = p

\* what the producer inside its call has done so far
Writing ==
    /\ Phase \in {"head", "rest", "tail"} => sent > 0
    /\ Phase \in {"rest", "tail"} => head[tail] = sent
    /\ Phase = "tail" => rest[tail] = sent
    /\ Phase \in {"sum", "top"} => tail = top
    /\ Phase = "top" => sum = Succ(top)
    /\ Phase = "status" => top = Succ(tail)

\* what the consumer inside its call has done so far: the slot to take is the oldest one,
\* which producers leave alone and which stays where it is when it is counted out
Taking ==
    /\ reader = "target" => first = top
    /\ reader \in {"again", "empty", "last", "clear", "sum", "top", "head", "rest"}
         => target = Back(tail, Base)
    /\ reader = "empty" => first = top
    /\ reader = "clear" => status = 1
    /\ reader \in {"sum", "top"} => top # tail
    /\ reader = "top" => first = Succ(top)
    /\ reader \in {"head", "rest"} => Count < QueueLen
    /\ reader = "rest" => readHead = head[target]

\* The inductive invariant, as long as there has been no clash.
IInv ==
    /\ Typed /\ Exclusion /\ ~Clash /\ Writing /\ Taking
    /\ Window(head, rest, received, Written, tail, Kept) /\ received <= Written

-----------------------------------------------------------------------------
\* The ring has a length.
LEMMA Length == QueueLen \in Nat \ {0} /\ 0 \in Slots
BY QueueAssumption DEF Slots

\* The slots are numbers below the length, and follow each other around the ring.
LEMMA SuccIs ==
    ASSUME NEW i \in Slots
    PROVE  /\ Succ(i) \in Slots
           /\ Succ(i) = IF i + 1 = QueueLen THEN 0 ELSE i + 1
<1>1. i \in Nat /\ i < QueueLen /\ QueueLen \in Nat \ {0}
  BY Length DEF Slots
<1>2. CASE i + 1 = QueueLen
  <2>1. QueueLen % QueueLen = 0
    BY <1>1
  <2> QED BY <1>1, <1>2, <2>1 DEF Succ, Slots
<1>3. CASE i + 1 # QueueLen
  <2>1. (i + 1) % QueueLen = i + 1
    BY <1>1, <1>3
  <2> QED BY <1>1, <1>3, <2>1 DEF Succ, Slots
<1> QED BY <1>2, <1>3

\* Counting back from a slot.
LEMMA BackIs ==
    ASSUME NEW t \in Slots
    PROVE  /\ \A k \in 0 .. QueueLen : Back(t, k) \in Slots
           /\ \A k \in 1 .. QueueLen - 1 : Back(t, k) # t
           /\ Back(Succ(t), 1) = t
           /\ \A k \in 0 .. QueueLen - 1 : Back(Succ(t), k + 1) = Back(t, k)
<1>1. t \in Nat /\ t < QueueLen /\ QueueLen \in Nat \ {0}
  BY Length DEF Slots
<1>2. Succ(t) = IF t + 1 = QueueLen THEN 0 ELSE t + 1
  BY SuccIs
<1>3. \A k \in 0 .. QueueLen : Back(t, k) \in Slots
  BY <1>1 DEF Back, Slots
<1>4. \A k \in 1 .. QueueLen - 1 : Back(t, k) # t
  BY <1>1 DEF Back
<1>5. Back(Succ(t), 1) = t
  BY <1>1, <1>2 DEF Back
<1>6. \A k \in 0 .. QueueLen - 1 : Back(Succ(t), k + 1) = Back(t, k)
  BY <1>1, <1>2 DEF Back
<1> QED BY <1>3, <1>4, <1>5, <1>6

\* The distance between two slots.
LEMMA DistIs ==
    ASSUME NEW a \in Slots, NEW b \in Slots
    PROVE  /\ Dist(a, b) \in 0 .. QueueLen - 1
           /\ a = b <=> Dist(a, b) = 0
           /\ Dist(a, Succ(b)) = IF a = Succ(b) THEN 0 ELSE Dist(a, b) + 1
           /\ a = Succ(b) => Dist(a, b) = QueueLen - 1
           /\ a # b => Dist(Succ(a), b) = Dist(a, b) - 1
           /\ Dist(Succ(a), a) = QueueLen - 1
           /\ \A s \in {0, 1} : Back(b, s + Dist(a, b)) = IF a - s < 0 THEN QueueLen - 1 ELSE a - s
<1>1. /\ a \in Nat /\ a < QueueLen /\ QueueLen \in Nat \ {0}
      /\ b \in Nat /\ b < QueueLen
  BY Length DEF Slots
<1>2. /\ Succ(a) = IF a + 1 = QueueLen THEN 0 ELSE a + 1
      /\ Succ(b) = IF b + 1 = QueueLen THEN 0 ELSE b + 1
  BY SuccIs
<1>3. Dist(a, b) \in 0 .. QueueLen - 1 /\ (a = b <=> Dist(a, b) = 0)
  BY <1>1 DEF Dist
<1>4. /\ Dist(a, Succ(b)) = IF a = Succ(b) THEN 0 ELSE Dist(a, b) + 1
      /\ a = Succ(b) => Dist(a, b) = QueueLen - 1
  BY <1>1, <1>2 DEF Dist
<1>5. a # b => Dist(Succ(a), b) = Dist(a, b) - 1
  BY <1>1, <1>2 DEF Dist
<1>6. Dist(Succ(a), a) = QueueLen - 1
  BY <1>1, <1>2 DEF Dist
<1>7. \A s \in {0, 1} : Back(b, s + Dist(a, b)) = IF a - s < 0 THEN QueueLen - 1 ELSE a - s
  BY <1>1 DEF Dist, Back
<1> QED BY <1>3, <1>4, <1>5, <1>6, <1>7

\* Fewer messages, or a wider bound on their numbers.
LEMMA WindowLess ==
    ASSUME NEW h \in [Slots -> Nat], NEW r, NEW got, NEW b \in Int, NEW t \in Slots,
           NEW c \in 0 .. QueueLen, Window(h, r, got, b, t, c),
           NEW d \in 0 .. c, NEW e \in Int, b <= e
    PROVE  Window(h, r, got, e, t, d)
<1>1. QueueLen \in Nat \ {0} /\ \A k \in 1 .. d : k \in 1 .. c /\ k \in 0 .. QueueLen
  BY Length
<1>2. \A k \in 1 .. d : h[Back(t, k)] \in Nat
  BY <1>1, BackIs
<1>3. ASSUME NEW k \in 1 .. d
      PROVE  Whole(h, r, got, e, Back(t, k))
  BY <1>1, <1>2 DEF Window, Whole
<1>4. \A j, k \in 1 .. d : j < k => h[Back(t, k)] < h[Back(t, j)]
  BY <1>1 DEF Window
<1> QED BY <1>3, <1>4 DEF Window

\* The slot at the tail is written: it is not one of the window.
LEMMA WindowWrite ==
    ASSUME NEW h \in [Slots -> Nat], NEW r \in [Slots -> Nat], NEW got, NEW b, NEW t \in Slots,
           NEW c \in 0 .. QueueLen - 1, Window(h, r, got, b, t, c), NEW x
    PROVE  /\ Window([h EXCEPT ![t] = x], r, got, b, t, c)
           /\ Window(h, [r EXCEPT ![t] = x], got, b, t, c)
<1>1. \A k \in 1 .. c : Back(t, k) \in Slots /\ Back(t, k) # t
  BY BackIs, Length
<1> DEFINE g == [h EXCEPT ![t] = x]
           q == [r EXCEPT ![t] = x]
<1>2. \A k \in 1 .. c : g[Back(t, k)] = h[Back(t, k)] /\ q[Back(t, k)] = r[Back(t, k)]
  BY <1>1
<1> HIDE DEF g, q
<1>3. Window(g, r, got, b, t, c)
  BY <1>2 DEF Window, Whole
<1>4. Window(h, q, got, b, t, c)
  BY <1>2 DEF Window, Whole
<1> QED BY <1>3, <1>4 DEF g, q

\* The tail moves over a whole message that is later than all of the window.
LEMMA WindowAdd ==
    ASSUME NEW h \in [Slots -> Nat], NEW r, NEW got, NEW b \in Int, NEW t \in Slots,
           NEW c \in 0 .. QueueLen - 1, Window(h, r, got, b, t, c),
           NEW e \in Int, b < e, h[t] = e, Whole(h, r, got, e, t)
    PROVE  Window(h, r, got, e, Succ(t), c + 1)
<1>1. QueueLen \in Nat \ {0}
  BY Length
<1>2. /\ Back(Succ(t), 1) = t
      /\ \A k \in 1 .. c : /\ Back(Succ(t), k + 1) = Back(t, k)
                           /\ h[Back(t, k)] \in Nat /\ h[Back(t, k)] <= b
                           /\ Whole(h, r, got, e, Back(t, k))
  <2>1. \A k \in 1 .. c : k \in 0 .. QueueLen - 1 /\ k \in 0 .. QueueLen
    BY <1>1
  <2>2. Window(h, r, got, e, t, c)
    BY <1>1, WindowLess
  <2> QED BY <2>1, <2>2, BackIs DEF Window, Whole
<1>3. \A k \in 1 .. c + 1 : k = 1 \/ (k - 1 \in 1 .. c /\ (k - 1) + 1 = k)
  BY <1>1
<1>4. ASSUME NEW k \in 1 .. c + 1
      PROVE  Whole(h, r, got, e, Back(Succ(t), k))
  BY <1>2, <1>3
<1>5. ASSUME NEW j \in 1 .. c + 1, NEW k \in 1 .. c + 1, j < k
      PROVE  h[Back(Succ(t), k)] < h[Back(Succ(t), j)]
  <2>1. k # 1
    BY <1>5
  <2>2. k - 1 \in 1 .. c /\ Back(Succ(t), k) = Back(t, k - 1)
    BY <1>2, <1>3, <2>1
  <2>3. CASE j = 1
    BY <1>2, <2>2, <2>3
  <2>4. CASE j # 1
    <3>1. j - 1 \in 1 .. c /\ Back(Succ(t), j) = Back(t, j - 1) /\ j - 1 < k - 1
      BY <1>2, <1>3, <1>5, <2>4
    <3> QED BY <2>2, <3>1 DEF Window
  <2> QED BY <2>3, <2>4
<1> QED BY <1>4, <1>5 DEF Window


\* The oldest message of the window is older than the rest of it.
LEMMA WindowOldest ==
    ASSUME NEW h \in [Slots -> Nat], NEW r, NEW got, NEW b, NEW t \in Slots,
           NEW c \in 1 .. QueueLen, Window(h, r, got, b, t, c)
    PROVE  /\ Whole(h, r, got, b, Back(t, c))
           /\ \A k \in 1 .. c - 1 : h[Back(t, c)] < h[Back(t, k)]
           /\ Window(h, r, got, b, t, c - 1)
<1>1. c \in 1 .. c /\ \A k \in 1 .. c - 1 : k \in 1 .. c /\ k < c
  OBVIOUS
<1> QED BY <1>1 DEF Window

\* A message older than all of the window is received.
LEMMA WindowReceive ==
    ASSUME NEW h, NEW r, NEW got, NEW b, NEW t, NEW c, Window(h, r, got, b, t, c), NEW x,
           \A k \in 1 .. c : x < h[Back(t, k)]
    PROVE  Window(h, r, x, b, t, c)
BY DEF Window, Whole

-----------------------------------------------------------------------------
\* What the indices say is in the ring.
LEMMA CountIs ==
    ASSUME Typed
    PROVE  Count = status + Dist(top, tail) /\ Count \in 0 .. QueueLen
<1>1. Dist(top, tail) \in 0 .. QueueLen - 1 /\ status \in {0, 1}
  BY DistIs DEF Typed
<1>2. Count = status + Dist(top, tail)
  BY DEF Count, Dist
<1> QED BY <1>1, <1>2, Length

\* While a dequeue is under way without a clash, the producers keep away from what it takes.
LEMMA Apart ==
    ASSUME Typed, Exclusion, ~Clash, reader # "idle"
    PROVE  /\ Phase \in {"rest", "tail"} => Count < QueueLen - 1
           /\ Phase = "full" => tail # top
           /\ Phase \notin {"sum", "top", "status"}
<1>1. CASE mutex = Nobody
  BY <1>1 DEF Phase
<1>2. CASE mutex # Nobody
  <2>1. mutex \in Producers /\ Phase = at[mutex] /\ Count \in Int /\ QueueLen \in Int
    BY <1>2, CountIs, Length DEF Typed, Phase
  <2>2. ~Overflows(mutex)
    BY <2>1 DEF Clash
  <2> HIDE DEF Count
  <2> QED BY <2>1, <2>2 DEF Overflows
<1> QED BY <1>1, <1>2

\* The number of messages, and what is received so far, in every state.
LEMMA Bounds ==
    ASSUME IInv
    PROVE  /\ Base \in 0 .. QueueLen /\ Kept \in 0 .. QueueLen
           /\ Phase \in {"rest", "tail"} => Kept \in 0 .. QueueLen - 1
           /\ Phase \in {"idle", "head", "unlock"} => Kept = Base
           /\ reader # "idle" => Kept = Base
           /\ Phase \in Places
           /\ Written \in Int
<1>1. Count \in 0 .. QueueLen /\ QueueLen \in Nat \ {0}
  BY CountIs, Length DEF IInv
<1>2. Base \in 0 .. QueueLen /\ Base \in Count .. Count + 1
  <2>1. reader \in {"head", "rest"} => Count < QueueLen
    BY DEF IInv, Taking
  <2> HIDE DEF Count
  <2> QED BY <1>1, <2>1 DEF Base
<1>3. Phase \in Places
  BY DEF IInv, Typed, Phase, Places
<1>4. /\ Kept \in 0 .. QueueLen
      /\ Phase \in {"rest", "tail"} => Kept \in 0 .. QueueLen - 1
      /\ Phase \in {"idle", "head", "unlock"} => Kept = Base
  <2> HIDE DEF Base, Phase
  <2>1. CASE Phase \in {"rest", "tail"}
    BY <1>1, <1>2, <2>1 DEF Kept
  <2>2. CASE Phase = "full"
    BY <1>1, <1>2, <2>2 DEF Kept
  <2>3. CASE Phase \in {"sum", "top", "status"}
    BY <1>1, <1>2, <2>3 DEF Kept
  <2>4. CASE Phase \in {"idle", "head", "unlock"}
    BY <1>2, <2>4 DEF Kept
  <2> QED BY <1>3, <2>1, <2>2, <2>3, <2>4 DEF Places
<1>5. ASSUME reader # "idle"
      PROVE  Kept = Base
  <2>1. /\ Phase \in {"rest", "tail"} => Count < QueueLen - 1
        /\ Phase = "full" => tail # top
        /\ Phase \notin {"sum", "top", "status"}
    BY <1>5, Apart DEF IInv
  <2> HIDE DEF Base, Phase, Count
  <2>2. CASE Phase \in {"rest", "tail"}
    BY <1>1, <1>2, <2>1, <2>2 DEF Kept
  <2>3. CASE Phase = "full"
    BY <2>1, <2>3 DEF Kept
  <2>4. CASE Phase \in {"idle", "head", "unlock"}
    BY <2>4 DEF Kept
  <2> QED BY <1>3, <2>1, <2>2, <2>3, <2>4 DEF Places
<1>6. Written \in Int
  BY DEF IInv, Typed, Written
<1> QED BY <1>2, <1>3, <1>4, <1>5, <1>6

\* The queue's start.
LEMMA InitIInv == Init => IInv
<1> SUFFICES ASSUME Init
             PROVE  IInv
  OBVIOUS
<1>1. Typed /\ Exclusion /\ ~Clash /\ Phase = "idle"
  BY Length, NobodyAssumption DEF Init, Typed, Places, Exclusion, Clash, Phase
<1>2. Base = 0 /\ Kept = 0 /\ Written = 0
  BY <1>1, Length DEF Init, Base, Count, Kept, Written
<1>3. Writing /\ Taking
  BY <1>1 DEF Init, Writing, Taking
<1>4. Window(head, rest, received, Written, tail, Kept) /\ received <= Written
  BY <1>2 DEF Init, Window
<1> QED BY <1>1, <1>3, <1>4 DEF IInv

-----------------------------------------------------------------------------
\* A step of a producer inside its call: it holds the mutex.
LEMMA Inside ==
    ASSUME IInv, NEW p \in Producers, NEW a \in Places \ {"idle"}, NEW b \in Places \ {"idle"},
           Go(p, a, b), mutex' = mutex, UNCHANGED consumer
    PROVE  /\ mutex = p /\ p # Nobody /\ Phase = a /\ Phase' = b
           /\ at' \in [Producers -> Places] /\ at'[p] = b /\ Exclusion'
           /\ UNCHANGED <<reader, target, first, readHead, received>>
<1>1. mutex = p /\ p # Nobody
  BY NobodyAssumption DEF IInv, Exclusion, Go, Places
<1>2. at \in [Producers -> Places]
  BY DEF IInv, Typed
<1>3. at' \in [Producers -> Places] /\ at'[p] = b /\ \A q \in Producers \ {p} : at'[q] = at[q]
  BY <1>2 DEF Go
<1>4. Phase = a /\ Phase' = b
  BY <1>1, <1>3 DEF Go, Phase
<1>5. Exclusion'
  BY <1>1, <1>3 DEF IInv, Exclusion, Go
<1> QED BY <1>1, <1>3, <1>4, <1>5 DEF consumer

\* The mutex is taken: a new message is to be written.
LEMMA LockStep ==
    ASSUME IInv, ~Clash', NEW p \in Producers, Lock(p)
    PROVE  IInv'
<1>1. /\ mutex = Nobody /\ mutex' = p /\ p # Nobody /\ sent' = sent + 1
      /\ at' = [at EXCEPT ![p] = "head"] /\ UNCHANGED <<sum, shared, consumer>>
  BY NobodyAssumption DEF Lock, Go
<1>2. /\ at \in [Producers -> Places] /\ \A q \in Producers : at[q] = "idle"
      /\ sent \in Nat
  BY <1>1, NobodyAssumption DEF IInv, Typed, Exclusion
<1>3. /\ at' \in [Producers -> Places] /\ at'[p] = "head"
      /\ \A q \in Producers \ {p} : at'[q] = "idle"
  BY <1>1, <1>2 DEF Places
<1>4. Phase = "idle" /\ Phase' = "head"
  BY <1>1, <1>3 DEF Phase
<1>5. Typed'
  BY <1>1, <1>2, <1>3 DEF IInv, Typed, shared, consumer
<1>6. Base' = Base /\ Count' = Count
  BY <1>1 DEF Base, Count, shared, consumer
<1>7. Exclusion'
  BY <1>1, <1>3 DEF Exclusion
<1>8. Taking'
  <2> HIDE DEF Base, Count
  <2> QED BY <1>1, <1>6 DEF IInv, Taking, shared, consumer
<1>9. Writing'
  BY <1>1, <1>2, <1>4 DEF Writing
<1>10. Kept' = Kept /\ Written' = Written
  <2> HIDE DEF Base, Phase
  <2>1. Kept' = Base' /\ Kept = Base
    BY <1>4 DEF Kept
  <2>2. Written' = Written
    BY <1>1, <1>2, <1>4 DEF Written
  <2> QED BY <1>6, <2>1, <2>2
<1>11. Window(head', rest', received', Written', tail', Kept') /\ received' <= Written'
  BY <1>1, <1>10 DEF IInv, shared, consumer
<1> QED BY <1>5, <1>7, <1>8, <1>9, <1>11 DEF IInv

\* The buffer at the tail is written, over the oldest message of a full ring.
LEMMA WriteStep ==
    ASSUME IInv, ~Clash', NEW p \in Producers, PutHead(p) \/ PutRest(p)
    PROVE  IInv'
<1>0. /\ Typed /\ Writing /\ Taking /\ Window(head, rest, received, Written, tail, Kept)
      /\ received <= Written /\ ~Clash
      /\ top \in Slots /\ tail \in Slots /\ head \in [Slots -> Nat] /\ rest \in [Slots -> Nat]
      /\ sent \in Nat /\ QueueLen \in Nat \ {0}
      /\ Base \in 0 .. QueueLen /\ Kept \in 0 .. QueueLen
      /\ Count \in 0 .. QueueLen /\ Base \in Count .. Count + 1
  BY Bounds, CountIs, Length DEF IInv, Typed, Base
<1>1. CASE PutHead(p)
  <2>1. /\ Phase = "head" /\ Phase' = "rest" /\ Exclusion' /\ at' \in [Producers -> Places]
        /\ at'[p] = "rest" /\ UNCHANGED <<reader, target, first, readHead, received>>
    BY <1>1, Inside DEF PutHead, Places
  <2>2. /\ head' = [head EXCEPT ![tail] = sent]
        /\ UNCHANGED <<top, tail, status, rest, mutex, sum, sent>>
    BY <1>1 DEF PutHead
  <2>3. Typed'
    BY <1>0, <2>1, <2>2 DEF Typed, Places
  <2>4. Writing'
    BY <1>0, <2>1, <2>2 DEF Writing
  <2>5. Written' = Written
    BY <2>1, <2>2 DEF Written
  <2>6. Base' = Base /\ Count' = Count
    BY <2>1, <2>2 DEF Base, Count
  <2>7. Kept' \in 0 .. QueueLen - 1 /\ Kept' \in 0 .. Kept
    <3>1. Kept = Base
      BY <2>1, Bounds
    <3> HIDE DEF Base, Phase
    <3>2. Kept' = IF Base' = QueueLen THEN QueueLen - 1 ELSE Base'
      BY <2>1 DEF Kept
    <3> QED BY <1>0, <2>6, <3>1, <3>2
  <2>8. Window(head', rest, received, Written, tail, Kept')
    <3>1. Window(head, rest, received, Written, tail, Kept')
      BY <1>0, <2>7, Bounds, WindowLess
    <3> QED BY <1>0, <2>2, <2>7, <3>1, WindowWrite
  \* the buffer the consumer reads is another one
  <2>9. reader = "rest" => target # tail
    <3>1. SUFFICES ASSUME reader = "rest"
                   PROVE  target # tail
      OBVIOUS
    <3>2. ~Overflows(p)' /\ target = Back(tail, Base) /\ Base = Count + 1
      BY <1>0, <2>1, <3>1 DEF Clash, Taking, Base
    <3> HIDE DEF Base, Count
    <3>3. Base \in 1 .. QueueLen - 1
      BY <1>0, <2>1, <2>6, <3>2 DEF Overflows
    <3> QED BY <1>0, <3>2, <3>3, BackIs
  <2>10. Taking'
    <3>1. reader = "rest" => head'[target] = head[target]
      BY <1>0, <2>2, <2>9 DEF Typed
    <3> HIDE DEF Base, Count
    <3> QED BY <1>0, <2>1, <2>2, <2>6, <3>1 DEF Taking
  <2> QED BY <1>0, <2>1, <2>2, <2>3, <2>4, <2>5, <2>8, <2>10 DEF IInv
<1>2. CASE PutRest(p)
  <2>1. /\ Phase = "rest" /\ Phase' = "tail" /\ Exclusion' /\ at' \in [Producers -> Places]
        /\ UNCHANGED <<reader, target, first, readHead, received>>
    BY <1>2, Inside DEF PutRest, Places
  <2>2. /\ rest' = [rest EXCEPT ![tail] = sent]
        /\ UNCHANGED <<top, tail, status, head, mutex, sum, sent>>
    BY <1>2 DEF PutRest
  <2>3. Typed'
    BY <1>0, <2>1, <2>2 DEF Typed, Places
  <2>4. Writing'
    BY <1>0, <2>1, <2>2 DEF Writing
  <2>5. Written' = Written
    BY <2>1, <2>2 DEF Written
  <2>6. Base' = Base /\ Count' = Count
    BY <2>1, <2>2 DEF Base, Count
  <2>7. Kept' = Kept /\ Kept \in 0 .. QueueLen - 1
    <3>1. Kept \in 0 .. QueueLen - 1
      BY <2>1, Bounds
    <3> HIDE DEF Base, Phase
    <3> QED BY <2>1, <2>6, <3>1 DEF Kept
  <2>8. Window(head, rest', received, Written, tail, Kept)
    BY <1>0, <2>2, <2>7, WindowWrite
  <2>9. Taking'
    <3> HIDE DEF Base, Count
    <3> QED BY <1>0, <2>1, <2>2, <2>6 DEF Taking
  <2> QED BY <1>0, <2>1, <2>2, <2>3, <2>4, <2>5, <2>7, <2>8, <2>9 DEF IInv
<1> QED BY <1>1, <1>2

\* The tail moves on: the new message belongs to the ring, whose oldest may be lost.
LEMMA TailStep ==
    ASSUME IInv, ~Clash', NEW p \in Producers, PutTail(p)
    PROVE  IInv'
<1>1. /\ Phase = "tail" /\ Phase' = "full" /\ Exclusion' /\ at' \in [Producers -> Places]
      /\ UNCHANGED <<reader, target, first, readHead, received>>
  BY Inside DEF PutTail, Places
<1>2. tail' = Succ(tail) /\ UNCHANGED <<top, status, head, rest, mutex, sum, sent>>
  BY DEF PutTail
<1>3. /\ Typed /\ Exclusion /\ ~Clash /\ Writing /\ Taking
      /\ Window(head, rest, received, Written, tail, Kept) /\ received <= Written
      /\ top \in Slots /\ tail \in Slots /\ head \in [Slots -> Nat] /\ sent \in Nat
      /\ status \in {0, 1} /\ received \in Nat /\ QueueLen \in Nat \ {0}
      /\ Base \in 0 .. QueueLen /\ Kept \in 0 .. QueueLen - 1
      /\ Count \in 0 .. QueueLen /\ Base \in Count .. Count + 1
  BY <1>1, Bounds, CountIs, Length DEF IInv, Typed, Base
<1>4. Typed'
  BY <1>1, <1>2, <1>3, SuccIs DEF Typed, Places
<1>5. Writing'
  BY <1>1, <1>2, <1>3 DEF Writing
<1>6. Written' = sent /\ Written = sent - 1
  BY <1>1, <1>2 DEF Written
<1> DEFINE d == Dist(top, tail)
           e == Dist(top, Succ(tail))
<1>7. /\ d \in 0 .. QueueLen - 1 /\ e \in 0 .. QueueLen - 1
      /\ e = IF top = Succ(tail) THEN 0 ELSE d + 1
      /\ top = Succ(tail) => d = QueueLen - 1
      /\ Count = status + d /\ Count' = status + e
  <2>1. Count = status + Dist(top, tail) /\ Count' = status + Dist(top, Succ(tail))
    BY <1>2 DEF Count, Dist
  <2> QED BY <1>3, <2>1, DistIs, SuccIs
<1>8. reader # "idle" => Count < QueueLen - 1
  BY <1>1, <1>3, Apart
\* the ring grows by one message while a dequeue is under way
<1>9. reader # "idle" => /\ Count' = Count + 1 /\ Base' = Base + 1 /\ Base < QueueLen
                         /\ top # Succ(tail)
  <2> HIDE DEF d, e, Count
  <2> QED BY <1>1, <1>3, <1>7, <1>8 DEF Base
<1>10. Kept' = Kept + 1
  <2>1. Kept = IF Base = QueueLen THEN QueueLen - 1 ELSE Base
    <3> HIDE DEF Base, Phase
    <3> QED BY <1>1 DEF Kept
  <2>2. Kept' = IF Succ(tail) = top THEN QueueLen ELSE Base'
    <3> HIDE DEF Base, Phase
    <3> QED BY <1>1, <1>2 DEF Kept
  <2>3. reader = "idle" => Base = Count /\ Base' = Count'
    BY <1>1, <1>3, <1>7 DEF Base
  <2> HIDE DEF d, e, Count, Base, Kept
  <2>4. CASE reader # "idle"
    BY <1>3, <1>9, <2>1, <2>2, <2>4
  <2>5. CASE reader = "idle" /\ top = Succ(tail)
    BY <1>3, <1>7, <2>1, <2>2, <2>3, <2>5
  <2>6. CASE reader = "idle" /\ top # Succ(tail)
    BY <1>3, <1>7, <2>1, <2>2, <2>3, <2>6
  <2> QED BY <2>4, <2>5, <2>6
<1>11. Whole(head, rest, received, sent, tail) /\ head[tail] = sent
  <2>1. head[tail] = sent /\ rest[tail] = sent
    BY <1>1, <1>3 DEF Writing
  <2> QED BY <1>3, <1>6, <2>1 DEF Whole
<1>12. Window(head, rest, received, sent, Succ(tail), Kept + 1) /\ received <= sent
  BY <1>3, <1>6, <1>11, WindowAdd
<1>13. Taking'
  <2>1. reader # "idle" => Back(Succ(tail), Base + 1) = Back(tail, Base)
    BY <1>3, <1>9, BackIs
  <2> HIDE DEF d, e, Count, Base
  <2> QED BY <1>1, <1>2, <1>3, <1>8, <1>9, <2>1 DEF Taking
<1> QED BY <1>1, <1>2, <1>4, <1>5, <1>6, <1>10, <1>12, <1>13 DEF IInv

\* The rest of qs_enqueue: the ring was full or not, and top and status say so.
LEMMA FullStep ==
    ASSUME IInv, ~Clash', NEW p \in Producers,
           IsFull(p) \/ SumTop(p) \/ PutTop(p) \/ PutStatus(p)
    PROVE  IInv'
<1>1. /\ Typed /\ Exclusion /\ ~Clash /\ Writing /\ Taking
      /\ Window(head, rest, received, Written, tail, Kept) /\ received <= Written
      /\ top \in Slots /\ tail \in Slots /\ sum \in Slots /\ sent \in Nat
  BY DEF IInv, Typed
<1>2. Phase \in {"sum", "top", "status"} => reader = "idle"
  BY <1>1, Apart
\* the window stays, with as many messages in it
<1>3. ASSUME Exclusion', Taking', Typed', Writing',
             UNCHANGED <<tail, head, rest, sent, received>>, Kept' = Kept,
             Phase \in {"full", "sum", "top", "status"},
             Phase' \in {"full", "sum", "top", "status", "unlock"}
      PROVE  IInv'
  <2>1. Written' = Written
    BY <1>3 DEF Written
  <2> QED BY <1>1, <1>3, <2>1 DEF IInv
<1>4. CASE IsFull(p)
  <2> DEFINE b == IF tail = top THEN "sum" ELSE "unlock"
  <2>1. /\ Phase = "full" /\ Phase' = b /\ Exclusion' /\ at' \in [Producers -> Places]
        /\ UNCHANGED <<reader, target, first, readHead, received>>
    BY <1>4, Inside DEF IsFull, Places
  <2>2. UNCHANGED <<top, tail, status, head, rest, mutex, sum, sent>>
    BY <1>4 DEF IsFull, shared
  <2>3. Typed'
    BY <1>1, <2>1, <2>2 DEF Typed, Places
  <2>4. Writing'
    BY <1>1, <2>1, <2>2 DEF Writing
  <2>5. Base' = Base /\ Count' = Count
    BY <2>1, <2>2 DEF Base, Count
  <2>6. Kept' = Kept
    <3> HIDE DEF Base, Phase
    <3> QED BY <2>1, <2>2, <2>5 DEF Kept
  <2>7. Taking'
    <3> HIDE DEF Base, Count
    <3> QED BY <1>1, <2>1, <2>2, <2>5 DEF Taking
  <2> QED BY <1>3, <2>1, <2>2, <2>3, <2>4, <2>6, <2>7
<1>5. CASE SumTop(p)
  <2>1. /\ Phase = "sum" /\ Phase' = "top" /\ Exclusion' /\ at' \in [Producers -> Places]
        /\ UNCHANGED <<reader, target, first, readHead, received>>
    BY <1>5, Inside DEF SumTop, Places
  <2>2. sum' = Succ(top) /\ UNCHANGED <<top, tail, status, head, rest, mutex, sent>>
    BY <1>5 DEF SumTop, shared
  <2>3. Typed'
    BY <1>1, <2>1, <2>2, SuccIs DEF Typed, Places
  <2>4. Writing' /\ Taking'
    BY <1>1, <1>2, <2>1, <2>2 DEF Writing, Taking
  <2>5. Kept' = Kept
    <3> HIDE DEF Base, Phase
    <3> QED BY <2>1 DEF Kept
  <2> QED BY <1>3, <2>1, <2>2, <2>3, <2>4, <2>5
<1>6. CASE PutTop(p)
  <2>1. /\ Phase = "top" /\ Phase' = "status" /\ Exclusion' /\ at' \in [Producers -> Places]
        /\ UNCHANGED <<reader, target, first, readHead, received>>
    BY <1>6, Inside DEF PutTop, Places
  <2>2. top' = sum /\ UNCHANGED <<tail, status, head, rest, mutex, sum, sent>>
    BY <1>6 DEF PutTop
  <2>3. Typed'
    BY <1>1, <2>1, <2>2 DEF Typed, Places
  <2>4. Writing' /\ Taking'
    BY <1>1, <1>2, <2>1, <2>2 DEF Writing, Taking
  <2>5. Kept' = Kept
    <3> HIDE DEF Base, Phase
    <3> QED BY <2>1 DEF Kept
  <2> QED BY <1>3, <2>1, <2>2, <2>3, <2>4, <2>5
<1>7. CASE PutStatus(p)
  <2>1. /\ Phase = "status" /\ Phase' = "unlock" /\ Exclusion' /\ at' \in [Producers -> Places]
        /\ UNCHANGED <<reader, target, first, readHead, received>>
    BY <1>7, Inside DEF PutStatus, Places
  <2>2. status' = 1 /\ UNCHANGED <<top, tail, head, rest, mutex, sum, sent>>
    BY <1>7 DEF PutStatus
  <2>3. Typed'
    BY <1>1, <2>1, <2>2 DEF Typed, Places
  <2>4. Writing' /\ Taking'
    BY <1>1, <1>2, <2>1, <2>2 DEF Writing, Taking
  <2>5. Kept' = Kept
    <3>1. top = Succ(tail) /\ reader = "idle"
      BY <1>1, <1>2, <2>1 DEF Writing
    <3>2. Dist(top, tail) = QueueLen - 1
      BY <1>1, <3>1, DistIs
    <3>3. Count' = 1 + Dist(top, tail)
      BY <2>2 DEF Count, Dist
    <3>4. Base' = QueueLen
      BY <2>1, <3>1, <3>2, <3>3, Length DEF Base
    <3> HIDE DEF Base, Phase
    <3>5. Kept = QueueLen /\ Kept' = Base'
      BY <2>1 DEF Kept
    <3> QED BY <3>4, <3>5
  <2> QED BY <1>3, <2>1, <2>2, <2>3, <2>4, <2>5
<1> QED BY <1>4, <1>5, <1>6, <1>7

\* The mutex is given back.
LEMMA UnlockStep ==
    ASSUME IInv, ~Clash', NEW p \in Producers, Unlock(p)
    PROVE  IInv'
<1>1. /\ mutex = p /\ p # Nobody /\ at[p] = "unlock"
      /\ at' = [at EXCEPT ![p] = "idle"] /\ mutex' = Nobody
      /\ UNCHANGED <<sum, sent, shared, consumer>>
  BY NobodyAssumption DEF IInv, Exclusion, Unlock, Go
<1>2. at \in [Producers -> Places] /\ \A q \in Producers \ {p} : at[q] = "idle"
  BY <1>1 DEF IInv, Typed, Exclusion
<1>3. at' \in [Producers -> Places] /\ \A q \in Producers : at'[q] = "idle"
  BY <1>1, <1>2 DEF Places
<1>4. Phase = "unlock" /\ Phase' = "idle"
  BY <1>1 DEF Phase
<1>5. Typed'
  BY <1>1, <1>3 DEF IInv, Typed, shared, consumer
<1>6. Exclusion' /\ Writing'
  BY <1>1, <1>3, <1>4, NobodyAssumption DEF Exclusion, Writing
<1>7. Base' = Base /\ Count' = Count
  BY <1>1 DEF Base, Count, shared, consumer
<1>8. Taking'
  <2> HIDE DEF Base, Count
  <2> QED BY <1>1, <1>7 DEF IInv, Taking, shared, consumer
<1>9. Kept' = Kept /\ Written' = Written
  <2> HIDE DEF Base, Phase
  <2>1. Kept' = Base' /\ Kept = Base
    BY <1>4 DEF Kept
  <2>2. Written' = Written
    BY <1>1, <1>4 DEF Written
  <2> QED BY <1>7, <2>1, <2>2
<1>10. Window(head', rest', received', Written', tail', Kept') /\ received' <= Written'
  BY <1>1, <1>9 DEF IInv, shared, consumer
<1> QED BY <1>5, <1>6, <1>8, <1>10 DEF IInv

-----------------------------------------------------------------------------
\* A step of a dequeue leaves the producers where they are, and the messages kept are those
\* the indices and the consumer speak of.
LEMMA Consuming ==
    ASSUME IInv, ~Clash', reader # "idle" \/ reader' # "idle",
           UNCHANGED producer, UNCHANGED <<tail, head, rest>>,
           Base' \in Int, Count' \in Int, Base' = Count' \/ Base' = Count' + 1,
           reader' = "idle" => top' = top /\ Base' <= Base,
           Phase \in {"sum", "top", "status"} => top' = top
    PROVE  /\ Kept' = Base' /\ Written' = Written
           /\ Exclusion' /\ Writing'
<1>1. /\ mutex' = mutex /\ at' = at /\ sum' = sum /\ sent' = sent /\ Phase' = Phase
      /\ Phase \in Places /\ QueueLen \in Nat \ {0}
  BY Bounds, Length DEF producer, Phase
<1>2. Exclusion' /\ Writing' /\ Written' = Written
  BY <1>1 DEF IInv, Exclusion, Writing, Written
<1>3. /\ Phase \in {"rest", "tail"} => Base' < QueueLen
      /\ Phase = "full" => tail' # top'
      /\ Phase \notin {"sum", "top", "status"}
  <2>1. CASE reader' = "idle"
    <3>1. /\ Phase \in {"rest", "tail"} => Count < QueueLen - 1
          /\ Phase = "full" => tail # top
          /\ Phase \notin {"sum", "top", "status"}
      BY <2>1, Apart DEF IInv
    <3>2. Count \in 0 .. QueueLen /\ Base \in Count .. Count + 1
      BY CountIs DEF IInv, Base
    <3> HIDE DEF Count, Base, Phase
    <3> QED BY <1>1, <2>1, <3>1, <3>2
  <2>2. CASE reader' # "idle" /\ mutex = Nobody
    BY <2>2 DEF Phase
  <2>3. CASE reader' # "idle" /\ mutex # Nobody
    <3>1. PICK p \in Producers : mutex = p /\ Phase = at[p]
      BY <2>3 DEF IInv, Typed, Phase
    <3>2. ~Overflows(p)' /\ at'[p] = Phase
      BY <1>1, <2>3, <3>1 DEF Clash
    <3>3. /\ Phase \in {"rest", "tail"} => ~(Count' >= QueueLen - 1)
          /\ Phase = "full" => tail' # top'
          /\ Phase \notin {"sum", "top", "status"}
      <4> HIDE DEF Count, Base, Phase
      <4> QED BY <3>2 DEF Overflows
    <3>4. ASSUME Phase \in {"rest", "tail"}
          PROVE  Base' < QueueLen
      <4> HIDE DEF Count, Base, Phase
      <4>1. PICK c \in Int : c = Count'
        OBVIOUS
      <4>2. ~(c >= QueueLen - 1)
        BY <3>3, <3>4, <4>1
      <4>3. c < QueueLen - 1
        BY ONLY <1>1, <4>2, c \in Int
      <4>4. Base' = c \/ Base' = c + 1
        BY <4>1
      <4> QED BY ONLY <1>1, <4>3, <4>4, c \in Int
    <3> QED BY <3>3, <3>4
  <2> QED BY <2>1, <2>2, <2>3
<1>4. Kept' = Base'
  <2> HIDE DEF Base, Phase
  <2>1. CASE Phase \in {"rest", "tail"}
    BY <1>1, <1>3, <2>1 DEF Kept
  <2>2. CASE Phase = "full"
    BY <1>1, <1>3, <2>2 DEF Kept
  <2>3. CASE Phase \in {"idle", "head", "unlock"}
    BY <1>1, <2>3 DEF Kept
  <2> QED BY <1>1, <1>3, <2>1, <2>2, <2>3 DEF Places
<1> QED BY <1>2, <1>4

\* The dequeue begins.
LEMMA StartStep ==
    ASSUME IInv, ~Clash', Start
    PROVE  IInv'
<1>1. /\ reader = "idle" /\ reader' = "target" /\ first' = top
      /\ UNCHANGED <<target, readHead, received, shared, producer>>
  BY DEF Start, Read
<1>2. UNCHANGED <<top, tail, status, head, rest, mutex, at, sum, sent>>
  BY <1>1 DEF shared, producer
<1>3. Base' = Base /\ Phase' = Phase
  BY <1>1, <1>2 DEF Base, Count, Phase
<1>4. Kept' = Kept /\ Written' = Written
  <2> HIDE DEF Base, Phase
  <2> QED BY <1>2, <1>3 DEF Kept, Written
<1>5. Typed' /\ Exclusion' /\ Writing' /\ Taking'
  BY <1>1, <1>2, <1>3 DEF IInv, Typed, Exclusion, Writing, Taking
<1> QED BY <1>1, <1>2, <1>4, <1>5 DEF IInv

\* The steps of the consumer that only read the indices and the head of the buffer.
LEMMA LookStep ==
    ASSUME IInv, ~Clash',
           SetTarget \/ TopAgain \/ IsEmpty \/ IsLast \/ SumNext \/ TakeHead
    PROVE  IInv'
<1>1. /\ UNCHANGED <<shared, producer>> /\ received' = received /\ reader # "idle"
      /\ reader' \in {"head", "rest"} <=> reader \in {"head", "rest"}
  BY DEF SetTarget, TopAgain, IsEmpty, IsLast, SumNext, TakeHead, Read
<1>2. UNCHANGED <<top, tail, status, head, rest, mutex, at, sum, sent>>
  BY <1>1 DEF shared, producer
<1>3. Base' = Base /\ Count' = Count
  BY <1>1, <1>2 DEF Base, Count
<1>4. /\ Typed /\ Taking /\ Base \in 0 .. QueueLen /\ Kept = Base
      /\ Count \in Int /\ (Base = Count \/ Base = Count + 1)
  BY <1>1, Bounds, CountIs DEF IInv, Base
<1>5. Kept' = Base' /\ Written' = Written /\ Exclusion' /\ Writing'
  <2> HIDE DEF Base, Count
  <2> QED BY <1>1, <1>2, <1>3, <1>4, Consuming
<1>6. Typed' /\ Taking'
  <2>0. Base = Count + (IF reader \in {"head", "rest"} THEN 1 ELSE 0)
    BY DEF Base
  <2> HIDE DEF Base, Count
  <2>1. CASE SetTarget
    <3>1. /\ reader = "target" /\ reader' = "again" /\ first' = first /\ readHead' = readHead
          /\ target' = IF first - status < 0 THEN QueueLen - 1 ELSE first - status
      BY <2>1 DEF SetTarget, Read
    <3>2. first = top /\ top \in Slots /\ tail \in Slots /\ status \in {0, 1}
      BY <1>4, <3>1 DEF Taking, Typed
    <3>3. Base = status + Dist(top, tail)
      BY <1>4, <2>0, <3>1, CountIs
    <3>4. target' = Back(tail, Base)
      BY <3>1, <3>2, <3>3, DistIs
    <3>5. target' \in Slots
      BY <1>4, <3>2, <3>4, BackIs
    <3>6. Typed'
      BY <1>1, <1>2, <1>4, <3>1, <3>5 DEF Typed
    <3> QED BY <1>2, <1>3, <3>1, <3>4, <3>6 DEF Taking
  <2>2. CASE TopAgain
    <3>1. /\ reader = "again" /\ reader' = "empty" /\ first' = top /\ target' = target
          /\ readHead' = readHead
      BY <2>2 DEF TopAgain, Read
    <3> QED BY <1>1, <1>2, <1>3, <1>4, <3>1 DEF Typed, Taking
  <2>3. CASE IsEmpty
    <3>1. /\ reader = "empty" /\ reader' = IF first = tail THEN "last" ELSE "sum"
          /\ first' = first /\ target' = target /\ readHead' = readHead
      BY <2>3 DEF IsEmpty, Read
    <3> QED BY <1>1, <1>2, <1>3, <1>4, <3>1 DEF Typed, Taking
  <2>4. CASE IsLast
    <3>1. /\ reader = "last" /\ reader' = IF status = 1 THEN "clear" ELSE "idle"
          /\ first' = first /\ target' = target /\ readHead' = readHead
      BY <2>4 DEF IsLast, Read
    <3> QED BY <1>1, <1>2, <1>3, <1>4, <3>1 DEF Typed, Taking
  <2>5. CASE SumNext
    <3>1. /\ reader = "sum" /\ reader' = "top" /\ first' = Succ(top) /\ target' = target
          /\ readHead' = readHead
      BY <2>5 DEF SumNext, Read
    <3>2. Succ(top) \in Slots
      BY <1>4, SuccIs DEF Typed
    <3> QED BY <1>1, <1>2, <1>3, <1>4, <3>1, <3>2 DEF Typed, Taking
  <2>6. CASE TakeHead
    <3>1. /\ reader = "head" /\ reader' = "rest" /\ readHead' = head[target]
          /\ target' = target /\ first' = first
      BY <2>6 DEF TakeHead, Read
    <3>2. Typed'
      BY <1>1, <1>2, <1>4, <3>1 DEF Typed
    <3> QED BY <1>1, <1>2, <1>3, <1>4, <3>1, <3>2 DEF Taking
  <2> QED BY <2>1, <2>2, <2>3, <2>4, <2>5, <2>6
<1> QED BY <1>1, <1>2, <1>3, <1>4, <1>5, <1>6 DEF IInv

\* The oldest message is counted out of the ring, and is the one the consumer reads.
LEMMA TakeStep ==
    ASSUME IInv, ~Clash', ClearStatus \/ TakeTop
    PROVE  IInv'
<1>1. /\ reader \in {"clear", "top"} /\ reader' = "head"
      /\ UNCHANGED <<tail, head, rest, target, first, readHead, received, producer>>
  BY DEF ClearStatus, TakeTop, Read
<1>2. mutex' = mutex /\ at' = at /\ sum' = sum /\ sent' = sent
  BY <1>1 DEF producer
<1>3. /\ Typed /\ Taking /\ top \in Slots /\ tail \in Slots /\ status \in {0, 1}
      /\ Base \in 0 .. QueueLen /\ Kept = Base /\ Count \in 0 .. QueueLen
      /\ Phase \notin {"sum", "top", "status"} /\ QueueLen \in Nat \ {0}
  BY <1>1, Bounds, CountIs, Apart, Length DEF IInv, Typed
<1>4. Typed' /\ Count' = Count - 1
  <2>1. Count = status + Dist(top, tail) /\ Count' = status' + Dist(top', tail')
        /\ Dist(top, tail) \in 0 .. QueueLen - 1
    BY <1>3, CountIs, DistIs DEF Count, Dist
  <2>2. CASE ClearStatus
    <3>1. status = 1 /\ status' = 0 /\ top' = top
      BY <1>3, <2>2 DEF ClearStatus, Read, Taking
    <3>2. Typed'
      BY <1>1, <1>2, <1>3, <3>1 DEF Typed
    <3> HIDE DEF Count
    <3> QED BY <1>1, <2>1, <3>1, <3>2
  <2>3. CASE TakeTop
    <3>1. /\ reader = "top" /\ top' = first /\ status' = status
      BY <2>3 DEF TakeTop, Read
    <3>2. top # tail /\ top' = Succ(top)
      BY <1>3, <3>1 DEF Taking
    <3>3. Dist(Succ(top), tail) = Dist(top, tail) - 1
      BY <1>3, <3>2, DistIs
    <3>4. Typed'
      BY <1>1, <1>2, <1>3, <3>1 DEF Typed
    <3> HIDE DEF Count
    <3> QED BY <1>1, <1>3, <2>1, <3>1, <3>2, <3>3, <3>4
  <2> QED BY <2>2, <2>3
<1>5. Base = Count /\ Base' = Count' + 1
  BY <1>1, <1>3 DEF Base
<1>6. Base' = Base /\ Count' \in Int /\ (Base' = Count' \/ Base' = Count' + 1)
      /\ Base' \in Int /\ Count' < QueueLen
  <2> HIDE DEF Count, Base
  <2> QED BY <1>3, <1>4, <1>5
<1>7. Kept' = Base' /\ Written' = Written /\ Exclusion' /\ Writing'
  <2> HIDE DEF Count, Base, Phase
  <2> QED BY <1>1, <1>3, <1>6, Consuming
<1>8. Taking'
  <2> HIDE DEF Count, Base
  <2> QED BY <1>1, <1>3, <1>6 DEF Taking
<1> QED BY <1>1, <1>2, <1>3, <1>4, <1>6, <1>7, <1>8 DEF IInv

\* The buffer the consumer is about to finish reading holds a whole message, later than
\* those received before and older than the others kept.
LEMMA Oldest ==
    ASSUME IInv, reader = "rest"
    PROVE  /\ Kept = Base /\ Base \in 1 .. QueueLen /\ Base = Count + 1
           /\ readHead = head[target] /\ Whole(head, rest, received, Written, target)
           /\ \A k \in 1 .. Base - 1 : head[target] < head[Back(tail, k)]
           /\ Window(head, rest, received, Written, tail, Base - 1)
<1>1. /\ Kept = Base /\ Base \in 0 .. QueueLen /\ Count \in 0 .. QueueLen /\ Base = Count + 1
      /\ readHead = head[target] /\ target = Back(tail, Base)
      /\ tail \in Slots /\ head \in [Slots -> Nat]
      /\ Window(head, rest, received, Written, tail, Base)
  BY Bounds, CountIs DEF IInv, Typed, Taking, Base
<1> HIDE DEF Base, Count
<1>2. Base \in 1 .. QueueLen
  BY <1>1
<1> QED BY <1>1, <1>2, WindowOldest

\* The message is received.
LEMMA ReceiveStep ==
    ASSUME IInv, ~Clash', TakeRest
    PROVE  IInv'
<1>1. /\ reader = "rest" /\ reader' = "idle" /\ received' = rest[target]
      /\ UNCHANGED <<target, first, readHead, shared, producer>>
  BY DEF TakeRest, Read
<1>2. UNCHANGED <<top, tail, status, head, rest, mutex, at, sum, sent>>
  BY <1>1 DEF shared, producer
<1>3. /\ Kept = Base /\ Base \in 1 .. QueueLen /\ Base = Count + 1
      /\ Whole(head, rest, received, Written, target)
      /\ \A k \in 1 .. Base - 1 : head[target] < head[Back(tail, k)]
      /\ Window(head, rest, received, Written, tail, Base - 1)
      /\ Typed /\ Count \in 0 .. QueueLen
  BY <1>1, Oldest, CountIs DEF IInv
<1>4. Count' = Count /\ Base' = Base - 1
  <2>1. Count' = Count
    BY <1>2 DEF Count
  <2>2. Base' = Count'
    BY <1>1, <1>3, <2>1 DEF Base
  <2> HIDE DEF Count, Base
  <2> QED BY <1>3, <2>1, <2>2
<1>5. Kept' = Base' /\ Written' = Written /\ Exclusion' /\ Writing'
  <2> HIDE DEF Count, Base
  <2>1. /\ Base' \in Int /\ Count' \in Int /\ (Base' = Count' \/ Base' = Count' + 1)
        /\ Base' <= Base
    BY <1>3, <1>4, Length
  <2> QED BY <1>1, <1>2, <2>1, Consuming
<1>6. received' = head[target] /\ received' <= Written
  BY <1>1, <1>3 DEF Whole
<1>7. Window(head, rest, received', Written, tail, Base - 1)
  <2> HIDE DEF Base, Written
  <2> QED BY <1>3, <1>6, WindowReceive
<1>8. Typed'
  BY <1>1, <1>2, <1>3 DEF Typed
<1>9. Taking'
  BY <1>1 DEF Taking
<1> QED BY <1>2, <1>4, <1>5, <1>6, <1>7, <1>8, <1>9 DEF IInv

-----------------------------------------------------------------------------
\* The inductive invariant holds in every state before a clash.
THEOREM Invariance == Spec => [](clashed \/ IInv)
<1>1. Init => clashed \/ IInv
  BY InitIInv
<1>2. (clashed \/ IInv) /\ [Next]_vars => (clashed \/ IInv)'
  <2> SUFFICES ASSUME clashed \/ IInv, [Next]_vars, ~clashed'
               PROVE  IInv'
    OBVIOUS
  <2>1. CASE Next
    <3>1. ~clashed /\ ~Clash'
      BY <2>1 DEF Next, Watch
    <3>2. IInv
      BY <3>1
    <3>3. ASSUME NEW p \in Producers, Enqueue(p)
          PROVE  IInv'
      BY <3>1, <3>2, <3>3, LockStep, WriteStep, TailStep, FullStep, UnlockStep DEF Enqueue
    <3>4. CASE Dequeue
      BY <3>1, <3>2, <3>4, StartStep, LookStep, TakeStep, ReceiveStep DEF Dequeue
    <3> QED BY <2>1, <3>3, <3>4 DEF Next
  <2>2. CASE UNCHANGED vars
    <3>1. UNCHANGED <<top, tail, status, head, rest, mutex, at, sum, sent, reader, target, first,
                      readHead, received, clashed>>
      BY <2>2 DEF vars, shared, producer, consumer
    <3>2. Phase' = Phase /\ Count' = Count /\ Base' = Base
      BY <3>1 DEF Phase, Count, Base
    <3>3. Kept' = Kept /\ Written' = Written
      <4> HIDE DEF Phase, Base
      <4> QED BY <3>1, <3>2 DEF Kept, Written
    <3>4. IInv
      BY <3>1
    <3>5. Typed' /\ Exclusion' /\ Writing' /\ Taking' /\ ~Clash'
      <4> HIDE DEF Phase, Base, Count
      <4> QED BY <3>1, <3>2, <3>4
            DEF IInv, Typed, Exclusion, Writing, Taking, Clash, Overflows
    <3> QED BY <3>1, <3>3, <3>4, <3>5 DEF IInv
  <2> QED BY <2>1, <2>2
<1> QED BY <1>1, <1>2, PTL DEF Spec

\* The consumer reads whole messages, each at most once and in the order in which their
\* producers got the mutex, however many of them it misses because the ring overflows and
\* however its calls and theirs overlap, as long as no overlap was a clash.
THEOREM ReceivedInOrderAlways == Spec => ReceivedInOrder
<1>1. (clashed \/ IInv) => (reader = "rest" /\ reader' # "rest" /\ ~clashed
                              => readHead = rest[target] /\ received < rest[target])
  BY Oldest DEF Whole
<1> QED BY <1>1, Invariance, PTL DEF ReceivedInOrder

=============================================================================
