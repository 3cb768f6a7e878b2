-------------------------- MODULE MessageQueueProofs --------------------------
(***************************************************************************)
(* The message queue is a drop-oldest queue, for every number of buffers.   *)
(*                                                                          *)
(* What the three indices mean is said by Window: the c messages found from *)
(* slot h on around the ring.  Three lemmas about windows (what one is, how *)
(* it grows at the end, how it loses its first message) do the work; the    *)
(* steps of the queue are then linear arithmetic over the indices.          *)
(***************************************************************************)
EXTENDS MessageQueue, SequenceTheorems, TLAPS

Contents == Message \cup {Nothing}

\* as long as the handle is not cleared, every slot the loop has passed has a buffer;
\* nothing is kept without a handle or before the loop has ended
IInv ==
    /\ TypeOK
    /\ made => \A i \in Slots : i < making => slots[i] # Nothing
    /\ ~Ready => top = tail /\ status = 0

-----------------------------------------------------------------------------
\* The index after i is i + 1, or 0 at the end of the ring.
LEMMA SuccIs ==
    \A i \in Slots : Succ(i) \in Slots /\ Succ(i) = (IF i = QueueLen - 1 THEN 0 ELSE i + 1)
BY QueueAssumption DEF Slots, Succ

\* An index less than two turns on is a slot.
LEMMA WrapSlot ==
    \A i \in 0 .. (2 * QueueLen - 1) : Wrap(i) \in Slots
BY QueueAssumption DEF Slots, Wrap

\* A window is a sequence of c messages.
LEMMA WindowSeq ==
    ASSUME NEW sl \in [Slots -> Contents], NEW h \in Slots, NEW c \in 0 .. QueueLen
    PROVE  /\ Window(sl, h, c) \in Seq(Contents)
           /\ Len(Window(sl, h, c)) = c
           /\ \A k \in 1 .. c : Window(sl, h, c)[k] = sl[Wrap(h + (k - 1))]
<1>1. c \in Nat /\ h \in Nat /\ QueueLen \in Nat
  BY QueueAssumption DEF Slots
<1>2. \A k \in 1 .. c : h + (k - 1) \in 0 .. (2 * QueueLen - 1)
  BY <1>1 DEF Slots
<1>3. \A k \in 1 .. c : sl[Wrap(h + (k - 1))] \in Contents
  BY <1>2, WrapSlot
<1>4. Window(sl, h, c) \in [1 .. c -> Contents]
  BY <1>3 DEF Window
<1>5. Window(sl, h, c) \in Seq(Contents)
  BY <1>1, <1>4, SeqDef
<1>6. Len(Window(sl, h, c)) = c
  BY <1>1, <1>4, <1>5, LenProperties
<1>7. \A k \in 1 .. c : Window(sl, h, c)[k] = sl[Wrap(h + (k - 1))]
  BY DEF Window
<1> QED
  BY <1>5, <1>6, <1>7

\* A window grows by the slot that follows its last one.
LEMMA WindowPut ==
    ASSUME NEW sl \in [Slots -> Contents], NEW h \in Slots, NEW c \in 0 .. (QueueLen - 1),
           NEW m \in Contents
    PROVE  Window([sl EXCEPT ![Wrap(h + c)] = m], h, c + 1) = Append(Window(sl, h, c), m)
<1> DEFINE new == [sl EXCEPT ![Wrap(h + c)] = m]
           w   == Window(sl, h, c)
           x   == Window(new, h, c + 1)
<1>1. c \in Nat /\ h \in Nat /\ QueueLen \in Nat /\ h < QueueLen /\ c < QueueLen
  BY QueueAssumption DEF Slots
<1>2. h + c \in 0 .. (2 * QueueLen - 1) /\ Wrap(h + c) \in Slots
  BY <1>1, WrapSlot
<1>3. new \in [Slots -> Contents]
  BY <1>2
<1>4. w \in Seq(Contents) /\ Len(w) = c /\ \A k \in 1 .. c : w[k] = sl[Wrap(h + (k - 1))]
  BY <1>1, WindowSeq
<1>5. x \in Seq(Contents) /\ Len(x) = c + 1
      /\ \A k \in 1 .. c + 1 : x[k] = new[Wrap(h + (k - 1))]
  BY <1>1, <1>3, WindowSeq, c + 1 \in 0 .. QueueLen
<1>6. Append(w, m) \in Seq(Contents) /\ Len(Append(w, m)) = c + 1
      /\ \A k \in 1 .. c + 1 : Append(w, m)[k] = IF k = c + 1 THEN m ELSE w[k]
  BY <1>1, <1>4
<1>7. ASSUME NEW k \in 1 .. c + 1 PROVE x[k] = Append(w, m)[k]
  <2>1. CASE k = c + 1
    <3>1. h + (k - 1) = h + c
      BY <1>1, <2>1
    <3> QED
      BY <1>2, <1>5, <1>6, <2>1, <3>1
  <2>2. CASE k # c + 1
    <3>1. k \in 1 .. c
      BY <1>1, <2>2
    <3>2. h + (k - 1) \in 0 .. (2 * QueueLen - 1)
      BY <1>1, <3>1
    <3>3. Wrap(h + (k - 1)) \in Slots /\ Wrap(h + (k - 1)) # Wrap(h + c)
      BY <1>1, <3>1, <3>2, WrapSlot DEF Wrap
    <3>4. new[Wrap(h + (k - 1))] = sl[Wrap(h + (k - 1))]
      BY <3>3
    <3> QED
      BY <1>4, <1>5, <1>6, <2>2, <3>1, <3>4
  <2> QED
    BY <2>1, <2>2
<1> HIDE DEF w, x
<1>8. x = Append(w, m)
  BY <1>5, <1>6, <1>7, SeqEqual
<1> QED
  BY <1>8 DEF w, x

\* A window without its first message is the window from the next slot.
LEMMA WindowTake ==
    ASSUME NEW sl \in [Slots -> Contents], NEW h \in Slots, NEW c \in 1 .. QueueLen
    PROVE  /\ Window(sl, h, c) # << >>
           /\ Head(Window(sl, h, c)) = sl[h]
           /\ Tail(Window(sl, h, c)) = Window(sl, Wrap(h + 1), c - 1)
<1> DEFINE w == Window(sl, h, c)
           x == Window(sl, Wrap(h + 1), c - 1)
<1>1. c \in Nat /\ h \in Nat /\ QueueLen \in Nat /\ h < QueueLen /\ c <= QueueLen /\ 1 <= c
  BY QueueAssumption DEF Slots
<1>2. Wrap(h + 1) \in Slots
  BY <1>1, WrapSlot
<1>3. w \in Seq(Contents) /\ Len(w) = c /\ \A k \in 1 .. c : w[k] = sl[Wrap(h + (k - 1))]
  BY <1>1, WindowSeq
<1>4. x \in Seq(Contents) /\ Len(x) = c - 1
      /\ \A k \in 1 .. c - 1 : x[k] = sl[Wrap(Wrap(h + 1) + (k - 1))]
  BY <1>1, <1>2, WindowSeq, c - 1 \in 0 .. QueueLen
<1>5. w # << >>
  BY <1>1, <1>3, EmptySeq
<1>6. Head(w) = sl[h]
  <2>1. Wrap(h + (1 - 1)) = h
    BY <1>1 DEF Wrap
  <2>2. w[1] = sl[h]
    BY <1>1, <1>3, <2>1
  <2> QED
    BY <1>3, <1>5, <2>2
<1>7. Tail(w) \in Seq(Contents) /\ Len(Tail(w)) = c - 1
      /\ \A k \in 1 .. c - 1 : Tail(w)[k] = w[k + 1]
  BY <1>1, <1>3, <1>5, HeadTailProperties
<1>8. ASSUME NEW k \in 1 .. c - 1 PROVE Tail(w)[k] = x[k]
  <2>1. k + 1 \in 1 .. c /\ k \in Nat
    BY <1>1
  <2>2. Wrap(Wrap(h + 1) + (k - 1)) = Wrap(h + ((k + 1) - 1))
    BY <1>1, <2>1 DEF Wrap
  <2> QED
    BY <1>3, <1>4, <1>7, <2>1, <2>2
<1> HIDE DEF w, x
<1>9. Tail(w) = x
  BY <1>1, <1>4, <1>7, <1>8, SeqEqual
<1> QED
  BY <1>5, <1>6, <1>9 DEF w, x
-----------------------------------------------------------------------------
\* The oldest message and the number of messages, and where the next message goes.
LEMMA Indices ==
    ASSUME top \in Slots, tail \in Slots, status \in {0, 1}
    PROVE  /\ Oldest \in Slots /\ Count \in 0 .. QueueLen
           /\ tail = Wrap(Oldest + Count)
           /\ Count = 0 <=> top = tail /\ status # 1
BY QueueAssumption DEF Slots, Oldest, Count, Wrap

\* What an enqueue writes fits its buffer, and is not Nothing.
LEMMA MessageFits ==
    /\ \A b \in Bodies, n \in Lengths : [body |-> b, len |-> Clip(n)] \in Message
    /\ Blank \in Message
    /\ Nothing \notin Message
<1>1. ASSUME NEW b \in Bodies, NEW n \in Lengths PROVE [body |-> b, len |-> Clip(n)] \in Message
  <2>1. n \in Nat /\ BufSize \in Nat \ {0}
    BY QueueAssumption, MessageAssumption
  <2>2. Clip(n) \in 0 .. BufSize - 1
    BY <2>1 DEF Clip
  <2>3. b \in Bodies \cup {""}
    OBVIOUS
  <2> HIDE DEF Clip
  <2> QED
    BY <2>2, <2>3 DEF Message
<1>2. Blank \in Message
  <2>1. 0 \in 0 .. BufSize - 1
    BY QueueAssumption
  <2>2. "" \in Bodies \cup {""}
    OBVIOUS
  <2> QED
    BY <2>1, <2>2 DEF Blank, Message
<1>3. Nothing \notin Message
  <2>1. 0 .. BufSize - 1 \subseteq Nat
    BY QueueAssumption
  <2>2. Message \subseteq [body : Bodies \cup {""}, len : Nat]
    BY <2>1 DEF Message
  <2> QED
    BY <2>2, MessageAssumption
<1> QED
  BY <1>1, <1>2, <1>3

\* The queue before it is created.
LEMMA InitIInv == Init => IInv
<1> SUFFICES ASSUME Init PROVE IInv
  OBVIOUS
<1>1. 0 \in Slots
  BY QueueAssumption DEF Slots
<1>2. slots \in [Slots -> Message \cup {Nothing}]
  BY DEF Init
<1>a. QueueLen \in 0 .. QueueLen
  BY QueueAssumption
<1>3. TypeOK
  BY <1>1, <1>2, <1>a DEF Init, TypeOK
<1> QED
  BY <1>3 DEF Init, IInv, Ready

\* Every operation keeps the invariant.
LEMMA StepKeeps == IInv /\ [Next]_vars => IInv'
<1> SUFFICES ASSUME IInv, [Next]_vars PROVE IInv'
  OBVIOUS
<1> USE DEF IInv
<1>0. Blank \in Message /\ 0 \in Slots /\ Nothing \notin Message
  BY QueueAssumption, MessageFits DEF Slots
<1>1. CASE CreateHandle
  <2>1. 0 \in 0 .. QueueLen /\ 0 # QueueLen /\ \A i \in Slots : ~(i < 0)
    BY QueueAssumption DEF Slots
  <2>2. TypeOK'
    BY <1>0, <1>1, <2>1 DEF CreateHandle, TypeOK
  <2> QED BY <1>1, <2>1, <2>2 DEF CreateHandle, Ready
<1>c. ASSUME NEW info \in BOOLEAN, NEW buffer \in BOOLEAN, CreateSlot(info, buffer)
      PROVE  IInv'
  <2>1. making \in Slots /\ making' = making + 1 /\ making' \in 0 .. QueueLen
    BY <1>c, QueueAssumption DEF CreateSlot, TypeOK, Slots
  <2>2. top = tail /\ status = 0 /\ UNCHANGED <<top, tail, status, lent, taken>>
    BY <1>c, <2>1, QueueAssumption DEF CreateSlot, Ready, Slots
  <2>3. slots' \in [Slots -> Message \cup {Nothing}] /\ made' \in BOOLEAN
    BY <1>0, <1>c, <2>1 DEF CreateSlot, TypeOK
  <2>4. ASSUME made', NEW i \in Slots, i < making' PROVE slots'[i] # Nothing
    <3>1. made /\ slots' = [slots EXCEPT ![making] = Blank]
      BY <1>c, <2>4 DEF CreateSlot
    <3>2. i = making \/ i < making
      BY <2>1, <2>4, QueueAssumption DEF Slots
    <3> QED BY <1>0, <2>1, <2>4, <3>1, <3>2 DEF TypeOK
  <2> QED BY <2>1, <2>2, <2>3, <2>4 DEF TypeOK, Ready
<1>2. ASSUME NEW b \in Bodies, NEW n \in Lengths, Enqueue(b, n) PROVE IInv'
  <2>1. [body |-> b, len |-> Clip(n)] \in Message
    BY MessageFits
  <2>2. Succ(tail) \in Slots /\ Succ(top) \in Slots
    BY SuccIs DEF TypeOK
  <2>3. top' \in Slots /\ status' \in {0, 1}
    BY <1>2, <2>2 DEF Enqueue, Overflow, TypeOK
  <2>4. slots' \in [Slots -> Message \cup {Nothing}]
    BY <1>2, <2>1 DEF Enqueue, TypeOK
  <2>5. TypeOK'
    BY <1>2, <2>2, <2>3, <2>4 DEF Enqueue, TypeOK
  <2>6. (made => \A i \in Slots : i < making => slots[i] # Nothing)'
    BY <1>0, <1>2, <2>1 DEF Enqueue, TypeOK
  <2> QED
    BY <1>2, <2>5, <2>6 DEF Enqueue, Ready
<1>3. CASE Dequeue
  <2>1. Succ(top) \in Slots /\ Oldest \in Slots
    BY SuccIs, Indices DEF TypeOK
  <2>2. slots[Oldest] \in Message \cup {Nothing}
    BY <2>1 DEF TypeOK
  <2>3. top' \in Slots /\ status' \in {0, 1}
    BY <1>3, <2>1 DEF Dequeue, TakeLast, TakeOne, TypeOK
  <2>4. lent' \in Slots \cup {-1} /\ taken' \in Message \cup {Nothing}
    BY <1>3, <2>1, <2>2 DEF Dequeue
  <2> QED
    BY <1>3, <2>3, <2>4 DEF Dequeue, TypeOK, Ready
<1>4. CASE UNCHANGED vars
  BY <1>4 DEF vars, TypeOK, Ready
<1> QED
  BY <1>1, <1>c, <1>2, <1>3, <1>4 DEF Next

\* The invariant, from which the queue is typed and a handle stands for a whole ring.
THEOREM Invariance == Spec => []IInv
<1>1. Init => IInv
  BY InitIInv
<1>2. IInv /\ [Next]_vars => IInv'
  BY StepKeeps
<1> QED
  BY <1>1, <1>2, PTL DEF Spec

\* A message is always shorter than its buffer and the indices stay in the ring.
THEOREM TypeCorrect == Spec => []TypeOK
<1>1. IInv => TypeOK
  BY DEF IInv
<1> QED
  BY <1>1, Invariance, PTL

\* The loop of the creation leaves a handle only when every turn of it had its buffer.
THEOREM CompleteOrAbsentAlways == Spec => []CompleteOrAbsent
<1>1. IInv => CompleteOrAbsent
  BY QueueAssumption DEF IInv, CompleteOrAbsent, Ready, Slots
<1> QED
  BY <1>1, Invariance, PTL

-----------------------------------------------------------------------------
\* An enqueue appends, to all the messages or to all but the oldest.
LEMMA EnqueueRefines ==
    ASSUME IInv, NEW b \in Bodies, NEW n \in Lengths, Enqueue(b, n)
    PROVE  Q!Put
<1> DEFINE m == [body |-> b, len |-> Clip(n)]
<1>0. QueueLen \in Nat \ {0} /\ top \in Slots /\ tail \in Slots /\ status \in {0, 1}
      /\ slots \in [Slots -> Contents] /\ m \in Message /\ m \in Contents
  BY QueueAssumption, MessageFits DEF IInv, TypeOK, Contents
<1>1. Oldest \in Slots /\ Count \in 0 .. QueueLen /\ tail = Wrap(Oldest + Count)
  BY <1>0, Indices
<1>2. slots' = [slots EXCEPT ![Wrap(Oldest + Count)] = m] /\ slots' = [slots EXCEPT ![tail] = m]
  BY <1>1 DEF Enqueue
<1>3. tail' = (IF tail = QueueLen - 1 THEN 0 ELSE tail + 1)
      /\ Succ(tail) = (IF tail = QueueLen - 1 THEN 0 ELSE tail + 1)
      /\ Succ(top) = (IF top = QueueLen - 1 THEN 0 ELSE top + 1)
  BY <1>0, SuccIs DEF Enqueue
<1>4. Items \in Seq(Contents) /\ Len(Items) = Count
  BY <1>0, <1>1, WindowSeq DEF Items
<1>5. CASE Count # QueueLen
  <2>1. Oldest' = Oldest /\ Count' = Count + 1
    <3>1. CASE Succ(tail) = top
      <4>1. top' = Succ(top) /\ status' = 1
        BY <3>1 DEF Enqueue, Overflow
      <4> QED
        BY <1>0, <1>3, <1>5, <3>1, <4>1 DEF Oldest, Count, Slots
    <3>2. CASE Succ(tail) # top
      <4>1. top' = top /\ status' = status
        BY <3>2 DEF Enqueue, Overflow
      <4> QED
        BY <1>0, <1>3, <1>5, <3>2, <4>1 DEF Oldest, Count, Slots
    <3> QED
      BY <3>1, <3>2
  <2>2. Items' = Window([slots EXCEPT ![Wrap(Oldest + Count)] = m], Oldest, Count + 1)
    BY <1>2, <2>1 DEF Items, Window, Wrap
  <2>3. Items' = Append(Items, m)
    BY <1>0, <1>1, <1>5, <2>2, WindowPut, Count \in 0 .. (QueueLen - 1) DEF Items
  <2> QED
    BY <1>0, <1>4, <1>5, <2>3 DEF Q!Put, Enqueue
<1>6. CASE Count = QueueLen
  <2>1. Succ(tail) = top /\ status = 1
    BY <1>0, <1>3, <1>6 DEF Count, Slots
  <2>2. top' = Succ(top) /\ status' = 1
    BY <2>1 DEF Enqueue, Overflow
  <2>3. Oldest' = Wrap(Oldest + 1) /\ Count' = QueueLen
    BY <1>0, <1>3, <2>1, <2>2 DEF Oldest, Count, Slots, Wrap
  <2>4. Wrap(Oldest + 1) \in Slots /\ tail = Wrap(Wrap(Oldest + 1) + (QueueLen - 1))
    BY <1>0, <1>1, <1>6 DEF Slots, Wrap
  <2>5. Items' = Window([slots EXCEPT ![Wrap(Wrap(Oldest + 1) + (QueueLen - 1))] = m],
                        Wrap(Oldest + 1), (QueueLen - 1) + 1)
    <3>1. (QueueLen - 1) + 1 = QueueLen
      BY <1>0
    <3> QED
      BY <1>2, <2>3, <2>4, <3>1 DEF Items, Window, Wrap
  <2>6. Items' = Append(Window(slots, Wrap(Oldest + 1), QueueLen - 1), m)
    BY <1>0, <2>4, <2>5, WindowPut, QueueLen - 1 \in 0 .. (QueueLen - 1)
  <2>7. Tail(Items) = Window(slots, Wrap(Oldest + 1), QueueLen - 1)
    BY <1>0, <1>1, <1>6, WindowTake, Count \in 1 .. QueueLen DEF Items
  <2>8. Items' = Append(Tail(Items), m)
    BY <2>6, <2>7
  <2> QED
    BY <1>0, <1>4, <1>6, <2>8 DEF Q!Put, Enqueue
<1> QED
  BY <1>5, <1>6

\* A dequeue answers the first message and keeps the others, or answers that there is none.
LEMMA DequeueRefines ==
    ASSUME IInv, Dequeue
    PROVE  Q!Take
<1>0. QueueLen \in Nat \ {0} /\ top \in Slots /\ tail \in Slots /\ status \in {0, 1}
      /\ slots \in [Slots -> Contents] /\ slots' = slots /\ tail' = tail
  BY QueueAssumption DEF IInv, TypeOK, Contents, Dequeue
<1>1. Oldest \in Slots /\ Count \in 0 .. QueueLen /\ (Count = 0 <=> top = tail /\ status # 1)
  BY <1>0, Indices
<1>2. Items \in Seq(Contents) /\ Len(Items) = Count
  BY <1>0, <1>1, WindowSeq DEF Items
<1>3. CASE Count = 0
  <2>1. top = tail /\ status # 1
    BY <1>1, <1>3
  <2>2. taken' = Nothing /\ top' = top /\ status' = status
    BY <2>1 DEF Dequeue
  <2>3. Items' = Items
    BY <1>0, <2>2 DEF Items, Window, Wrap, Oldest, Count
  <2>4. Items = << >>
    BY <1>2, <1>3, EmptySeq
  <2> QED
    BY <2>2, <2>3, <2>4 DEF Q!Take
<1>4. CASE Count # 0
  <2>1. Count \in 1 .. QueueLen /\ ~(top = tail /\ status # 1)
    BY <1>1, <1>4, QueueAssumption
  <2>2. taken' = slots[Oldest] /\ (TakeLast \/ TakeOne)
    BY <2>1 DEF Dequeue
  <2>3. Oldest' = Wrap(Oldest + 1) /\ Count' = Count - 1
    <3>1. CASE TakeLast
      <4>1. status' = 0 /\ top' = top /\ top = tail /\ status = 1
        BY <3>1 DEF TakeLast
      <4> QED
        BY <1>0, <4>1 DEF Oldest, Count, Wrap, Slots
    <3>2. CASE TakeOne
      <4>1. top' = (IF top = QueueLen - 1 THEN 0 ELSE top + 1) /\ status' = status /\ top # tail
        BY <1>0, <3>2, SuccIs DEF TakeOne
      <4> QED
        BY <1>0, <4>1 DEF Oldest, Count, Wrap, Slots
    <3> QED
      BY <2>2, <3>1, <3>2
  <2>4. Items' = Window(slots, Wrap(Oldest + 1), Count - 1)
    BY <1>0, <2>3 DEF Items, Window, Wrap
  <2>5. Items # << >> /\ Head(Items) = slots[Oldest] /\ Tail(Items) = Items'
    BY <1>0, <1>1, <2>1, <2>4, WindowTake DEF Items
  <2> QED
    BY <2>2, <2>5 DEF Q!Take
<1> QED
  BY <1>3, <1>4

\* Every step of the ring is a step of the queue or changes nothing of it.
LEMMA StepRefines ==
    IInv /\ [Next]_vars => [Q!Next]_<<Items, taken>>
<1> SUFFICES ASSUME IInv, [Next]_vars PROVE [Q!Next]_<<Items, taken>>
  OBVIOUS
<1>1. ASSUME CreateHandle \/ \E info, buffer \in BOOLEAN : CreateSlot(info, buffer)
      PROVE  UNCHANGED <<Items, taken>>
  <2>1. ~Ready /\ taken' = taken
    BY <1>1, QueueAssumption DEF CreateHandle, CreateSlot, Ready
  <2>a. top = tail /\ status = 0 /\ top \in Int /\ tail \in Int
    BY <2>1 DEF IInv, TypeOK, Slots
  <2>b. top' = tail' /\ status' = 0 /\ top' \in Int /\ tail' \in Int
    BY <1>1, <2>a DEF CreateHandle, CreateSlot
  <2>c. \A i \in Int : i <= i /\ i - i = 0
    OBVIOUS
  <2>d. Count = 0
    BY <2>a, <2>c DEF Count
  <2>e. Count' = 0
    <3>1. PICK t \in Int : top' = t /\ tail' = t
      BY <2>b
    <3>2. Count' = 0 + (IF t <= t THEN t - t ELSE t - t + QueueLen)
      BY <2>b, <3>1 DEF Count
    <3> QED
      BY <2>c, <3>2
  <2>2. Count = 0 /\ Count' = 0
    BY <2>d, <2>e
  <2>3. Items = Items'
    BY <2>2 DEF Items, Window
  <2> QED
    BY <2>1, <2>3
<1>2. ASSUME NEW b \in Bodies, NEW n \in Lengths, Enqueue(b, n) PROVE Q!Next
  BY <1>2, EnqueueRefines DEF Q!Next
<1>3. CASE Dequeue
  BY <1>3, DequeueRefines DEF Q!Next
<1>4. CASE UNCHANGED vars
  BY <1>4 DEF vars, Items, Window, Wrap, Oldest, Count
<1> QED
  BY <1>1, <1>2, <1>3, <1>4 DEF Next

\* It is empty.
LEMMA InitRefines == Init => Q!Init
<1> SUFFICES ASSUME Init PROVE Items = << >> /\ taken = Nothing
  BY DEF Q!Init
<1>1. IInv
  BY InitIInv
<1>2. Count = 0 /\ Oldest \in Slots /\ slots \in [Slots -> Contents]
  BY <1>1, Indices DEF Init, Count, IInv, TypeOK, Contents
<1>3. Items \in Seq(Contents) /\ Len(Items) = 0
  BY <1>2, WindowSeq, QueueAssumption, 0 \in 0 .. QueueLen DEF Items
<1> QED
  BY <1>3, EmptySeq DEF Init

\* The ring is a first-in first-out queue of QueueLen messages that drops its oldest.
THEOREM RingImplementsQueue == Spec => ImplementsQueue
<1>1. Init => Q!Init
  BY InitRefines
<1>2. IInv /\ [Next]_vars => [Q!Next]_<<Items, taken>>
  BY StepRefines
<1> QED
  BY <1>1, <1>2, Invariance, PTL DEF Spec, ImplementsQueue, Q!Spec

-----------------------------------------------------------------------------
\* The length reported is the number of messages, or one more.
THEOREM LengthAlways == Spec => []LengthWithinOne
<1>1. IInv => LengthWithinOne
  BY QueueAssumption DEF IInv, TypeOK, LengthWithinOne, QueueLength, Count, Slots
<1> QED
  BY <1>1, Invariance, PTL

\* The buffer handed out last lies just before the oldest message until the ring drops one.
LentInv == lent # -1 => Ready /\ (Oldest = Wrap(lent + 1) \/ Count = QueueLen)

\* Every step keeps what is known of the buffer handed out.
LEMMA LentKeeps == IInv /\ LentInv /\ [Next]_vars => LentInv'
<1> SUFFICES ASSUME IInv, LentInv, [Next]_vars PROVE LentInv'
  OBVIOUS
<1>0. QueueLen \in Nat \ {0} /\ top \in Slots /\ tail \in Slots /\ status \in {0, 1}
      /\ lent \in Slots \cup {-1}
  BY QueueAssumption DEF IInv, TypeOK
<1>1. ASSUME CreateHandle \/ \E info, buffer \in BOOLEAN : CreateSlot(info, buffer)
      PROVE  LentInv'
  <2>1. ~Ready /\ lent' = lent
    BY <1>1, QueueAssumption DEF IInv, TypeOK, CreateHandle, CreateSlot, Ready
  <2> QED
    BY <2>1 DEF LentInv
<1>2. ASSUME NEW b \in Bodies, NEW n \in Lengths, Enqueue(b, n) PROVE LentInv'
  <2>1. Succ(tail) = (IF tail = QueueLen - 1 THEN 0 ELSE tail + 1)
        /\ Succ(top) = (IF top = QueueLen - 1 THEN 0 ELSE top + 1)
    BY <1>0, SuccIs
  <2>2. tail' = Succ(tail) /\ Ready' /\ lent' = lent
    BY <1>2 DEF Enqueue, Ready
  <2>3. Oldest' = Oldest \/ Count' = QueueLen
    <3>1. CASE Succ(tail) = top
      <4>1. top' = Succ(top) /\ status' = 1
        BY <1>2, <3>1 DEF Enqueue, Overflow
      <4> QED
        BY <1>0, <2>1, <2>2, <3>1, <4>1 DEF Count, Slots
    <3>2. CASE Succ(tail) # top
      <4>1. top' = top /\ status' = status
        BY <1>2, <3>2 DEF Enqueue, Overflow
      <4> QED
        BY <4>1 DEF Oldest
    <3> QED
      BY <3>1, <3>2
  <2>4. Count = QueueLen => Count' = QueueLen
    <3> SUFFICES ASSUME Count = QueueLen PROVE Count' = QueueLen
      OBVIOUS
    <3>1. Succ(tail) = top /\ status = 1
      BY <1>0, <2>1 DEF Count, Slots
    <3>2. top' = Succ(top) /\ status' = 1
      BY <1>2, <3>1 DEF Enqueue, Overflow
    <3> QED
      BY <1>0, <2>1, <2>2, <3>1, <3>2 DEF Count, Slots
  <2> QED
    BY <2>2, <2>3, <2>4 DEF LentInv, Wrap
<1>3. CASE Dequeue
  <2>1. CASE top = tail /\ status # 1
    BY <1>3, <2>1 DEF Dequeue, LentInv
  <2>2. CASE ~(top = tail /\ status # 1)
    <3>1. lent' = Oldest /\ Ready' /\ (TakeLast \/ TakeOne)
      BY <1>3, <2>2 DEF Dequeue, Ready
    <3>2. Oldest' = Wrap(Oldest + 1)
      <4>1. CASE TakeLast
        BY <1>0, <4>1 DEF TakeLast, Oldest, Wrap, Slots
      <4>2. CASE TakeOne
        <5>1. top' = (IF top = QueueLen - 1 THEN 0 ELSE top + 1) /\ status' = status
          BY <1>0, <4>2, SuccIs DEF TakeOne
        <5> QED
          BY <1>0, <5>1 DEF Oldest, Wrap, Slots
      <4> QED
        BY <3>1, <4>1, <4>2
    <3> QED
      BY <3>1, <3>2 DEF LentInv, Wrap
  <2> QED
    BY <2>1, <2>2
<1>4. CASE UNCHANGED vars
  BY <1>4 DEF vars, LentInv, Oldest, Count, Wrap, Ready
<1> QED
  BY <1>1, <1>2, <1>3, <1>4 DEF Next

\* The buffer a dequeue handed out is written again only when at most one slot is free.
THEOREM LentBufferAlways == Spec => LentBufferKept
<1>1. Init => LentInv
  BY DEF Init, LentInv
<1>2. IInv /\ LentInv /\ [Next]_vars
      => [lent # -1 /\ made /\ slots'[lent] # slots[lent] => Count >= QueueLen - 1]_vars
  <2> SUFFICES ASSUME IInv, LentInv, Next, lent # -1, made, slots'[lent] # slots[lent]
               PROVE  Count >= QueueLen - 1
    OBVIOUS
  <2>0. QueueLen \in Nat \ {0} /\ top \in Slots /\ tail \in Slots /\ status \in {0, 1}
        /\ lent \in Slots /\ slots \in [Slots -> Contents]
    BY QueueAssumption DEF IInv, TypeOK, Contents
  <2>1. Oldest \in Slots /\ Count \in 0 .. QueueLen /\ tail = Wrap(Oldest + Count)
    BY <2>0, Indices
  <2>2. PICK b \in Bodies, n \in Lengths : Enqueue(b, n)
    <3>1. ~CreateHandle /\ ~Dequeue
      BY DEF CreateHandle, Dequeue
    <3>2. \A info, buffer \in BOOLEAN : ~CreateSlot(info, buffer)
      BY <2>0, QueueAssumption DEF CreateSlot, LentInv, Ready, Slots
    <3> QED
      BY <3>1, <3>2 DEF Next
  <2>3. tail = lent
    BY <2>0, <2>2 DEF Enqueue
  <2> QED
    BY <2>0, <2>1, <2>3 DEF LentInv, Wrap, Slots
<1> QED
  BY <1>1, <1>2, LentKeeps, Invariance, PTL DEF Spec, LentBufferKept

=============================================================================
