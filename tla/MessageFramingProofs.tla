------------------------- MODULE MessageFramingProofs -------------------------
(***************************************************************************)
(* Proofs about the framing, for messages of any length, reads of any size  *)
(* and any sizes of the buffers: the receiver keeps its place in the stream *)
(* until the connection is spoilt, the loop over one read moves on in any   *)
(* case, and every step is one of the channel that MessageChannel promises. *)
(***************************************************************************)
EXTENDS MessageFraming, SequenceTheorems, FiniteSetTheorems, TLAPS

\* where the stream goes on after the m-th message
After(m) == IF m = 0 THEN 0 ELSE End(m)

\* the state a connection keeps between two turns
Params == [fin : BOOLEAN, maskindex : Int, header : Nat, at : Nat, payloadlen : Nat,
           tmpmsglen : Nat, continue : Nat, body : Nat, type : Nat]

\* Every field has its type.
Typed ==
    /\ sent \in Seq([at : Nat, len : Nat]) /\ wire \in Nat /\ sending \in BOOLEAN
    /\ read \in Nat /\ read <= wire
    /\ param \in Params /\ event \in [from : Nat, size : Nat, old : Nat]
    /\ got \in Seq([body : Nat, len : Nat, type : Nat])
    /\ open \in BOOLEAN /\ lost \in BOOLEAN /\ spoilt \in BOOLEAN

\* The messages follow each other in the stream; only the last may not be there whole, when
\* its send has failed.
Laid ==
    /\ \A k \in Places : sent[k].at = After(k - 1)
    /\ \A j, k \in 0 .. Len(sent) : j < k => After(j) < After(k)
    /\ sending => wire = After(Len(sent))
    /\ ~sending => Len(sent) > 0 /\ After(Len(sent) - 1) <= wire /\ wire < After(Len(sent))

\* the byte the receiver is at
Place == IF event.size = 0 THEN read ELSE event.from + event.old

\* The loop over a read is at the place the last message left, which is inside the read.
Looping ==
    /\ param.continue = event.old
    /\ IF event.size = 0 THEN event.old = 0
       ELSE open /\ event.old < event.size /\ event.from + event.size = read

\* A connection that expects a header has none of it yet, or has less of it than there is.
Pieces ==
    /\ IF param.fin THEN param.header = 0 /\ param.maskindex = 0 /\ param.tmpmsglen = 0
       ELSE param.header > 0 /\ param.continue = 0
    /\ 0 < param.header /\ param.header < param.maskindex =>
         \E k \in Places : sent[k].at = param.at /\ param.header < HeaderSize(sent[k].len)
    /\ param.body <= read /\ \A i \in 1 .. Len(got) : got[i].body <= read

\* A message in whose type the last read ended is remembered.
Remembered == \A k \in Places : Body(k) - 4 < read /\ read < Body(k) => k \in torn

\* The messages delivered are the first ones sent, each from its own place.
Received ==
    /\ Len(got) <= Len(sent) /\ After(Len(got)) <= read
    /\ \A i \in 1 .. Len(got) : /\ got[i].body = Body(i) /\ got[i].len = sent[i].len
                                /\ i \notin torn => got[i].type = i

\* The receiver is between two messages, in the header or in the body of the next one.
Between(m) == param.fin /\ Place = After(m)
InPiece(m) ==
    /\ ~param.fin /\ m < Len(sent) /\ param.header < param.maskindex
    /\ param.at = sent[m + 1].at /\ Place = param.at + param.header /\ param.tmpmsglen = 0
    /\ param.header < HeaderSize(sent[m + 1].len)
    /\ param.header > HeaderSize(sent[m + 1].len) - 4 => m + 1 \in torn
InBody(m) ==
    /\ ~param.fin /\ m < Len(sent) /\ param.header >= param.maskindex
    /\ param.payloadlen = sent[m + 1].len /\ param.tmpmsglen < param.payloadlen
    /\ Place = Body(m + 1) + param.tmpmsglen
    /\ param.tmpmsglen > 0 => param.body = Body(m + 1)
    /\ m + 1 \notin torn => param.type = m + 1

\* What is known until the connection is spoilt.
InPlace ==
    /\ ~lost /\ Received
    /\ open => Between(Len(got)) \/ InPiece(Len(got)) \/ InBody(Len(got))
    /\ event.size > 0 => ~Spoils(event.from, event.from + event.size)

\* The inductive invariant.
IInv == Typed /\ Laid /\ Looping /\ Pieces /\ Remembered /\ (spoilt \/ InPlace)

-----------------------------------------------------------------------------
\* A header is of 6, 8 or 14 bytes, and what it announces is a number.
LEMMA HeaderSizes ==
    /\ \A n : HeaderSize(n) \in {6, 8, 14}
    /\ \A n \in Nat : Announced(n) \in Nat
<1>1. \A n : HeaderSize(n) \in {6, 8, 14}
  BY DEF HeaderSize
<1>2. ASSUME NEW n \in Nat PROVE Announced(n) \in Nat
  BY FramingAssumption DEF Announced
<1> QED BY <1>1, <1>2

\* Where the messages lie in the stream.
LEMMA Layout ==
    ASSUME Typed, Laid
    PROVE  /\ Len(sent) \in Nat /\ wire \in Nat
           /\ \A k \in Places :
                /\ sent[k].at \in Nat /\ sent[k].len \in Nat /\ HeaderSize(sent[k].len) \in {6, 8, 14}
                /\ sent[k].at = After(k - 1) /\ After(k) = End(k)
                /\ Body(k) = sent[k].at + HeaderSize(sent[k].len) /\ End(k) = Body(k) + sent[k].len
           /\ \A m \in 0 .. Len(sent) : After(m) \in Nat
           /\ \A j, k \in 0 .. Len(sent) : j < k => After(j) < After(k)
<1>1. /\ sent \in Seq([at : Nat, len : Nat]) /\ Len(sent) \in Nat /\ wire \in Nat
      /\ Places = 1 .. Len(sent)
  BY DEF Typed, Places
<1>2. ASSUME NEW k \in Places
      PROVE  /\ sent[k].at \in Nat /\ sent[k].len \in Nat /\ HeaderSize(sent[k].len) \in {6, 8, 14}
             /\ sent[k].at = After(k - 1) /\ After(k) = End(k)
             /\ Body(k) = sent[k].at + HeaderSize(sent[k].len) /\ End(k) = Body(k) + sent[k].len
  <2>1. k \in 1 .. Len(sent) /\ k # 0
    BY <1>1, <1>2
  <2>2. sent[k] \in [at : Nat, len : Nat]
    BY <1>1, <2>1, ElementOfSeq
  <2> QED BY <1>2, <2>1, <2>2, HeaderSizes DEF Laid, Body, End, After
<1>3. ASSUME NEW m \in 0 .. Len(sent) PROVE After(m) \in Nat
  <2>1. CASE m = 0
    BY <2>1 DEF After
  <2>2. CASE m # 0
    <3>1. m \in Places
      BY <1>1, <2>2
    <3>2. /\ sent[m].at \in Nat /\ sent[m].len \in Nat /\ HeaderSize(sent[m].len) \in {6, 8, 14}
          /\ After(m) = sent[m].at + HeaderSize(sent[m].len) + sent[m].len
      BY <1>2, <3>1
    <3> QED BY <3>2
  <2> QED BY <2>1, <2>2
<1> QED BY <1>1, <1>2, <1>3 DEF Laid

\* A place tells which message begins there.
LEMMA HeaderFound ==
    ASSUME Typed, Laid
    PROVE  /\ \A p : HeaderAt(p) # 0 => HeaderAt(p) \in Places /\ sent[HeaderAt(p)].at = p
           /\ \A k \in Places : HeaderAt(sent[k].at) = k
           /\ \A j, k \in Places : sent[j].at = sent[k].at => j = k
<1>1. ASSUME NEW j \in Places, NEW k \in Places, sent[j].at = sent[k].at
      PROVE  j = k
  <2>1. /\ j - 1 \in 0 .. Len(sent) /\ k - 1 \in 0 .. Len(sent) /\ j \in Nat /\ k \in Nat
    BY Layout DEF Places
  <2>2. After(j - 1) = After(k - 1) /\ After(j - 1) \in Nat
    BY <1>1, <2>1, Layout
  <2> DEFINE a == j - 1  b == k - 1
  <2>3. /\ a \in 0 .. Len(sent) /\ b \in 0 .. Len(sent)
        /\ After(a) = After(b) /\ After(a) \in Nat
    BY <2>1, <2>2
  <2> HIDE DEF a, b
  <2>4. a < b => After(a) < After(b)
    BY <2>3, Layout
  <2>5. b < a => After(b) < After(a)
    BY <2>3, Layout
  <2>6. ~(a < b) /\ ~(b < a)
    BY <2>3, <2>4, <2>5
  <2>7. ~(j - 1 < k - 1) /\ ~(k - 1 < j - 1)
    BY <2>6 DEF a, b
  <2> QED BY <2>1, <2>7
<1>2. ASSUME NEW p, HeaderAt(p) # 0
      PROVE  HeaderAt(p) \in Places /\ sent[HeaderAt(p)].at = p
  BY <1>2 DEF HeaderAt
<1>3. ASSUME NEW k \in Places
      PROVE  HeaderAt(sent[k].at) = k
  BY <1>1 DEF HeaderAt
<1> QED BY <1>1, <1>2, <1>3

\* A message added to the stream leaves the others where they are.
LEMMA OneMore ==
    ASSUME Typed, Laid, sending, NEW n \in Nat, NEW l, l = Len(sent),
           sent' = Append(sent, [at |-> wire, len |-> n]), wire' \in Nat, sending' \in BOOLEAN,
           IF sending' THEN wire' = wire + HeaderSize(n) + n
           ELSE wire <= wire' /\ wire' < wire + HeaderSize(n) + n
    PROVE  /\ Laid' /\ sent' \in Seq([at : Nat, len : Nat])
           /\ l \in Nat /\ Len(sent') = l + 1 /\ Places = 1 .. l /\ Places' = 1 .. l + 1
           /\ \A k \in Places : sent'[k] = sent[k] /\ Body(k)' = Body(k) /\ End(k)' = End(k)
           /\ \A m \in 0 .. l : After(m)' = After(m)
           /\ sent'[l + 1] = [at |-> wire, len |-> n]
           /\ Body(l + 1)' = wire + HeaderSize(n)
           /\ End(l + 1)' = wire + HeaderSize(n) + n
           /\ wire = After(l)
<1> DEFINE x == [at |-> wire, len |-> n]
<1>1. /\ l \in Nat /\ wire \in Nat /\ Places = 1 .. l /\ x \in [at : Nat, len : Nat]
      /\ sent \in Seq([at : Nat, len : Nat]) /\ wire = After(l) /\ HeaderSize(n) \in {6, 8, 14}
  <2>1. sent \in Seq([at : Nat, len : Nat]) /\ l \in Nat /\ wire \in Nat
    BY DEF Typed
  <2>2. Places = 1 .. l /\ wire = After(l)
    BY DEF Laid, Places
  <2> QED BY <2>1, <2>2, HeaderSizes
<1>2. /\ sent' \in Seq([at : Nat, len : Nat]) /\ Len(sent') = l + 1
      /\ \A k \in 1 .. l : sent'[k] = sent[k]
      /\ sent'[l + 1] = x
  BY <1>1, AppendProperties
<1>3. Places' = 1 .. l + 1
  BY <1>1, <1>2 DEF Places
<1>4. ASSUME NEW k \in Places
      PROVE  sent'[k] = sent[k] /\ Body(k)' = Body(k) /\ End(k)' = End(k)
  BY <1>1, <1>2, <1>4 DEF Body, End
<1>5. ASSUME NEW m \in 0 .. l
      PROVE  After(m)' = After(m)
  <2>1. CASE m = 0
    BY <2>1 DEF After
  <2>2. CASE m # 0
    <3>1. m \in Places
      BY <1>1, <2>2
    <3> QED BY <1>4, <2>2, <3>1 DEF After
  <2> QED BY <2>1, <2>2
<1>6. /\ Body(l + 1)' = wire + HeaderSize(n)
      /\ End(l + 1)' = wire + HeaderSize(n) + n
  BY <1>2 DEF Body, End
<1>7. After(l + 1)' = wire + HeaderSize(n) + n
  BY <1>1, <1>6 DEF After
<1>8. ASSUME NEW k \in Places'
      PROVE  sent'[k].at = After(k - 1)'
  <2>1. CASE k = l + 1
    <3>1. k - 1 = l /\ l \in 0 .. l /\ sent'[k].at = wire
      BY <1>1, <1>2, <2>1
    <3>2. After(l)' = After(l)
      BY <1>5, <3>1
    <3> QED BY <1>1, <3>1, <3>2
  <2>2. CASE k # l + 1
    <3>1. k \in Places /\ k - 1 \in 0 .. l
      BY <1>1, <1>3, <2>2
    <3>2. sent'[k].at = After(k - 1)
      BY <1>4, <3>1 DEF Laid
    <3>3. After(k - 1)' = After(k - 1)
      BY <1>5, <3>1
    <3> QED BY <3>2, <3>3
  <2> QED BY <2>1, <2>2
<1>9. ASSUME NEW j \in 0 .. l + 1, NEW k \in 0 .. l + 1, j < k
      PROVE  After(j)' < After(k)'
  <2>1. j \in 0 .. l /\ After(j)' = After(j) /\ After(j) \in Nat /\ After(l) \in Nat
    <3>1. j \in 0 .. l /\ l \in 0 .. l
      BY <1>1, <1>9
    <3> QED BY <1>5, <3>1, Layout
  <2>2. CASE k = l + 1
    <3>1. After(j) <= After(l)
      <4>1. CASE j = l
        BY <2>1, <4>1
      <4>2. CASE j # l
        <5>1. j < l /\ l \in 0 .. l
          BY <1>1, <2>1, <4>2
        <5>2. After(j) < After(l)
          BY <2>1, <5>1 DEF Laid
        <5> QED BY <2>1, <5>2
      <4> QED BY <4>1, <4>2
    <3>2. After(l) < wire + HeaderSize(n) + n
      BY <1>1
    <3> QED BY <1>1, <1>7, <2>1, <2>2, <3>1, <3>2
  <2>3. CASE k # l + 1
    <3>1. k \in 0 .. l
      BY <1>1, <2>3
    <3>2. After(k)' = After(k) /\ After(j) < After(k)
      BY <1>5, <1>9, <2>1, <3>1 DEF Laid
    <3> QED BY <2>1, <3>2
  <2> QED BY <2>2, <2>3
<1>10. /\ sending' => wire' = After(l + 1)'
       /\ ~sending' => After(l)' <= wire' /\ wire' < After(l + 1)'
  <2>1. After(l)' = wire
    BY <1>1, <1>5
  <2> QED BY <1>7, <2>1
<1>11. Laid'
  <2>1. Len(sent') - 1 = l /\ Len(sent') > 0
    BY <1>1, <1>2
  <2>2. After(Len(sent))' = After(l + 1)' /\ After(Len(sent) - 1)' = After(l)'
    BY <1>2, <2>1
  <2>3. /\ sending' => wire' = After(Len(sent))'
        /\ ~sending' => /\ Len(sent') > 0
                        /\ After(Len(sent) - 1)' <= wire' /\ wire' < After(Len(sent))'
    BY <1>10, <2>1, <2>2
  <2>4. \A j, k \in 0 .. Len(sent') : j < k => After(j)' < After(k)'
    BY <1>2, <1>9
  <2> QED BY <1>8, <2>3, <2>4 DEF Laid
<1> QED BY <1>1, <1>2, <1>3, <1>4, <1>5, <1>6, <1>11

-----------------------------------------------------------------------------
\* The initial state satisfies the invariant.
LEMMA FirstState == Init => IInv
<1> SUFFICES ASSUME Init PROVE IInv
  OBVIOUS
<1>1. /\ sent = << >> /\ wire = 0 /\ sending = TRUE /\ read = 0 /\ param = FreshParam
      /\ event = NoEvent /\ got = << >> /\ open = TRUE /\ lost = FALSE /\ spoilt = FALSE
      /\ Len(sent) = 0 /\ Len(got) = 0 /\ Places = {}
  BY DEF Init, Places
<1>2. Typed
  <2>1. FreshParam \in Params
    BY DEF FreshParam, Params
  <2>2. NoEvent \in [from : Nat, size : Nat, old : Nat]
    BY DEF NoEvent
  <2>3. << >> \in Seq([at : Nat, len : Nat]) /\ << >> \in Seq([body : Nat, len : Nat, type : Nat])
    BY EmptySeq
  <2>4. /\ param \in Params /\ event \in [from : Nat, size : Nat, old : Nat]
        /\ sent \in Seq([at : Nat, len : Nat]) /\ got \in Seq([body : Nat, len : Nat, type : Nat])
    BY <1>1, <2>1, <2>2, <2>3, Zenon
  <2>5. open \in BOOLEAN /\ lost \in BOOLEAN /\ spoilt \in BOOLEAN /\ sending \in BOOLEAN
    BY <1>1, Zenon
  <2>6. wire \in Nat /\ read \in Nat /\ read <= wire
    BY <1>1
  <2> QED BY <2>4, <2>5, <2>6 DEF Typed
<1>3. After(0) = 0
  BY DEF After
<1>4. Laid
  <2>1. \A j, k \in 0 .. Len(sent) : ~(j < k)
    BY <1>1
  <2> QED BY <1>1, <1>3, <2>1 DEF Laid
<1>5. Looping
  BY <1>1 DEF Looping, FreshParam, NoEvent
<1>6. Pieces
  BY <1>1 DEF Pieces, FreshParam
<1>7. InPlace
  BY <1>1, <1>3 DEF InPlace, Received, Between, Place, FreshParam, NoEvent
<1>8. Remembered
  BY <1>1 DEF Remembered
<1> QED BY <1>2, <1>4, <1>5, <1>6, <1>7, <1>8 DEF IInv

\* A message added to the stream does not change what is known of the receiver.
LEMMA SendStep ==
    ASSUME IInv, sending, NEW n \in Nat,
           sent' = Append(sent, [at |-> wire, len |-> n]), wire' \in Nat, sending' \in BOOLEAN,
           IF sending' THEN wire' = wire + HeaderSize(n) + n
           ELSE wire <= wire' /\ wire' < wire + HeaderSize(n) + n,
           UNCHANGED <<read, param, event, got, open, lost, spoilt, torn>>
    PROVE  IInv'
<1>1. PICK l : l = Len(sent)
  OBVIOUS
<1>2. Typed /\ Laid /\ Looping /\ Pieces
  BY DEF IInv
<1>3. /\ Laid' /\ sent' \in Seq([at : Nat, len : Nat])
      /\ l \in Nat /\ Len(sent') = l + 1 /\ Places = 1 .. l /\ Places' = 1 .. l + 1
      /\ \A k \in Places : sent'[k] = sent[k] /\ Body(k)' = Body(k) /\ End(k)' = End(k)
      /\ \A m \in 0 .. l : After(m)' = After(m)
      /\ sent'[l + 1] = [at |-> wire, len |-> n]
      /\ Body(l + 1)' = wire + HeaderSize(n)
      /\ wire = After(l)
  BY <1>1, <1>2, OneMore
<1>4. /\ read' = read /\ param' = param /\ event' = event /\ got' = got /\ open' = open
      /\ lost' = lost /\ spoilt' = spoilt /\ torn' = torn
  OBVIOUS
<1>5. Typed'
  <2>1. wire <= wire' /\ wire \in Nat /\ read \in Nat /\ read <= wire
    <3>1. wire \in Nat /\ read \in Nat /\ read <= wire
      BY <1>2 DEF Typed
    <3>2. HeaderSize(n) \in {6, 8, 14}
      BY HeaderSizes
    <3>3. wire <= wire'
      BY <3>1, <3>2
    <3> QED BY <3>1, <3>3
  <2>2. read' <= wire'
    BY <1>4, <2>1
  <2> QED BY <1>2, <1>3, <1>4, <2>2 DEF Typed
<1>6. Looping'
  BY <1>2, <1>4 DEF Looping
<1>7. Pieces'
  <2>1. ASSUME NEW k \in Places
        PROVE  k \in Places' /\ sent'[k] = sent[k]
    BY <1>3, <2>1
  <2> QED BY <1>2, <1>4, <2>1 DEF Pieces
<1>8. ASSUME InPlace
      PROVE  InPlace'
  <2>1. PICK m : m = Len(got)
    OBVIOUS
  <2>2. m \in 0 .. l /\ Received /\ ~lost
    <3>1. m \in Nat
      BY <1>2, <2>1 DEF Typed
    <3> QED BY <1>1, <1>3, <1>8, <2>1, <3>1 DEF InPlace, Received
  <2>3. After(m)' = After(m)
    BY <1>3, <2>2
  <2>4. Received'
    <3>1. ASSUME NEW i \in 1 .. m
          PROVE  Body(i)' = Body(i) /\ sent'[i] = sent[i]
      BY <1>3, <2>2, <3>1
    <3>2. After(Len(got))' = After(m) /\ Len(got') = m
      BY <1>4, <2>1, <2>3
    <3>3. After(m) <= read /\ m <= Len(sent')
      BY <1>3, <2>1, <2>2 DEF Received
    <3> QED BY <1>4, <2>1, <2>2, <3>1, <3>2, <3>3 DEF Received
  <2>5. Between(m) => Between(m)'
    BY <1>4, <2>3 DEF Between, Place
  <2>6. InPiece(m) \/ InBody(m) => InPiece(m)' \/ InBody(m)'
    <3> SUFFICES ASSUME InPiece(m) \/ InBody(m)
                 PROVE  InPiece(m)' \/ InBody(m)'
      OBVIOUS
    <3>1. m + 1 \in Places /\ m < Len(sent')
      BY <1>1, <1>3, <2>2 DEF InPiece, InBody
    <3>2. sent'[m + 1] = sent[m + 1] /\ Body(m + 1)' = Body(m + 1)
      BY <1>3, <3>1
    <3>3. Place' = Place
      BY <1>4 DEF Place
    <3> QED BY <1>4, <3>1, <3>2, <3>3 DEF InPiece, InBody
  <2>7. event.size > 0 => ~Spoils(event.from, event.from + event.size)'
    <3> SUFFICES ASSUME event.size > 0, NEW k \in Places',
                        \/ BadCut(k, event.from, event.from + event.size)'
                        \/ EmptyThenMore(k, event.from, event.from + event.size)'
                        \/ Unsayable(k, event.from + event.size)'
                 PROVE  FALSE
      BY <1>4 DEF Spoils
    <3>1. /\ event.from \in Nat /\ event.size \in Nat /\ event.from + event.size <= wire
          /\ wire \in Nat
      BY <1>2 DEF Typed, Looping
    <3>2. CASE k \in Places
      <4>1. sent'[k] = sent[k] /\ Body(k)' = Body(k)
        BY <1>3, <3>2
      <4>2. \/ BadCut(k, event.from, event.from + event.size)
            \/ EmptyThenMore(k, event.from, event.from + event.size)
            \/ Unsayable(k, event.from + event.size)
        BY <1>4, <4>1 DEF BadCut, EmptyThenMore, Unsayable
      <4> QED BY <1>8, <3>2, <4>2 DEF InPlace, Spoils
    <3>3. CASE k \notin Places
      <4>1. k = l + 1
        BY <1>3, <3>3
      <4>2. sent'[k].at = wire /\ Body(k)' = wire + HeaderSize(n) /\ HeaderSize(n) \in {6, 8, 14}
        <5>1. sent'[l + 1].at = wire
          <6>1. sent'[l + 1] = [at |-> wire, len |-> n]
            BY <1>3
          <6>2. [at |-> wire, len |-> n].at = wire
            OBVIOUS
          <6> QED BY <6>1, <6>2
        <5>2. HeaderSize(n) \in {6, 8, 14}
          BY HeaderSizes
        <5>3. Body(k)' = Body(l + 1)'
          BY <4>1
        <5> QED BY <1>3, <4>1, <5>1, <5>2, <5>3
      <4> DEFINE f == event.from  t == event.from + event.size
      <4>3. ~BadCut(k, f, t)'
        <5> DEFINE c == event.from - sent'[k].at
        <5>1. event' = event
          BY <1>4
        <5>2. c = event.from - wire
          BY <4>2
        <5> HIDE DEF c
        <5>3. BadCut(k, f, t)' => 0 < c
          BY <5>1, Zenon DEF BadCut, c
        <5>4. event.from - wire <= 0
          BY <3>1
        <5> QED BY <5>2, <5>3, <5>4
      <4>4. ~EmptyThenMore(k, f, t)'
        BY <1>4, <3>1, <4>2 DEF EmptyThenMore
      <4>5. ~Unsayable(k, t)'
        BY <1>4, <3>1, <4>2 DEF Unsayable
      <4> QED BY <4>3, <4>4, <4>5
    <3> QED BY <3>2, <3>3
  <2>8. /\ Between(Len(got))' <=> Between(m)'
        /\ InPiece(Len(got))' <=> InPiece(m)'
        /\ InBody(Len(got))' <=> InBody(m)'
    BY <1>4, <2>1
  <2> QED BY <1>4, <1>8, <2>1, <2>2, <2>4, <2>5, <2>6, <2>7, <2>8 DEF InPlace
<1>9. Remembered'
  <2> SUFFICES ASSUME NEW k \in Places', (Body(k) - 4 < read)', (read < Body(k))'
               PROVE  k \in torn
    BY <1>4 DEF Remembered
  <2>1. CASE k \in Places
    <3>1. Body(k)' = Body(k) /\ read' = read
      BY <1>3, <1>4, <2>1
    <3>2. Body(k) - 4 < read /\ read < Body(k)
      BY <3>1
    <3>3. Remembered
      BY DEF IInv
    <3> QED BY <2>1, <3>2, <3>3, Zenon DEF Remembered
  <2>2. CASE k \notin Places
    <3>1. k = l + 1 /\ HeaderSize(n) \in {6, 8, 14}
      BY <1>3, <2>2, HeaderSizes
    <3>2. Body(k)' = wire + HeaderSize(n)
      BY <1>3, <3>1
    <3>3. wire \in Nat /\ read \in Nat /\ read <= wire
      BY <1>2 DEF Typed
    <3>4. ~(wire + HeaderSize(n) - 4 < read)
      BY <3>1, <3>3
    <3>5. read' = read
      BY <1>4
    <3>6. wire + HeaderSize(n) - 4 < read
      BY <3>1, <3>2, <3>3, <3>5
    <3> QED BY <3>4, <3>6
  <2> QED BY <2>1, <2>2
<1> QED BY <1>3, <1>4, <1>5, <1>6, <1>7, <1>8, <1>9 DEF IInv

-----------------------------------------------------------------------------
\* What get_parse_header makes of q when it has size more bytes of the header, h bytes long, of
\* message k.
ParsedAs(r, q, size, k, h) ==
    /\ r \in Params /\ r.fin = FALSE /\ r.at = sent[k].at
    /\ r.header > 0 /\ r.header = IF q.header + size < 64 THEN q.header + size ELSE 64
    /\ r.continue = q.continue /\ r.tmpmsglen = q.tmpmsglen /\ r.body = q.body /\ r.type = q.type
    /\ IF q.header + size < h - 4 THEN r.maskindex \in {32, h} /\ r.payloadlen = 0
       ELSE r.maskindex = h - q.header /\ r.payloadlen = Announced(sent[k].len)

\* get_parse_header, of a header or of the rest of one.
LEMMA Parsed ==
    ASSUME Typed, Laid, NEW q \in Params, NEW u \in Nat, NEW size \in Nat \ {0}, NEW k \in Places,
           q.header < HeaderSize(sent[k].len),
           sent[k].at = IF q.header = 0 THEN u ELSE q.at
    PROVE  ParsedAs(ParseHeader(q, u, size), q, size, k, HeaderSize(sent[k].len))
<1>0. PICK h, r : h = HeaderSize(sent[k].len) /\ r = ParseHeader(q, u, size)
  OBVIOUS
<1> DEFINE have  == q.header + size
           start == IF q.header = 0 THEN u ELSE q.at
           n     == sent[HeaderAt(start)].len
           least == Min({have, HeaderRoom})
           r0    == [q EXCEPT !.at = start, !.header = least, !.fin = FALSE, !.payloadlen = 0]
<1>1. HeaderAt(start) = k /\ n = sent[k].len /\ HeaderSize(n) = h
  BY <1>0, HeaderFound
<1>2. sent[k].len \in Nat /\ sent[k].at \in Nat /\ h \in {6, 8, 14} /\ Announced(sent[k].len) \in Nat
  BY <1>0, Layout, HeaderSizes
<1>3. /\ q = [fin |-> q.fin, maskindex |-> q.maskindex, header |-> q.header, at |-> q.at,
              payloadlen |-> q.payloadlen, tmpmsglen |-> q.tmpmsglen, continue |-> q.continue,
              body |-> q.body, type |-> q.type]
      /\ q.fin \in BOOLEAN /\ q.maskindex \in Int /\ q.header \in Nat /\ q.at \in Nat
      /\ q.payloadlen \in Nat /\ q.tmpmsglen \in Nat /\ q.continue \in Nat /\ q.body \in Nat
      /\ q.type \in Nat
  BY DEF Params
<1>4. have \in Nat /\ have > 0
  BY <1>3
<1>5. least = IF have < 64 THEN have ELSE 64
  <2>1. least \in {have, 64} /\ \A y \in {have, 64} : least <= y
    <3> DEFINE P(x) == x \in {have, 64} /\ \A y \in {have, 64} : x <= y
    <3>1. least = CHOOSE x \in {have, 64} : \A y \in {have, 64} : x <= y
      BY DEF Min, HeaderRoom
    <3>2. P(IF have < 64 THEN have ELSE 64)
      BY <1>4
    <3>3. \E x \in {have, 64} : \A y \in {have, 64} : x <= y
      BY <3>2
    <3> HIDE DEF have, least
    <3> QED BY <3>1, <3>3, Zenon
  <2> HIDE DEF least
  <2> QED BY <1>4, <2>1
<1>6. r = IF have < 2 THEN [r0 EXCEPT !.maskindex = 32]
          ELSE IF have < HeaderSize(n) - 4 THEN [r0 EXCEPT !.maskindex = HeaderSize(n)]
          ELSE [r0 EXCEPT !.maskindex = HeaderSize(n) - q.header, !.payloadlen = Announced(n)]
  BY <1>0, Zenon DEF ParseHeader
<1>7. /\ start = sent[k].at /\ least \in Nat /\ least > 0
  BY <1>4, <1>5
<1>8. /\ r0 \in Params /\ r0.fin = FALSE /\ r0.header = least /\ r0.at = sent[k].at
      /\ r0.payloadlen = 0 /\ r0.tmpmsglen = q.tmpmsglen /\ r0.continue = q.continue
      /\ r0.body = q.body /\ r0.type = q.type
  <2> HIDE DEF least, start, have
  <2> QED BY <1>2, <1>7 DEF Params
<1> DEFINE mask == IF have < 2 THEN 32 ELSE IF have < h - 4 THEN h ELSE h - q.header
           size2 == IF have < h - 4 THEN 0 ELSE Announced(sent[k].len)
<1>9. h - 4 >= 2 /\ h - 4 \in Nat /\ h - q.header \in Int /\ h \in Int
  BY <1>2, <1>3
<1>10. r = IF have < 2 THEN [r0 EXCEPT !.maskindex = 32]
           ELSE IF have < h - 4 THEN [r0 EXCEPT !.maskindex = h]
           ELSE [r0 EXCEPT !.maskindex = h - q.header, !.payloadlen = Announced(sent[k].len)]
  <2> HIDE DEF have, r0, n
  <2> QED BY <1>1, <1>6, Zenon
<1>11. \/ r = [r0 EXCEPT !.maskindex = mask] /\ size2 = 0
       \/ r = [r0 EXCEPT !.maskindex = mask, !.payloadlen = size2]
  <2>1. CASE have < 2
    <3>1. mask = 32 /\ size2 = 0
      BY <1>4, <1>9, <2>1
    <3> QED BY <1>10, <2>1, <3>1, Zenon
  <2>2. CASE ~(have < 2) /\ have < h - 4
    <3>1. mask = h /\ size2 = 0
      BY <2>2
    <3> QED BY <1>10, <2>2, <3>1, Zenon
  <2>3. CASE ~(have < 2) /\ ~(have < h - 4)
    <3>1. mask = h - q.header /\ size2 = Announced(sent[k].len)
      BY <2>3
    <3> QED BY <1>10, <2>3, <3>1, Zenon
  <2> QED BY <2>1, <2>2, <2>3
<1>12. /\ r \in Params /\ r.fin = FALSE /\ r.at = sent[k].at /\ r.header = least
       /\ r.maskindex = mask /\ r.payloadlen = size2 /\ r.continue = q.continue
       /\ r.tmpmsglen = q.tmpmsglen /\ r.body = q.body /\ r.type = q.type
  <2>1. mask \in Int /\ size2 \in Nat
    BY <1>2, <1>3, <1>9
  <2> HIDE DEF mask, size2, least, r0
  <2> QED BY <1>8, <1>11, <2>1 DEF Params
<1>13. IF have < h - 4 THEN r.maskindex \in {32, h} /\ r.payloadlen = 0
       ELSE r.maskindex = h - q.header /\ r.payloadlen = Announced(sent[k].len)
  BY <1>2, <1>4, <1>12
<1>14. ParsedAs(r, q, size, k, h)
  BY <1>5, <1>7, <1>12, <1>13 DEF ParsedAs
<1> QED BY <1>0, <1>14

-----------------------------------------------------------------------------
\* A read begins in the place where the receiver is.
LEMMA ReadStep ==
    ASSUME IInv, NEW n \in 1 .. RecvBuffer, Read(n)
    PROVE  IInv'
<1>1. /\ open /\ ~lost /\ event.size = 0 /\ n <= wire - read
      /\ event' = [from |-> read, size |-> n, old |-> 0] /\ read' = read + n
      /\ spoilt' = (spoilt \/ Spoils(read, read + n))
      /\ torn' = torn \cup {k \in Places : Body(k) - 4 < read + n /\ read + n < Body(k)}
  BY DEF Read, Idle
<1>2. /\ sent' = sent /\ wire' = wire /\ sending' = sending /\ param' = param /\ got' = got
      /\ open' = open /\ lost' = lost
  BY DEF Read
<1>3. n \in Nat \ {0} /\ read \in Nat /\ wire \in Nat
  BY FramingAssumption DEF IInv, Typed
<1>4. /\ event' \in [from : Nat, size : Nat, old : Nat]
      /\ event'.size = n /\ event'.from = read /\ event'.old = 0
  BY <1>1, <1>3
<1>5. read' \in Nat /\ read' <= wire' /\ read' > read
  BY <1>1, <1>2, <1>3
<1>6. spoilt' \in BOOLEAN
  BY <1>1, Zenon
<1>7. Typed'
  BY <1>2, <1>4, <1>5, <1>6 DEF IInv, Typed
<1>8. \A m : After(m)' = After(m) /\ Body(m)' = Body(m)
  BY <1>2 DEF After, End, Body
<1>9. Laid' /\ Places' = Places
  <2>1. Places' = Places
    BY <1>2 DEF Places
  <2> QED BY <1>2, <1>8, <2>1 DEF IInv, Laid
<1>10. Looping'
  <2>1. param.continue = 0
    BY <1>1 DEF IInv, Looping
  <2> QED BY <1>1, <1>2, <1>3, <1>4, <2>1 DEF Looping
<1>11. Pieces'
  <2>1. param.body \in Nat /\ \A i \in 1 .. Len(got) : got[i].body \in Nat
    <3>1. \A i \in 1 .. Len(got) : got[i] \in [body : Nat, len : Nat, type : Nat]
      BY ElementOfSeq DEF IInv, Typed
    <3>2. param \in Params
      BY DEF IInv, Typed
    <3> QED BY <3>1, <3>2 DEF Params
  <2>2. param.body <= read' /\ \A i \in 1 .. Len(got) : got[i].body <= read'
    BY <1>3, <1>5, <2>1 DEF IInv, Pieces
  <2> QED BY <1>2, <1>9, <2>2 DEF IInv, Pieces
<1>12. Remembered'
  BY <1>1, <1>8, <1>9 DEF Remembered
<1>13. ASSUME ~spoilt'
       PROVE  InPlace'
  <2>1. ~spoilt /\ ~Spoils(read, read + n)
    BY <1>1, <1>13
  <2>2. InPlace
    BY <2>1 DEF IInv
  <2>3. Received'
    <3>1. After(Len(got)) <= read' /\ After(Len(got)) \in Nat
      <4>1. Len(got) \in 0 .. Len(sent) /\ After(Len(got)) <= read
        <5>1. Len(got) \in Nat
          BY DEF IInv, Typed
        <5> QED BY <2>2, <5>1, Layout DEF IInv, InPlace, Received
      <4>2. After(Len(got)) \in Nat
        BY <4>1, Layout DEF IInv
      <4> QED BY <1>3, <1>5, <4>1, <4>2
    <3>2. After(Len(got))' = After(Len(got)) /\ torn \subseteq torn'
      BY <1>1, <1>2, <1>8
    <3> QED BY <1>2, <1>8, <2>2, <3>1, <3>2 DEF InPlace, Received
  <2>4. Place' = Place
    BY <1>1, <1>3, <1>4 DEF Place
  <2>5. \A m : /\ Between(m) => Between(m)'
               /\ InPiece(m) => InPiece(m)'
               /\ InBody(m) => InBody(m)'
    BY <1>1, <1>2, <1>8, <2>4 DEF Between, InPiece, InBody
  <2>6. Spoils(event.from, event.from + event.size)' <=> Spoils(read, read + n)
    BY <1>2, <1>4, <1>8, <1>9 DEF Spoils, BadCut, EmptyThenMore, Unsayable
  <2>7. open' => Between(Len(got))' \/ InPiece(Len(got))' \/ InBody(Len(got))'
    <3>1. PICK m : m = Len(got)
      OBVIOUS
    <3>2. Between(m) \/ InPiece(m) \/ InBody(m)
      BY <1>1, <2>2, <3>1 DEF InPlace
    <3>3. Between(m)' \/ InPiece(m)' \/ InBody(m)'
      BY <2>5, <3>2
    <3> QED BY <1>2, <3>1, <3>3
  <2> QED BY <1>2, <2>1, <2>2, <2>3, <2>6, <2>7 DEF InPlace
<1> QED BY <1>6, <1>7, <1>9, <1>10, <1>11, <1>12, <1>13 DEF IInv

\* A connection that ends keeps nothing.
LEMMA Ended ==
    ASSUME IInv, open' = FALSE, param' = FreshParam,
           event' \in [from : Nat, size : Nat, old : Nat], event'.size = 0, event'.old = 0,
           UNCHANGED <<sent, wire, sending, read, lost, spoilt, torn>>,
           got' \in Seq([body : Nat, len : Nat, type : Nat]),
           \A i \in 1 .. Len(got') : got'[i].body <= read,
           ~spoilt => Received'
    PROVE  IInv'
<1>1. /\ sent' = sent /\ wire' = wire /\ sending' = sending /\ read' = read /\ lost' = lost
      /\ spoilt' = spoilt /\ torn' = torn
  OBVIOUS
<1>2. /\ param' \in Params /\ param'.fin /\ param'.header = 0 /\ param'.maskindex = 0
      /\ param'.tmpmsglen = 0 /\ param'.continue = 0 /\ param'.body = 0
  BY DEF FreshParam, Params
<1>3. event' \in [from : Nat, size : Nat, old : Nat] /\ event'.size = 0 /\ event'.old = 0
  OBVIOUS
<1>4. Typed'
  BY <1>1, <1>2, <1>3 DEF IInv, Typed
<1>5. \A m : After(m)' = After(m) /\ Body(m)' = Body(m)
  BY <1>1 DEF After, End, Body
<1>6. Laid' /\ Places' = Places
  <2>1. Places' = Places
    BY <1>1 DEF Places
  <2> QED BY <1>1, <1>5, <2>1 DEF IInv, Laid
<1>7. Looping'
  BY <1>2, <1>3 DEF Looping
<1>8. Pieces'
  <2>1. read \in Nat
    BY DEF IInv, Typed
  <2> QED BY <1>1, <1>2, <2>1 DEF Pieces
<1>9. Remembered'
  BY <1>1, <1>5, <1>6 DEF IInv, Remembered
<1>10. ~spoilt => InPlace'
  BY <1>1, <1>3 DEF IInv, InPlace
<1> QED BY <1>1, <1>4, <1>6, <1>7, <1>8, <1>9, <1>10 DEF IInv

-----------------------------------------------------------------------------
\* The receiver gives its place up between two messages, or the connection is spoilt.
LEMMA ResetStep ==
    ASSUME IInv, Reset
    PROVE  IInv'
<1>1. /\ open /\ ~lost /\ event.size = 0 /\ param' = FreshParam
      /\ spoilt' = (spoilt \/ read \notin {0} \cup {End(k) : k \in Places})
      /\ sent' = sent /\ wire' = wire /\ sending' = sending /\ read' = read /\ event' = event
      /\ got' = got /\ open' = open /\ lost' = lost /\ torn' = torn
  BY DEF Reset, Idle
<1>2. /\ param' \in Params /\ param'.fin /\ param'.header = 0 /\ param'.maskindex = 0
      /\ param'.tmpmsglen = 0 /\ param'.continue = 0 /\ param'.body = 0
  BY <1>1 DEF FreshParam, Params
<1>3. spoilt' \in BOOLEAN
  BY <1>1, Zenon
<1>4. Typed'
  BY <1>1, <1>2, <1>3 DEF IInv, Typed
<1>5. \A m : After(m)' = After(m) /\ Body(m)' = Body(m) /\ End(m)' = End(m)
  BY <1>1 DEF After, End, Body
<1>6. Laid' /\ Places' = Places
  <2>1. Places' = Places
    BY <1>1 DEF Places
  <2> QED BY <1>1, <1>5, <2>1 DEF IInv, Laid
<1>7. Looping'
  BY <1>1, <1>2 DEF IInv, Looping
<1>8. Pieces'
  <2>1. read \in Nat
    BY DEF IInv, Typed
  <2> QED BY <1>1, <1>2, <2>1 DEF IInv, Pieces
<1>9. Remembered'
  BY <1>1, <1>5, <1>6 DEF IInv, Remembered
<1>10. ASSUME ~spoilt'
       PROVE  InPlace'
  <2>1. InPlace /\ (read = 0 \/ \E k \in Places : read = End(k))
    BY <1>1, <1>10 DEF IInv
  <2>2. PICK m : m = Len(got)
    OBVIOUS
  <2>3. m \in Nat /\ m <= Len(sent) /\ Len(sent) \in Nat /\ After(m) <= read /\ Place = read
        /\ read \in Nat
    BY <1>1, <2>1, <2>2 DEF IInv, Typed, InPlace, Received, Place
  <2>4. Between(m) \/ InPiece(m) \/ InBody(m)
    BY <1>1, <2>1, <2>2 DEF InPlace
  <2>5. read = After(m)
    <3>1. CASE Between(m)
      BY <2>3, <3>1 DEF Between
    <3>2. CASE InPiece(m) \/ InBody(m)
      <4>1. m + 1 \in Places /\ m + 1 \in 0 .. Len(sent) /\ m \in 0 .. Len(sent)
        BY <2>3, <3>2 DEF InPiece, InBody, Places
      <4>2. /\ sent[m + 1].at \in Nat /\ sent[m + 1].len \in Nat
            /\ HeaderSize(sent[m + 1].len) \in {6, 8, 14} /\ sent[m + 1].at = After(m)
            /\ After(m + 1) = End(m + 1)
            /\ Body(m + 1) = sent[m + 1].at + HeaderSize(sent[m + 1].len)
            /\ End(m + 1) = Body(m + 1) + sent[m + 1].len
        <5>1. (m + 1) - 1 = m
          BY <2>3
        <5> QED BY <4>1, <5>1, Layout DEF IInv
      <4>3. After(m) < read /\ read < After(m + 1)
        <5>1. param \in Params
          BY DEF IInv, Typed
        <5>2. CASE InPiece(m)
          <6>1. /\ param.header > 0 /\ read = sent[m + 1].at + param.header
                /\ param.header < HeaderSize(sent[m + 1].len)
            BY <2>3, <5>2 DEF InPiece, IInv, Pieces
          <6>2. param.header \in Nat
            BY <5>1 DEF Params
          <6> QED BY <4>2, <6>1, <6>2
        <5>3. CASE InBody(m)
          <6>1. read = Body(m + 1) + param.tmpmsglen /\ param.tmpmsglen < sent[m + 1].len
            BY <2>3, <5>3 DEF InBody
          <6>2. param.tmpmsglen \in Nat
            BY <5>1 DEF Params
          <6> QED BY <4>2, <6>1, <6>2
        <5> QED BY <3>2, <5>2, <5>3
      <4>4. ASSUME NEW k \in Places, read = End(k)
            PROVE  FALSE
        <5>1. k \in 0 .. Len(sent) /\ k \in Nat /\ After(k) = read
          BY <4>4, Layout DEF IInv, Places
        <5>2. k < m => After(k) < After(m)
          BY <4>1, <5>1, Layout DEF IInv
        <5>3. m + 1 < k => After(m + 1) < After(k)
          BY <4>1, <5>1, Layout DEF IInv
        <5>4. k < m \/ k = m \/ k = m + 1 \/ m + 1 < k
          BY <2>3, <5>1
        <5>5. After(m) \in Nat /\ After(m + 1) \in Nat
          BY <4>1, Layout DEF IInv
        <5> QED BY <2>3, <4>3, <5>1, <5>2, <5>3, <5>4, <5>5
      <4>5. read # 0
        <5>1. After(m) \in Nat
          BY <4>1, Layout DEF IInv
        <5> QED BY <2>3, <4>3, <5>1
      <4> QED BY <2>1, <4>4, <4>5
    <3> QED BY <2>4, <3>1, <3>2
  <2>6. Between(m)'
    BY <1>1, <1>2, <1>5, <2>5 DEF Between, Place
  <2>7. Between(Len(got))'
    BY <1>1, <2>2, <2>6
  <2>8. Received'
    BY <1>1, <1>5, <2>1 DEF InPlace, Received
  <2> QED BY <1>1, <2>1, <2>7, <2>8 DEF InPlace
<1> QED BY <1>3, <1>4, <1>6, <1>7, <1>8, <1>9, <1>10 DEF IInv

\* What a turn that expects a header finds: the message that the receiver is at.
LEMMA HeaderTurn ==
    ASSUME IInv, InHeader
    PROVE  /\ From \in Nat /\ Size \in Nat \ {0} /\ From + Size = read
           /\ From = event.from + event.old /\ Size = event.size - event.old /\ param \in Params
           /\ \E k \in Places :
                /\ param.header < HeaderSize(sent[k].len)
                /\ sent[k].at = IF param.header = 0 THEN From ELSE param.at
                /\ ParsedAs(Header, [param EXCEPT !.continue = 0], Size, k, HeaderSize(sent[k].len))
<1>1. /\ Typed /\ Laid /\ Looping /\ Pieces /\ AtHeader(param) /\ event.size > 0
      /\ HeaderAt(IF param.header = 0 THEN From ELSE param.at) # 0
  BY DEF IInv, InHeader, InEvent
<1>2. param \in Params /\ event \in [from : Nat, size : Nat, old : Nat] /\ read \in Nat
  BY <1>1 DEF Typed
<1>3. /\ From \in Nat /\ Size \in Nat \ {0} /\ From + Size = read
      /\ From = event.from + event.old /\ Size = event.size - event.old
  BY <1>1, <1>2 DEF Looping, From, Size, Skipped
<1> DEFINE q == [param EXCEPT !.continue = 0]
<1>4. /\ q \in Params /\ q.fin = param.fin /\ q.header = param.header /\ q.at = param.at
      /\ q.continue = 0 /\ q.tmpmsglen = param.tmpmsglen /\ q.body = param.body
      /\ q.type = param.type
  BY <1>2 DEF Params
<1>5. PICK k \in Places : sent[k].at = IF param.header = 0 THEN From ELSE param.at
  BY <1>1, HeaderFound
<1>6. param.header < HeaderSize(sent[k].len)
  <2>1. CASE param.header = 0
    BY <2>1, HeaderSizes
  <2>2. CASE param.header # 0
    <3>1. 0 < param.header /\ param.header < param.maskindex
      BY <1>1, <1>2, <2>2 DEF AtHeader, Pieces, Params
    <3>2. PICK j \in Places : sent[j].at = param.at /\ param.header < HeaderSize(sent[j].len)
      BY <1>1, <3>1 DEF Pieces
    <3>3. j = k
      BY <1>1, <1>5, <2>2, <3>2, HeaderFound
    <3> QED BY <3>2, <3>3
  <2> QED BY <2>1, <2>2
<1>7. Header = ParseHeader(q, From, Size)
  BY DEF Header
<1> HIDE DEF q
<1>8. sent[k].at = IF q.header = 0 THEN From ELSE q.at
  BY <1>4, <1>5
<1>9. ParsedAs(Header, q, Size, k, HeaderSize(sent[k].len))
  BY <1>1, <1>3, <1>4, <1>6, <1>7, <1>8, Parsed
<1>10. ParsedAs(Header, [param EXCEPT !.continue = 0], Size, k, HeaderSize(sent[k].len))
  BY <1>9 DEF q
<1> QED BY <1>2, <1>3, <1>5, <1>6, <1>10

\* Until the connection is spoilt a header is expected where the next message begins, or
\* where the last read left off in its header.
LEMMA HeaderPlace ==
    ASSUME IInv, InHeader, open, ~spoilt, NEW k \in Places,
           sent[k].at = IF param.header = 0 THEN From ELSE param.at
    PROVE  /\ k = Len(got) + 1 /\ From = sent[k].at + param.header /\ param.tmpmsglen = 0
           /\ param.header > 0 => event.old = 0
           /\ param.header > HeaderSize(sent[k].len) - 4 => k \in torn
<1>1. /\ Typed /\ Laid /\ Looping /\ Pieces /\ InPlace /\ AtHeader(param) /\ event.size > 0
  BY DEF IInv, InHeader, InEvent
<1>2. PICK m : m = Len(got)
  OBVIOUS
<1>3. /\ Between(m) \/ InPiece(m) \/ InBody(m)
      /\ param \in Params /\ m \in Nat /\ m <= Len(sent) /\ Len(sent) \in Nat
      /\ From = event.from + event.old /\ Place = From
  <2>1. Between(m) \/ InPiece(m) \/ InBody(m)
    BY <1>1, <1>2 DEF InPlace
  <2>2. m \in Nat /\ m <= Len(sent) /\ Len(sent) \in Nat
    BY <1>1, <1>2 DEF Typed, InPlace, Received
  <2>3. param \in Params /\ From = event.from + event.old
    BY HeaderTurn
  <2>4. event.size # 0
    BY <1>1 DEF Typed
  <2> QED BY <2>1, <2>2, <2>3, <2>4 DEF Place
<1>4. ~InBody(m)
  <2>1. param.header \in Nat /\ param.maskindex \in Int
    BY <1>3 DEF Params
  <2> QED BY <1>1, <2>1 DEF InBody, AtHeader
<1>5. k \in 1 .. Len(sent) /\ sent[k].at = After(k - 1) /\ HeaderSize(sent[k].len) \in {6, 8, 14}
  BY <1>1, Layout DEF Places
<1>6. CASE Between(m)
  <2>1. param.header = 0 /\ param.tmpmsglen = 0 /\ sent[k].at = From /\ From = After(m)
    BY <1>1, <1>3, <1>6 DEF Between, Pieces
  <2> DEFINE j == k - 1
  <2>2. j \in 0 .. Len(sent) /\ m \in 0 .. Len(sent) /\ After(j) = After(m) /\ k = j + 1
    BY <1>3, <1>5, <2>1
  <2> HIDE DEF j
  <2>3. After(j) \in Nat /\ (j < m => After(j) < After(m)) /\ (m < j => After(m) < After(j))
    BY <1>1, <2>2, Layout
  <2>4. j = m
    BY <2>2, <2>3
  <2>5. From \in Nat
    BY HeaderTurn
  <2> QED BY <1>2, <1>5, <2>1, <2>2, <2>4, <2>5
<1>7. CASE InPiece(m)
  <2>1. /\ ~param.fin /\ param.header > 0 /\ param.continue = 0 /\ event.old = 0
        /\ param.at = sent[m + 1].at /\ From = param.at + param.header /\ param.tmpmsglen = 0
        /\ m < Len(sent)
        /\ param.header > HeaderSize(sent[m + 1].len) - 4 => m + 1 \in torn
    BY <1>1, <1>3, <1>7 DEF InPiece, Pieces, Looping
  <2>2. m + 1 \in Places /\ sent[k].at = sent[m + 1].at
    BY <1>3, <2>1 DEF Places
  <2>3. k = m + 1
    BY <1>1, <2>2, HeaderFound
  <2> QED BY <1>2, <2>1, <2>3
<1> QED BY <1>3, <1>4, <1>6, <1>7

\* The end of a turn, which leaves q: the loop goes on behind what was read, or the read is
\* used up.
LEMMA TurnEnds ==
    ASSUME IInv, InEvent, NEW q \in Params, NextTurn(q),
           q.continue = 0 \/ (event.old < q.continue /\ q.continue < event.size),
           UNCHANGED <<sent, wire, sending, read, open, lost, spoilt, torn>>,
           got' \in Seq([body : Nat, len : Nat, type : Nat])
    PROVE  /\ Typed' /\ Laid' /\ Looping' /\ Remembered' /\ param' = q /\ Places' = Places
           /\ \A m : After(m)' = After(m) /\ Body(m)' = Body(m)
           /\ Place' = IF q.continue = 0 THEN read ELSE event.from + q.continue
           /\ InPlace => (event.size > 0 => ~Spoils(event.from, event.from + event.size))'
<1>1. /\ sent' = sent /\ wire' = wire /\ sending' = sending /\ read' = read /\ open' = open
      /\ lost' = lost /\ spoilt' = spoilt /\ torn' = torn /\ param' = q
  BY DEF NextTurn
<1>2. /\ Typed /\ Laid /\ Looping /\ Remembered /\ event.size > 0
      /\ event \in [from : Nat, size : Nat, old : Nat] /\ q.continue \in Nat
  BY DEF IInv, InEvent, Typed, Params
<1>3. \/ q.continue = 0 /\ event' = NoEvent
      \/ q.continue # 0 /\ event' = [event EXCEPT !.old = q.continue]
  BY <1>2 DEF NextTurn
<1>4. /\ event' \in [from : Nat, size : Nat, old : Nat]
      /\ event'.old = q.continue
      /\ IF q.continue = 0 THEN event'.size = 0
         ELSE event'.size = event.size /\ event'.from = event.from
  <2>1. CASE q.continue = 0 /\ event' = NoEvent
    BY <2>1 DEF NoEvent
  <2>2. CASE q.continue # 0 /\ event' = [event EXCEPT !.old = q.continue]
    BY <1>2, <2>2
  <2> QED BY <1>3, <2>1, <2>2
<1>5. Typed'
  BY <1>1, <1>2, <1>4 DEF Typed
<1>6. \A m : After(m)' = After(m) /\ Body(m)' = Body(m)
  BY <1>1 DEF After, End, Body
<1>7. Laid' /\ Places' = Places /\ Remembered'
  <2>1. Places' = Places
    BY <1>1 DEF Places
  <2> QED BY <1>1, <1>2, <1>6, <2>1 DEF Laid, Remembered
<1>8. Looping'
  BY <1>1, <1>2, <1>4 DEF Looping
<1>9. Place' = IF q.continue = 0 THEN read ELSE event.from + q.continue
  BY <1>1, <1>2, <1>4 DEF Place
<1>10. ASSUME InPlace, (event.size > 0)'
       PROVE  ~Spoils(event.from, event.from + event.size)'
  <2>1. event'.size = event.size /\ event'.from = event.from
    BY <1>4, <1>10
  <2>2. ~Spoils(event.from, event.from + event.size)
    BY <1>2, <1>10 DEF InPlace
  <2> QED BY <1>1, <1>6, <1>7, <2>1, <2>2 DEF Spoils, BadCut, EmptyThenMore, Unsayable
<1> QED BY <1>1, <1>5, <1>6, <1>7, <1>8, <1>9, <1>10

\* The other side has closed the connection, or the message is too long.
LEMMA CloseStep ==
    ASSUME IInv, Hangup \/ TooLong
    PROVE  IInv'
<1>1. /\ open' = FALSE /\ param' = FreshParam /\ got' = got
      /\ UNCHANGED <<sent, wire, sending, read, lost, spoilt, torn>>
  BY DEF Hangup, TooLong
<1>2. event' \in [from : Nat, size : Nat, old : Nat] /\ event'.size = 0 /\ event'.old = 0
  <2>1. CASE TooLong
    BY <2>1 DEF TooLong, NoEvent
  <2>2. CASE Hangup
    BY <2>2 DEF Hangup, Idle, IInv, Looping, Typed
  <2> QED BY <2>1, <2>2
<1>3. ~spoilt => Received'
  <2>1. \A m : After(m)' = After(m) /\ Body(m)' = Body(m)
    BY <1>1 DEF After, End, Body
  <2> QED BY <1>1, <2>1 DEF IInv, InPlace, Received
<1> QED BY <1>1, <1>2, <1>3, Ended DEF IInv, Typed, Pieces

\* Until the connection is spoilt a header is where one is expected.
LEMMA HeaderThere ==
    ASSUME IInv, InEvent, AtHeader(param), ~spoilt
    PROVE  InHeader
<1>1. /\ Typed /\ Laid /\ Looping /\ Pieces /\ InPlace /\ event.size > 0 /\ open
  BY DEF IInv, InEvent, Looping, Typed
<1>2. PICK m : m = Len(got)
  OBVIOUS
<1>3. /\ param \in Params /\ event \in [from : Nat, size : Nat, old : Nat]
      /\ read \in Nat /\ wire \in Nat /\ read <= wire /\ m \in Nat /\ Len(sent) \in Nat
      /\ sending \in BOOLEAN
  BY <1>1, <1>2 DEF Typed
<1>4. From = event.from + event.old /\ From \in Nat /\ From < wire /\ Place = From
  BY <1>1, <1>3 DEF Looping, From, Skipped, Place
<1>5. (Between(m) \/ InPiece(m) \/ InBody(m)) /\ m <= Len(sent)
  BY <1>1, <1>2 DEF InPlace, Received
<1>6. ~InBody(m)
  <2>1. param.header \in Nat /\ param.maskindex \in Int
    BY <1>3 DEF Params
  <2> QED BY <2>1 DEF InBody, AtHeader
<1>7. CASE Between(m)
  <2>1. param.header = 0 /\ From = After(m)
    BY <1>1, <1>4, <1>7 DEF Between, Pieces
  <2>2. m # Len(sent)
    <3>1. wire = After(Len(sent)) \/ wire < After(Len(sent))
      BY <1>1, <1>3 DEF Laid
    <3>2. After(Len(sent)) \in Nat
      <4>1. Len(sent) \in 0 .. Len(sent)
        BY <1>3
      <4> QED BY <1>1, <4>1, Layout
    <3> QED BY <1>3, <1>4, <2>1, <3>1, <3>2
  <2>3. m + 1 \in Places /\ (m + 1) - 1 = m
    BY <1>3, <1>5, <2>2 DEF Places
  <2>4. sent[m + 1].at = From
    BY <1>1, <2>1, <2>3, Layout
  <2>5. HeaderAt(From) = m + 1 /\ m + 1 # 0
    BY <1>1, <1>3, <2>3, <2>4, HeaderFound
  <2> QED BY <2>1, <2>5 DEF InHeader
<1>8. CASE InPiece(m)
  <2>1. /\ ~param.fin /\ param.header > 0 /\ param.at = sent[m + 1].at /\ m < Len(sent)
    BY <1>1, <1>8 DEF InPiece, Pieces
  <2>2. m + 1 \in Places /\ m + 1 # 0
    BY <1>3, <2>1 DEF Places
  <2>3. HeaderAt(param.at) = m + 1
    BY <1>1, <2>1, <2>2, HeaderFound
  <2>4. param.header # 0
    BY <1>3, <2>1 DEF Params
  <2> QED BY <2>2, <2>3, <2>4 DEF InHeader
<1> QED BY <1>5, <1>6, <1>7, <1>8

\* A header is taken from where there is none: the connection was spoilt before.
LEMMA LoseStep ==
    ASSUME IInv, Lose
    PROVE  IInv'
<1>1. /\ InEvent /\ AtHeader(param) /\ ~InHeader
      /\ lost' = TRUE
      /\ UNCHANGED <<sent, wire, sending, read, param, event, got, open, spoilt, torn>>
  BY DEF Lose, InHeader
<1>2. spoilt
  BY <1>1, HeaderThere DEF IInv, Typed
<1>3. /\ sent' = sent /\ wire' = wire /\ sending' = sending /\ read' = read /\ param' = param
      /\ event' = event /\ got' = got /\ open' = open /\ spoilt' = spoilt /\ torn' = torn
  BY <1>1
<1>4. \A m : After(m)' = After(m) /\ Body(m)' = Body(m)
  BY <1>3 DEF After, End, Body
<1>5. Places' = Places
  BY <1>3 DEF Places
<1>6. lost' \in BOOLEAN
  BY <1>1, Zenon
<1>7. Typed' /\ Laid' /\ Looping' /\ Pieces' /\ Remembered'
  BY <1>3, <1>4, <1>5, <1>6 DEF IInv, Typed, Laid, Looping, Pieces, Remembered
<1> QED BY <1>2, <1>3, <1>7 DEF IInv

\* A read ends in a header.  Unless it is a bad cut, the header is expected to go on.
LEMMA PartHeaderStep ==
    ASSUME IInv, PartHeader
    PROVE  IInv'
<1>1. /\ InHeader /\ InEvent /\ open /\ Typed /\ Laid /\ Looping /\ Pieces
      /\ Size < Header.maskindex /\ NextTurn(Header) /\ got' = got
      /\ UNCHANGED <<sent, wire, sending, read, open, lost, spoilt, torn>>
  BY DEF PartHeader, InHeader, InEvent, IInv, Looping, Typed
<1>2. /\ From \in Nat /\ Size \in Nat \ {0} /\ From + Size = read /\ param \in Params
      /\ From = event.from + event.old /\ event.from \in Nat /\ event.old \in Nat
      /\ event.from + event.size = read
  BY <1>1, HeaderTurn DEF Typed, Looping
<1>3. PICK k \in Places :
        /\ param.header < HeaderSize(sent[k].len)
        /\ sent[k].at = IF param.header = 0 THEN From ELSE param.at
        /\ ParsedAs(Header, [param EXCEPT !.continue = 0], Size, k, HeaderSize(sent[k].len))
  BY <1>1, HeaderTurn
<1> DEFINE q == [param EXCEPT !.continue = 0]
<1>4. /\ q.header = param.header /\ q.continue = 0 /\ q.tmpmsglen = param.tmpmsglen
      /\ q.body = param.body /\ param.header \in Nat /\ param.body \in Nat
  BY <1>2 DEF Params
<1> HIDE DEF q
<1>5. PICK h, r : h = HeaderSize(sent[k].len) /\ r = Header
  OBVIOUS
<1>6. h \in {6, 8, 14} /\ param.header < h /\ Size < r.maskindex
  BY <1>1, <1>3, <1>5, HeaderSizes
<1> DEFINE have == param.header + Size
<1>7. /\ r \in Params /\ r.fin = FALSE /\ r.at = sent[k].at /\ r.header > 0
      /\ r.header = (IF have < 64 THEN have ELSE 64) /\ r.continue = 0
      /\ r.tmpmsglen = param.tmpmsglen /\ r.body = param.body
      /\ IF have < h - 4 THEN r.maskindex \in {32, h} ELSE r.maskindex = h - param.header
  <2>1. ParsedAs(r, q, Size, k, h)
    BY <1>3, <1>5 DEF q
  <2> QED BY <1>4, <2>1 DEF ParsedAs
<1>8. have \in Nat /\ have < h /\ r.header = have
  BY <1>2, <1>4, <1>6, <1>7
<1>9. /\ Typed' /\ Laid' /\ Looping' /\ Remembered' /\ param' = r /\ Places' = Places
      /\ \A m : After(m)' = After(m) /\ Body(m)' = Body(m)
      /\ Place' = read
      /\ InPlace => (event.size > 0 => ~Spoils(event.from, event.from + event.size))'
  <2>1. got' \in Seq([body : Nat, len : Nat, type : Nat])
    BY <1>1 DEF Typed
  <2>2. Header \in Params /\ Header.continue = 0
    BY <1>5, <1>7
  <2> QED BY <1>1, <1>5, <2>1, <2>2, TurnEnds
<1>10. /\ sent' = sent /\ read' = read /\ open' = open /\ lost' = lost /\ spoilt' = spoilt
       /\ torn' = torn
  BY <1>1
<1>11. Pieces'
  <2>1. \E j \in Places : sent[j].at = r.at /\ r.header < HeaderSize(sent[j].len)
    BY <1>5, <1>7, <1>8
  <2> QED BY <1>1, <1>7, <1>9, <1>10, <2>1 DEF Pieces
<1>12. ASSUME ~spoilt
       PROVE  InPlace'
  <2>1. InPlace
    BY <1>12 DEF IInv
  <2>2. /\ k = Len(got) + 1 /\ From = sent[k].at + param.header /\ param.tmpmsglen = 0
        /\ param.header > 0 => event.old = 0
    BY <1>1, <1>3, <1>12, HeaderPlace
  <2>3. /\ sent[k].at \in Nat /\ Body(k) = sent[k].at + h /\ k \in 1 .. Len(sent)
        /\ Len(sent) \in Nat
    BY <1>1, <1>5, Layout DEF Places
  <2>4. read = sent[k].at + have
    BY <1>2, <1>4, <2>2, <2>3
  <2>5. have < r.maskindex
    <3>1. CASE have < h - 4
      BY <1>6, <1>7, <1>8, <3>1
    <3>2. CASE have >= h - 4 /\ param.header = 0
      BY <1>6, <1>7, <1>8, <3>2
    <3>3. CASE have >= h - 4 /\ param.header > 0
      <4>1. ~BadCut(k, event.from, read)
        BY <1>1, <1>2, <2>1 DEF InPlace, Spoils, InEvent
      <4>2. /\ event.from - sent[k].at = param.header /\ read - sent[k].at = have
        <5>1. event.old = 0 /\ From = sent[k].at + param.header
          BY <2>2, <3>3
        <5>2. event.from = sent[k].at + param.header
          BY <1>2, <5>1
        <5>3. sent[k].at \in Nat /\ param.header \in Nat /\ have \in Nat
          BY <1>4, <1>8, <2>3
        <5> HIDE DEF have
        <5> QED BY <2>4, <5>2, <5>3
      <4>3. ~(param.header + have >= h)
        BY <1>5, <1>8, <3>3, <4>1, <4>2 DEF BadCut
      <4> QED BY <1>4, <1>6, <1>7, <1>8, <3>3, <4>3
    <3> QED BY <1>4, <1>6, <1>8, <3>1, <3>2, <3>3
  <2>6. have > h - 4 => k \in torn
    BY <1>8, <1>6, <2>3, <2>4 DEF IInv, Remembered
  <2>7. PICK m : m = Len(got)
    OBVIOUS
  <2>8. m \in Nat /\ k = m + 1 /\ m < Len(sent)
    BY <1>1, <2>2, <2>3, <2>7 DEF Typed
  <2>9. InPiece(m)'
    BY <1>5, <1>7, <1>8, <1>9, <1>10, <2>2, <2>4, <2>5, <2>6, <2>8 DEF InPiece
  <2>10. InPiece(Len(got))'
    BY <1>1, <2>7, <2>9
  <2>11. Received'
    BY <1>1, <1>9, <1>10, <2>1 DEF InPlace, Received
  <2> QED BY <1>9, <1>10, <2>1, <2>10, <2>11 DEF InPlace
<1> QED BY <1>9, <1>10, <1>11, <1>12 DEF IInv

-----------------------------------------------------------------------------
\* What is left of r when the buffer of size bytes at u is copied from byte first on and had
\* bytes of the message are there already.
CopiedAs(c, q, r, u, size, first, had) ==
    /\ c \in Params /\ c.fin = r.fin /\ c.header = r.header /\ c.maskindex = r.maskindex
    /\ c.at = r.at /\ c.payloadlen = r.payloadlen /\ c.type = r.type
    /\ c.body = IF had = 0 THEN u + first ELSE r.body
    /\ IF 0 < r.payloadlen - had /\ r.payloadlen - had < size - first
       THEN /\ c.tmpmsglen = r.payloadlen
            /\ c.continue = r.continue + q.continue + (first + (r.payloadlen - had))
       ELSE c.tmpmsglen = had + (size - first) /\ c.continue = r.continue

\* The loop that copies a message: it stops at the end of the message, or of the buffer.
LEMMA CopyIs ==
    ASSUME NEW q \in Params, NEW r \in Params, NEW u \in Nat, NEW size \in Nat, NEW first \in Nat,
           first <= size
    PROVE  CopiedAs(Copy(q, r, u, size, first), q, r, u, size, first,
                    IF AtHeader(q) THEN 0 ELSE q.tmpmsglen)
<1>0. PICK had, left, c :
        /\ had = IF AtHeader(q) THEN 0 ELSE q.tmpmsglen
        /\ left = r.payloadlen - had /\ c = Copy(q, r, u, size, first)
  OBVIOUS
<1>1. /\ q.tmpmsglen \in Nat /\ q.continue \in Nat /\ r.payloadlen \in Nat /\ r.continue \in Nat
      /\ r.body \in Nat
  BY DEF Params
<1>2. had \in Nat
  BY <1>0, <1>1
<1> DEFINE stops == 0 < left /\ left < size - first
           cnt == IF stops THEN r.payloadlen ELSE had + (size - first)
           body == IF had = 0 THEN u + first ELSE r.body
           next == IF stops THEN r.continue + q.continue + (first + left) ELSE r.continue
<1>3. c = [r EXCEPT !.tmpmsglen = cnt, !.body = body, !.continue = next]
  <2>1. had + size - first = had + (size - first)
    BY <1>2
  <2>2. c = [r EXCEPT !.tmpmsglen = IF stops THEN r.payloadlen ELSE had + size - first,
                      !.body = IF had = 0 THEN u + first ELSE @,
                      !.continue = IF stops THEN r.continue + q.continue + (first + left) ELSE @]
    BY <1>0, Zenon DEF Copy, Continue
  <2> QED BY <2>1, <2>2, Zenon
<1>4. cnt \in Nat /\ body \in Nat /\ next \in Nat
  BY <1>0, <1>1, <1>2
<1>5. /\ c \in Params /\ c.fin = r.fin /\ c.header = r.header /\ c.maskindex = r.maskindex
      /\ c.at = r.at /\ c.payloadlen = r.payloadlen /\ c.type = r.type
      /\ c.body = body /\ c.tmpmsglen = cnt /\ c.continue = next
  <2> HIDE DEF cnt, body, next
  <2> QED BY <1>3, <1>4 DEF Params
<1>6. CopiedAs(c, q, r, u, size, first, had)
  BY <1>0, <1>5 DEF CopiedAs
<1> QED BY <1>0, <1>6

\* After a whole message a header is expected.
LEMMA CompleteIs ==
    ASSUME NEW q \in Params
    PROVE  /\ Complete(q) \in Params /\ Complete(q).fin = TRUE /\ Complete(q).maskindex = 0
           /\ Complete(q).tmpmsglen = 0 /\ Complete(q).header = 0
           /\ Complete(q).continue = q.continue /\ Complete(q).body = q.body
<1> DEFINE p == [q EXCEPT !.fin = TRUE, !.maskindex = 0, !.tmpmsglen = 0, !.header = 0]
<1>1. p \in Params
  <2>1. ASSUME NEW i \in Int, NEW t \in Nat, NEW h \in Nat
        PROVE  [q EXCEPT !.fin = TRUE, !.maskindex = i, !.tmpmsglen = t, !.header = h] \in Params
    BY DEF Params
  <2>2. 0 \in Int /\ 0 \in Nat
    OBVIOUS
  <2> QED BY <2>1, <2>2, Zenon
<1>2. p.maskindex = 0 /\ p.tmpmsglen = 0 /\ p.header = 0 /\ p.continue = q.continue
  BY DEF Params
<1>3. p.body = q.body
  BY DEF Params
<1>4. p.fin = TRUE
  BY DEF Params
<1> HIDE DEF p
<1>5. Complete(q) = p
  BY DEF Complete, p
<1> QED BY <1>1, <1>2, <1>3, <1>4, <1>5

\* The body of a message, or a part of it, has been copied: it is delivered or goes on with
\* the next read.
LEMMA CopiedStep ==
    ASSUME IInv, InEvent, NEW q \in Params, NEW closes \in BOOLEAN, Copied(q, closes),
           q.fin = FALSE, q.header > 0, q.header >= q.maskindex, q.body <= read,
           \/ q.continue = 0
           \/ event.old < q.continue /\ q.continue < event.size /\ q.tmpmsglen >= q.payloadlen,
           NEW m, m = Len(got), NEW place,
           place = IF q.continue = 0 THEN read ELSE event.from + q.continue,
           ~spoilt => /\ m + 1 \in Places /\ q.payloadlen = sent[m + 1].len
                      /\ q.body = Body(m + 1) /\ (m + 1 \notin torn => q.type = m + 1)
                      /\ IF q.tmpmsglen >= q.payloadlen THEN place = End(m + 1)
                         ELSE place = Body(m + 1) + q.tmpmsglen
    PROVE  IInv'
<1>1. /\ Typed /\ Laid /\ Looping /\ Pieces /\ open /\ event.size > 0 /\ m \in Nat
      /\ got \in Seq([body : Nat, len : Nat, type : Nat])
      /\ sent' = sent /\ wire' = wire /\ sending' = sending /\ read' = read /\ lost' = lost
      /\ spoilt' = spoilt /\ torn' = torn
  BY DEF IInv, InEvent, Looping, Typed, Copied
<1>2. /\ q.tmpmsglen \in Nat /\ q.payloadlen \in Nat /\ q.body \in Nat /\ q.type \in Nat
      /\ q.continue \in Nat /\ q.header \in Nat /\ q.maskindex \in Int /\ read \in Nat
  BY <1>1 DEF Params, Typed
<1>3. CASE q.tmpmsglen >= q.payloadlen
  <2> DEFINE g == [body |-> q.body, len |-> q.payloadlen, type |-> q.type]
  <2>1. Deliver(q, closes)
    BY <1>3 DEF Copied
  <2>2. got' = Append(got, g)
    BY <2>1 DEF Deliver
  <2>3. g \in [body : Nat, len : Nat, type : Nat]
    BY <1>2
  <2>4. /\ got' \in Seq([body : Nat, len : Nat, type : Nat]) /\ Len(got') = m + 1
        /\ \A i \in 1 .. m : got'[i] = got[i]
        /\ got'[m + 1] = g
    <3> HIDE DEF g
    <3> QED BY <1>1, <2>2, <2>3, AppendProperties
  <2>5. \A i \in 1 .. Len(got') : got'[i].body <= read
    <3> SUFFICES ASSUME NEW i \in 1 .. m + 1
                 PROVE  got'[i].body <= read
      BY <2>4
    <3>1. CASE i = m + 1
      <4>1. g.body = q.body
        OBVIOUS
      <4> QED BY <2>4, <3>1, <4>1
    <3>2. CASE i # m + 1
      <4>1. i \in 1 .. m
        BY <1>1, <3>2
      <4> QED BY <1>1, <2>4, <4>1 DEF Pieces
    <3> QED BY <3>1, <3>2
  <2>6. ~spoilt => place <= read /\ place \in Nat
    <3>1. event.from + event.size = read /\ event.from \in Nat /\ event.size \in Nat
      BY <1>1 DEF Looping, Typed
    <3> QED BY <1>2, <3>1
  <2>7. /\ \A i : Body(i)' = Body(i) /\ After(i)' = After(i)
    BY <1>1 DEF After, End, Body
  <2>8. ~spoilt => Received'
    <3> SUFFICES ASSUME ~spoilt PROVE Received'
      OBVIOUS
    <3>1. InPlace
      BY DEF IInv
    <3>2. /\ m + 1 \in 1 .. Len(sent) /\ q.payloadlen = sent[m + 1].len
          /\ q.body = Body(m + 1) /\ (m + 1 \notin torn => q.type = m + 1)
          /\ place = End(m + 1)
      BY <1>3 DEF Places
    <3>3. After(m + 1) <= read
      BY <1>1, <2>6, <3>2 DEF After
    <3>4. After(Len(got))' <= read' /\ Len(got') <= Len(sent')
      <4>1. After(Len(got))' = After(m + 1)'
        BY <2>4
      <4> QED BY <1>1, <2>4, <2>7, <3>2, <3>3, <4>1
    <3>5. ASSUME NEW i \in 1 .. Len(got')
          PROVE  /\ got'[i].body = Body(i)' /\ got'[i].len = sent'[i].len
                 /\ i \notin torn' => got'[i].type = i
      <4>1. CASE i = m + 1
        <5>1. g.body = q.body /\ g.len = q.payloadlen /\ g.type = q.type
          OBVIOUS
        <5> HIDE DEF g
        <5>2. got'[i] = g
          BY <2>4, <4>1
        <5> QED BY <1>1, <2>7, <3>2, <4>1, <5>1, <5>2
      <4>2. CASE i # m + 1
        <5>1. i \in 1 .. m
          BY <1>1, <2>4, <4>2
        <5>2. got'[i] = got[i]
          BY <2>4, <5>1
        <5> QED BY <1>1, <2>7, <3>1, <5>1, <5>2 DEF InPlace, Received
      <4> QED BY <4>1, <4>2
    <3> QED BY <3>4, <3>5 DEF Received
  <2>9. CASE closes
    <3>1. open' = FALSE /\ param' = FreshParam /\ event' = NoEvent
      BY <2>1, <2>9 DEF Deliver
    <3>2. event' \in [from : Nat, size : Nat, old : Nat] /\ event'.size = 0 /\ event'.old = 0
      BY <3>1 DEF NoEvent
    <3> QED BY <1>1, <2>4, <2>5, <2>8, <3>1, <3>2, Ended
  <2>10. CASE ~closes
    <3> DEFINE p == Complete(q)
    <3>1. NextTurn(p) /\ open' = open
      BY <2>1, <2>10 DEF Deliver
    <3>2. /\ p \in Params /\ p.fin = TRUE /\ p.maskindex = 0 /\ p.tmpmsglen = 0 /\ p.header = 0
          /\ p.continue = q.continue /\ p.body = q.body
      BY CompleteIs
    <3> HIDE DEF p
    <3>3. /\ Typed' /\ Laid' /\ Looping' /\ Remembered' /\ param' = p /\ Places' = Places
          /\ Place' = IF p.continue = 0 THEN read ELSE event.from + p.continue
          /\ InPlace => (event.size > 0 => ~Spoils(event.from, event.from + event.size))'
      BY <1>1, <2>4, <3>1, <3>2, TurnEnds
    <3>4. Pieces'
      BY <1>1, <1>2, <2>5, <3>2, <3>3 DEF Pieces
    <3>5. ASSUME ~spoilt
          PROVE  InPlace'
      <4>1. InPlace /\ place = End(m + 1) /\ m + 1 # 0
        BY <1>1, <1>3, <3>5 DEF IInv
      <4>2. Between(m + 1)'
        <5>1. Place' = place
          BY <3>2, <3>3
        <5>2. After(m + 1)' = place
          BY <2>7, <4>1 DEF After
        <5> QED BY <3>2, <3>3, <5>1, <5>2 DEF Between
      <4>3. Between(Len(got))'
        BY <2>4, <4>2
      <4> QED BY <1>1, <2>8, <3>3, <3>5, <4>1, <4>3 DEF InPlace
    <3> QED BY <1>1, <3>3, <3>4, <3>5 DEF IInv
  <2> QED BY <2>9, <2>10
<1>4. CASE q.tmpmsglen < q.payloadlen
  <2>1. NextTurn(q) /\ got' = got /\ open' = open
    BY <1>2, <1>4 DEF Copied
  <2>2. q.continue = 0
    BY <1>2, <1>4
  <2>3. /\ Typed' /\ Laid' /\ Looping' /\ Remembered' /\ param' = q /\ Places' = Places
        /\ \A i : After(i)' = After(i) /\ Body(i)' = Body(i)
        /\ Place' = read
        /\ InPlace => (event.size > 0 => ~Spoils(event.from, event.from + event.size))'
    BY <1>1, <2>1, <2>2, TurnEnds
  <2>4. Pieces'
    BY <1>1, <1>2, <2>1, <2>2, <2>3 DEF Pieces
  <2>5. ASSUME ~spoilt
        PROVE  InPlace'
    <3>1. /\ InPlace /\ m + 1 \in 1 .. Len(sent) /\ q.payloadlen = sent[m + 1].len
          /\ q.body = Body(m + 1) /\ (m + 1 \notin torn => q.type = m + 1)
          /\ read = Body(m + 1) + q.tmpmsglen
      BY <1>2, <1>4, <2>2, <2>5 DEF IInv, Places
    <3>2. m < Len(sent)
      BY <1>1, <3>1
    <3>3. InBody(m)'
      BY <1>1, <1>4, <2>1, <2>3, <3>1, <3>2 DEF InBody
    <3>4. InBody(Len(got))'
      BY <2>1, <3>3
    <3>5. Received'
      BY <1>1, <2>1, <2>3, <3>1 DEF InPlace, Received
    <3> QED BY <1>1, <2>1, <2>3, <2>5, <3>1, <3>4, <3>5 DEF InPlace
  <2> QED BY <1>1, <2>3, <2>4, <2>5 DEF IInv
<1> QED BY <1>2, <1>3, <1>4

\* A turn that has a whole header copies what the read has of the body.
LEMMA FirstPartStep ==
    ASSUME IInv, NEW closes \in BOOLEAN, FirstPart(closes)
    PROVE  IInv'
<1> DEFINE r == [Header EXCEPT !.type = TypeRead(param, Header)]
           c == Copy(param, r, From, Size, Header.maskindex)
<1>1. /\ InHeader /\ InEvent /\ open /\ Typed /\ Laid /\ Looping /\ Pieces /\ AtHeader(param)
      /\ Size >= Header.maskindex /\ Copied(c, closes)
  BY DEF FirstPart, InHeader, InEvent, IInv, Looping, Typed
<1>2. /\ From \in Nat /\ Size \in Nat \ {0} /\ From + Size = read /\ param \in Params
      /\ From = event.from + event.old /\ Size = event.size - event.old
      /\ event.from \in Nat /\ event.old \in Nat /\ event.size \in Nat
      /\ event.from + event.size = read /\ param.continue = event.old
  BY <1>1, HeaderTurn DEF Typed, Looping
<1>3. PICK k \in Places :
        /\ param.header < HeaderSize(sent[k].len)
        /\ sent[k].at = IF param.header = 0 THEN From ELSE param.at
        /\ ParsedAs(Header, [param EXCEPT !.continue = 0], Size, k, HeaderSize(sent[k].len))
  BY <1>1, HeaderTurn
<1> DEFINE q == [param EXCEPT !.continue = 0]
           at == param.header
<1>4. q.header = at /\ q.continue = 0 /\ at \in Nat
  BY <1>2 DEF Params
<1> HIDE DEF q, at
<1>5. PICK h, first, len : h = HeaderSize(sent[k].len) /\ first = Header.maskindex
                           /\ len = Header.payloadlen
  OBVIOUS
<1>6. /\ h \in {6, 8, 14} /\ at < h /\ Size >= first
      /\ sent[k].at \in Nat /\ Body(k) = sent[k].at + h /\ End(k) = Body(k) + sent[k].len
      /\ sent[k].len \in Nat
  BY <1>1, <1>3, <1>5, Layout DEF at
<1>7. /\ Header \in Params /\ Header.fin = FALSE /\ Header.at = sent[k].at /\ Header.header > 0
      /\ Header.header = (IF at + Size < 64 THEN at + Size ELSE 64) /\ Header.continue = 0
      /\ IF at + Size < h - 4 THEN first \in {32, h}
         ELSE first = h - at /\ len = Announced(sent[k].len)
  <2>1. ParsedAs(Header, q, Size, k, h)
    BY <1>3, <1>5 DEF q
  <2> QED BY <1>4, <1>5, <2>1 DEF ParsedAs
<1>8. /\ first = h - at /\ len = Announced(sent[k].len) /\ first \in Nat /\ first > 0
      /\ Header.header >= first /\ len \in Nat
  <2>1. ~(at + Size < h - 4)
    BY <1>2, <1>4, <1>6, <1>7
  <2>2. first = h - at /\ len = Announced(sent[k].len)
    BY <1>7, <2>1
  <2>3. first \in Nat /\ first > 0 /\ first <= h /\ at + Size >= h
    BY <1>2, <1>4, <1>6, <2>2
  <2>4. Header.header >= first
    BY <1>2, <1>4, <1>6, <1>7, <2>3
  <2>5. len \in Nat
    BY <1>6, <2>2, HeaderSizes
  <2> QED BY <2>2, <2>3, <2>4, <2>5
<1>9. TypeRead(param, Header) \in Nat
  <2>1. \A p : HeaderAt(p) \in Nat
    BY <1>1, HeaderFound DEF Places
  <2> QED BY <2>1 DEF TypeRead
<1>10. /\ r \in Params /\ r.fin = FALSE /\ r.header = Header.header /\ r.maskindex = first
       /\ r.payloadlen = len /\ r.continue = 0 /\ r.type = TypeRead(param, Header)
  BY <1>5, <1>7, <1>9 DEF Params
<1> HIDE DEF r
<1> DEFINE stops == 0 < len /\ len < Size - first
<1>11. /\ c \in Params /\ c.fin = FALSE /\ c.header = Header.header /\ c.maskindex = first
       /\ c.payloadlen = len /\ c.type = TypeRead(param, Header)
       /\ c.body = From + first
       /\ IF stops THEN c.tmpmsglen = len /\ c.continue = event.old + (first + len)
          ELSE c.tmpmsglen = Size - first /\ c.continue = 0
  <2>1. c = Copy(param, r, From, Size, first)
    BY <1>5
  <2> HIDE DEF c
  <2>2. CopiedAs(c, param, r, From, Size, first, 0)
    BY <1>1, <1>2, <1>6, <1>8, <1>10, <2>1, CopyIs
  <2>3. r.payloadlen - 0 = len
    BY <1>8, <1>10
  <2> QED BY <1>2, <1>6, <1>8, <1>10, <2>2, <2>3 DEF CopiedAs
<1> HIDE DEF c
<1>12. PICK m, place :
         m = Len(got) /\ place = IF c.continue = 0 THEN read ELSE event.from + c.continue
  OBVIOUS
<1>13. \/ c.continue = 0
       \/ event.old < c.continue /\ c.continue < event.size /\ c.tmpmsglen >= c.payloadlen
  BY <1>2, <1>6, <1>8, <1>11
<1>14. c.header > 0 /\ c.header >= c.maskindex /\ c.body <= read
  BY <1>2, <1>6, <1>7, <1>8, <1>11
<1>15. ASSUME ~spoilt
       PROVE  /\ m + 1 \in Places /\ c.payloadlen = sent[m + 1].len
              /\ c.body = Body(m + 1) /\ (m + 1 \notin torn => c.type = m + 1)
              /\ IF c.tmpmsglen >= c.payloadlen THEN place = End(m + 1)
                 ELSE place = Body(m + 1) + c.tmpmsglen
  <2>1. /\ k = m + 1 /\ From = sent[k].at + at
        /\ at > h - 4 => k \in torn
    BY <1>1, <1>3, <1>5, <1>12, <1>15, HeaderPlace DEF at
  <2>2. From + first = Body(k) /\ Body(k) <= read /\ Body(k) \in Nat /\ event.from < Body(k)
    BY <1>2, <1>4, <1>6, <1>8, <2>1
  <2>3. /\ ~EmptyThenMore(k, event.from, read) /\ ~Unsayable(k, read)
    <3>1. ~Spoils(event.from, read)
      BY <1>1, <1>2, <1>15 DEF IInv, InPlace, InEvent
    <3> QED BY <3>1 DEF Spoils
  <2>4. len = sent[k].len
    <3>1. Body(k) - 4 <= read
      BY <1>2, <2>2
    <3>2. Announced(sent[k].len) = sent[k].len
      BY <2>3, <3>1 DEF Unsayable
    <3> QED BY <1>8, <3>2
  <2>5. k \notin torn => c.type = k
    <3> SUFFICES ASSUME k \notin torn PROVE c.type = k
      OBVIOUS
    <3>1. first >= 4
      BY <1>4, <1>6, <1>8, <2>1
    <3>2. HeaderAt(Header.at) = k
      BY <1>1, <1>7, HeaderFound
    <3> QED BY <1>5, <1>11, <3>1, <3>2 DEF TypeRead
  <2>6. IF c.tmpmsglen >= c.payloadlen THEN place = End(k) ELSE place = Body(k) + c.tmpmsglen
    <3>1. CASE stops
      <4>1. c.continue = event.old + (first + len) /\ c.tmpmsglen = len /\ c.payloadlen = len
        BY <1>11, <3>1
      <4>2. c.continue # 0
        BY <1>2, <1>8, <4>1
      <4>3. place = event.from + (event.old + (first + len))
        BY <1>12, <4>1, <4>2
      <4> QED BY <1>2, <1>6, <1>8, <2>2, <2>4, <4>1, <4>3
    <3>2. CASE ~stops
      <4>1. place = read /\ c.tmpmsglen = Size - first /\ read = Body(k) + (Size - first)
        BY <1>2, <1>8, <1>11, <1>12, <2>2, <3>2
      <4>2. len = 0 => read = Body(k)
        BY <1>2, <2>2, <2>3, <2>4 DEF EmptyThenMore
      <4> QED BY <1>2, <1>6, <1>8, <1>11, <2>2, <2>4, <3>2, <4>1, <4>2
    <3> QED BY <3>1, <3>2
  <2> QED BY <1>11, <2>1, <2>2, <2>4, <2>5, <2>6
<1> QED BY <1>1, <1>11, <1>12, <1>13, <1>14, <1>15, CopiedStep

\* A turn that goes on with the body copies what the read has of it.
LEMMA NextPartStep ==
    ASSUME IInv, NEW closes \in BOOLEAN, NextPart(closes)
    PROVE  IInv'
<1> DEFINE c == Copy(param, param, From, Size, 0)
<1>1. /\ InEvent /\ open /\ Typed /\ Laid /\ Looping /\ Pieces /\ ~AtHeader(param)
      /\ Copied(c, closes) /\ event.size > 0
  BY DEF NextPart, InEvent, IInv, Looping, Typed
<1>2. /\ param \in Params /\ param.header \in Nat /\ param.maskindex \in Int
      /\ param.tmpmsglen \in Nat /\ param.payloadlen \in Nat /\ param.body \in Nat
      /\ event.from \in Nat /\ event.size \in Nat /\ event.from + event.size = read
  BY <1>1 DEF Typed, Looping, Params
<1>3. /\ param.fin = FALSE /\ param.header > 0 /\ param.header >= param.maskindex
      /\ param.continue = 0 /\ event.old = 0
  <2>1. ~param.fin /\ ~(param.header < param.maskindex)
    BY <1>1 DEF AtHeader, Pieces
  <2>2. param.fin = FALSE
    BY <1>2, <2>1 DEF Params
  <2> QED BY <1>1, <1>2, <2>1, <2>2 DEF Pieces, Looping
<1>4. From = event.from /\ Size = event.size
  BY <1>1, <1>2 DEF From, Size, Skipped
<1>5. PICK had, left : had = param.tmpmsglen /\ left = param.payloadlen - had
  OBVIOUS
<1>6. /\ c \in Params /\ c.fin = FALSE /\ c.header = param.header
      /\ c.maskindex = param.maskindex /\ c.payloadlen = param.payloadlen
      /\ c.type = param.type
      /\ c.body = IF had = 0 THEN event.from ELSE param.body
      /\ IF 0 < left /\ left < event.size
         THEN c.tmpmsglen = param.payloadlen /\ c.continue = left
         ELSE c.tmpmsglen = had + event.size /\ c.continue = 0
  <2>1. 0 \in Nat /\ 0 <= Size /\ From \in Nat /\ Size \in Nat
    BY <1>2, <1>4
  <2> HIDE DEF c
  <2>2. CopiedAs(c, param, param, From, Size, 0, had)
    BY <1>1, <1>2, <1>5, <2>1, CopyIs DEF c
  <2> QED BY <1>2, <1>3, <1>4, <1>5, <2>2 DEF CopiedAs
<1> HIDE DEF c
<1>7. PICK m, place :
        m = Len(got) /\ place = IF c.continue = 0 THEN read ELSE event.from + c.continue
  OBVIOUS
<1>8. \/ c.continue = 0
      \/ event.old < c.continue /\ c.continue < event.size /\ c.tmpmsglen >= c.payloadlen
  BY <1>2, <1>3, <1>5, <1>6
<1>9. c.header > 0 /\ c.header >= c.maskindex /\ c.body <= read
  BY <1>1, <1>2, <1>3, <1>6 DEF Pieces
<1>10. ASSUME ~spoilt
       PROVE  /\ m + 1 \in Places /\ c.payloadlen = sent[m + 1].len
              /\ c.body = Body(m + 1) /\ (m + 1 \notin torn => c.type = m + 1)
              /\ IF c.tmpmsglen >= c.payloadlen THEN place = End(m + 1)
                 ELSE place = Body(m + 1) + c.tmpmsglen
  <2>1. InPlace /\ m \in Nat /\ Len(sent) \in Nat
    BY <1>1, <1>7, <1>10 DEF IInv, Typed
  <2>2. Between(m) \/ InPiece(m) \/ InBody(m)
    BY <1>1, <1>7, <2>1 DEF InPlace
  <2>3. InBody(m)
    BY <1>2, <1>3, <2>2 DEF Between, InPiece
  <2>4. /\ m + 1 \in Places /\ param.payloadlen = sent[m + 1].len
        /\ had < param.payloadlen /\ event.from = Body(m + 1) + had
        /\ (had > 0 => param.body = Body(m + 1)) /\ (m + 1 \notin torn => param.type = m + 1)
    BY <1>1, <1>2, <1>3, <1>5, <2>1, <2>3 DEF InBody, Places, Place
  <2>5. Body(m + 1) \in Nat /\ End(m + 1) = Body(m + 1) + param.payloadlen
    BY <1>1, <2>4, Layout
  <2>6. c.body = Body(m + 1)
    BY <1>2, <1>5, <1>6, <2>4, <2>5
  <2>7. IF c.tmpmsglen >= c.payloadlen THEN place = End(m + 1)
        ELSE place = Body(m + 1) + c.tmpmsglen
    <3>1. had \in Nat /\ left \in Nat /\ left > 0
      BY <1>2, <1>5, <2>4
    <3>2. CASE left < event.size
      <4>1. c.tmpmsglen = c.payloadlen /\ c.continue = left
        BY <1>6, <3>1, <3>2
      <4>2. place = event.from + left
        BY <1>7, <3>1, <4>1
      <4> QED BY <1>2, <1>5, <1>6, <2>4, <2>5, <3>1, <4>1, <4>2
    <3>3. CASE ~(left < event.size)
      <4>1. c.tmpmsglen = had + event.size /\ c.continue = 0 /\ place = read
        BY <1>6, <1>7, <3>3
      <4> QED BY <1>2, <1>5, <1>6, <2>4, <2>5, <3>1, <3>3, <4>1
    <3> QED BY <3>2, <3>3
  <2> QED BY <1>6, <2>4, <2>6, <2>7
<1> QED BY <1>1, <1>3, <1>6, <1>7, <1>8, <1>9, <1>10, CopiedStep

-----------------------------------------------------------------------------
\* Every step keeps the invariant.
LEMMA StepKeeps == IInv /\ [Next]_vars => IInv'
<1> SUFFICES ASSUME IInv, [Next]_vars PROVE IInv'
  OBVIOUS
<1>1. ASSUME NEW n \in Lengths, Send(n) PROVE IInv'
  <2>1. n \in Nat /\ wire \in Nat /\ HeaderSize(n) \in {6, 8, 14}
    BY FramingAssumption, HeaderSizes DEF IInv, Typed
  <2>2. /\ sending /\ sent' = Append(sent, [at |-> wire, len |-> n]) /\ wire' \in Nat
        /\ sending' = sending /\ wire' = wire + HeaderSize(n) + n
        /\ UNCHANGED <<read, param, event, got, open, lost, spoilt, torn>>
    BY <1>1, <2>1 DEF Send
  <2>3. sending' /\ sending' \in BOOLEAN
    BY <2>2 DEF IInv, Typed
  <2> QED BY <2>1, <2>2, <2>3, SendStep
<1>2. ASSUME NEW n \in Lengths, NEW m \in FailAt, SendFails(n, m) PROVE IInv'
  <2>1. n \in Nat /\ m \in Nat /\ wire \in Nat /\ HeaderSize(n) \in {6, 8, 14}
    BY FramingAssumption, HeaderSizes DEF IInv, Typed
  <2>2. /\ sending /\ sent' = Append(sent, [at |-> wire, len |-> n])
        /\ sending' = FALSE /\ wire' = wire + m /\ m < HeaderSize(n) + n
        /\ UNCHANGED <<read, param, event, got, open, lost, spoilt, torn>>
    BY <1>2 DEF SendFails
  <2>3. ~sending' /\ sending' \in BOOLEAN
    BY <2>2, Zenon
  <2>4. wire' \in Nat /\ wire <= wire' /\ wire' < wire + HeaderSize(n) + n
    BY <2>1, <2>2
  <2> QED BY <2>1, <2>2, <2>3, <2>4, SendStep
<1>3. ASSUME NEW closes \in BOOLEAN, Turn(closes) PROVE IInv'
  BY <1>3, LoseStep, CloseStep, PartHeaderStep, FirstPartStep, NextPartStep DEF Turn
<1>4. CASE UNCHANGED vars
  <2>1. /\ sent' = sent /\ wire' = wire /\ sending' = sending /\ read' = read /\ param' = param
        /\ event' = event /\ got' = got /\ open' = open /\ lost' = lost /\ spoilt' = spoilt
        /\ torn' = torn
    BY <1>4 DEF vars
  <2>2. /\ \A m : After(m)' = After(m) /\ Body(m)' = Body(m)
        /\ Places' = Places /\ Place' = Place
    BY <2>1 DEF After, End, Body, Places, Place
  <2>3. Typed' /\ Laid' /\ Looping' /\ Pieces' /\ Remembered'
    BY <2>1, <2>2 DEF IInv, Typed, Laid, Looping, Pieces, Remembered
  <2>4. ASSUME InPlace PROVE InPlace'
    <3>1. PICK m : m = Len(got)
      OBVIOUS
    <3>2. /\ Between(m) => Between(m)'
          /\ InPiece(m) => InPiece(m)'
          /\ InBody(m) => InBody(m)'
      BY <2>1, <2>2 DEF Between, InPiece, InBody
    <3>3. open => Between(m)' \/ InPiece(m)' \/ InBody(m)'
      BY <2>4, <3>1, <3>2 DEF InPlace
    <3>4. open' => Between(Len(got))' \/ InPiece(Len(got))' \/ InBody(Len(got))'
      BY <2>1, <3>1, <3>3
    <3>5. Received'
      BY <2>1, <2>2, <2>4 DEF InPlace, Received
    <3>6. (event.size > 0 => ~Spoils(event.from, event.from + event.size))'
      BY <2>1, <2>2, <2>4 DEF InPlace, Spoils, BadCut, EmptyThenMore, Unsayable
    <3> QED BY <2>1, <2>4, <3>4, <3>5, <3>6 DEF InPlace
  <2> QED BY <2>1, <2>3, <2>4 DEF IInv
<1> QED BY <1>1, <1>2, <1>3, <1>4, ReadStep, ResetStep, CloseStep DEF Next, Receive

\* The inductive invariant holds in every state.
THEOREM Invariance == Spec => []IInv
BY FirstState, StepKeeps, PTL DEF Spec

\* The receiver never takes for a header what is none, unless the connection was spoilt.
THEOREM LostOnlyIfSpoiltAlways == Spec => []LostOnlyIfSpoilt
<1>1. IInv => LostOnlyIfSpoilt
  BY DEF IInv, InPlace, LostOnlyIfSpoilt
<1> QED BY <1>1, Invariance, PTL

\* A message comes with the type it was sent with, unless its header was cut within the type.
THEOREM TypesKeptAlways == Spec => []TypesKept
<1>1. IInv => TypesKept
  BY DEF IInv, InPlace, Received, TypesKept
<1> QED BY <1>1, Invariance, PTL

\* Within one read every message begins behind the one before, whatever has happened to the
\* connection.
THEOREM ContinueAdvancesAlways == Spec => ContinueAdvances
<1> DEFINE A == param' # param /\ param'.continue > 0 => param'.continue > event.old
<1>1. IInv /\ IInv' /\ [Next]_vars => [A]_vars
  <2> SUFFICES ASSUME IInv, IInv', Next, param' # param, param'.continue > 0
               PROVE  param'.continue > event.old
    OBVIOUS
  <2>1. param' # FreshParam
    BY DEF FreshParam
  <2>2. \E q : NextTurn(q)
    BY <2>1 DEF Next, Send, SendFails, Receive, Read, Hangup, Reset, Turn, Lose, TooLong,
                PartHeader, FirstPart, NextPart, Copied, Deliver
  <2>3. PICK q : NextTurn(q)
    BY <2>2
  <2>4. param' = q /\ event'.old = q.continue /\ q.continue \in Nat
    BY <2>3 DEF NextTurn, IInv, Looping, Typed, Params
  <2>5. event' # NoEvent
    BY <2>4 DEF NoEvent
  <2>6. event.old < q.continue /\ event.old \in Nat
    BY <2>3, <2>5 DEF NextTurn, IInv, Typed
  <2> QED BY <2>4, <2>6
<1>2. IInv /\ [Next]_vars => [A]_vars
  BY <1>1, StepKeeps
<1> QED BY <1>2, Invariance, PTL DEF Spec, ContinueAdvances

-----------------------------------------------------------------------------
\* The receiver and the sender as the channel sees them: the messages sent whole, and the
\* numbers of the messages delivered.
Whole == {k \in Places : End(k) <= wire}
Numbers == [i \in 1 .. Len(got) |-> WhichMessage(got[i])]

\* All messages are sent whole but for the one whose send has failed.
LEMMA WholeSent ==
    ASSUME Typed, Laid
    PROVE  /\ Cardinality(Whole) = IF sending THEN Len(sent) ELSE Len(sent) - 1
           /\ Cardinality(Whole) \in Nat
           /\ \A m \in 0 .. Len(sent) : After(m) <= wire => m <= Cardinality(Whole)
<1> DEFINE n == IF sending THEN Len(sent) ELSE Len(sent) - 1
<1>1. /\ Len(sent) \in Nat /\ wire \in Nat /\ sending \in BOOLEAN /\ n \in 0 .. Len(sent)
      /\ Places = 1 .. Len(sent) /\ 0 \in Int /\ 1 \in Int
  BY DEF Typed, Laid, Places
<1>2. After(n) <= wire /\ After(n) \in Nat /\ (n < Len(sent) => wire < After(Len(sent)))
  <2>1. After(n) <= wire
    BY <1>1 DEF Laid
  <2>2. n < Len(sent) => wire < After(Len(sent))
    BY <1>1 DEF Laid
  <2>3. After(n) \in Nat
    BY <1>1, Layout
  <2> QED BY <2>1, <2>2, <2>3
<1>3. n = Len(sent) \/ n + 1 = Len(sent)
  BY <1>1
<1> HIDE DEF n
<1>4. ASSUME NEW m \in 0 .. Len(sent)
      PROVE  After(m) <= wire <=> m <= n
  <2>1. m \in Nat /\ n \in Nat /\ After(m) \in Nat
    BY <1>1, Layout
  <2>2. m < n => After(m) < After(n)
    BY <1>1, Layout
  <2>3. m > n => m = Len(sent) /\ n < Len(sent)
    BY <1>1, <1>3, <2>1
  <2> QED BY <1>1, <1>2, <2>1, <2>2, <2>3
<1>5. Whole = 1 .. n
  <2>1. ASSUME NEW k \in Places
        PROVE  End(k) <= wire <=> k <= n
    <3>1. k \in 0 .. Len(sent) /\ End(k) = After(k)
      BY <1>1, <2>1, Layout
    <3> QED BY <1>4, <3>1
  <2>2. \A k : k \in Whole <=> k \in 1 .. n
    BY <1>1, <2>1 DEF Whole
  <2> QED BY <2>2
<1>6. n \in Int /\ n \in Nat
  BY <1>1
<1>7. Cardinality(1 .. n) = IF 1 > n THEN 0 ELSE n - 1 + 1
  BY <1>1, <1>6, FS_Interval, Zenon
<1>8. Cardinality(Whole) = n
  BY <1>5, <1>6, <1>7
<1> QED BY <1>4, <1>6, <1>8 DEF n

\* The place of its body and its length tell which message was delivered.
LEMMA WhichIs ==
    ASSUME Typed, Laid, NEW i \in Places, NEW g, g.body = Body(i), g.len = sent[i].len
    PROVE  WhichMessage(g) = i
<1>1. ASSUME NEW j \in Places, Body(j) = g.body, sent[j].len = g.len
      PROVE  j = i
  <2>1. sent[j].at = sent[i].at
    <3>1. /\ sent[j].at \in Nat /\ sent[i].at \in Nat /\ HeaderSize(sent[i].len) \in {6, 8, 14}
          /\ Body(j) = sent[j].at + HeaderSize(sent[j].len)
          /\ Body(i) = sent[i].at + HeaderSize(sent[i].len)
      BY Layout
    <3>2. HeaderSize(sent[j].len) = HeaderSize(sent[i].len) /\ Body(j) = Body(i)
      BY <1>1
    <3> QED BY <3>1, <3>2
  <2> QED BY <2>1, HeaderFound
<1> QED BY <1>1 DEF WhichMessage

\* What was sent does not change which messages were delivered.
LEMMA NumbersKept ==
    ASSUME IInv, NEW n \in Nat, sending, NEW l, l = Len(sent),
           Len(sent') = l + 1, Places = 1 .. l, Places' = 1 .. l + 1, l \in Nat,
           \A k \in Places : sent'[k] = sent[k] /\ Body(k)' = Body(k),
           Body(l + 1)' = wire + HeaderSize(n), got' = got
    PROVE  Numbers' = Numbers
<1>1. ASSUME NEW i \in 1 .. Len(got)
      PROVE  WhichMessage(got[i])' = WhichMessage(got[i])
  <2> DEFINE P(j) == Body(j) = got[i].body /\ sent[j].len = got[i].len
  <2>1. got[i].body <= read /\ read <= wire /\ read \in Nat /\ wire \in Nat /\ got[i].body \in Nat
    <3>1. got[i] \in [body : Nat, len : Nat, type : Nat]
      BY ElementOfSeq DEF IInv, Typed
    <3> QED BY <3>1 DEF IInv, Pieces, Typed
  <2>2. Body(l + 1)' # got[i].body
    <3>1. HeaderSize(n) \in {6, 8, 14}
      BY HeaderSizes
    <3>2. wire + HeaderSize(n) # got[i].body
      BY <2>1, <3>1
    <3> QED BY <3>2
  <2>3. \A j \in Places : P(j)' <=> P(j)
    OBVIOUS
  <2>4. \A j : j \in Places' /\ P(j)' <=> j \in Places /\ P(j)
    <3>1. \A j : j \in Places' <=> j \in Places \/ j = l + 1
      OBVIOUS
    <3>2. \A j : j = l + 1 => ~P(j)'
      BY <2>2
    <3> HIDE DEF P
    <3> QED BY <2>3, <3>1, <3>2, Zenon
  <2>5. /\ (\E j \in Places : P(j))' <=> (\E j \in Places : P(j))
        /\ (CHOOSE j \in Places : P(j))' = CHOOSE j \in Places : P(j)
    <3>1. (CHOOSE j \in Places' : P(j)') = CHOOSE j \in Places : P(j)
      <4> HIDE DEF P
      <4> QED BY <2>4, Zenon
    <3> HIDE DEF P
    <3> QED BY <2>4, <3>1
  <2>6. WhichMessage(got[i])' = IF \E j \in Places' : P(j)' THEN CHOOSE j \in Places' : P(j)' ELSE 0
    BY DEF WhichMessage
  <2>7. WhichMessage(got[i]) = IF \E j \in Places : P(j) THEN CHOOSE j \in Places : P(j) ELSE 0
    BY DEF WhichMessage
  <2> HIDE DEF P
  <2> QED BY <2>5, <2>6, <2>7
<1> QED BY <1>1 DEF Numbers

\* The messages sent and delivered, as long as nothing is sent.
LEMMA Unsent ==
    ASSUME UNCHANGED <<sent, wire, sending>>
    PROVE  /\ Whole' = Whole /\ \A g : WhichMessage(g)' = WhichMessage(g)
           /\ got' = got => Numbers' = Numbers
<1>1. Places' = Places /\ \A k : Body(k)' = Body(k) /\ End(k)' = End(k)
  BY DEF Places, Body, End
<1>2. \A g : WhichMessage(g)' = WhichMessage(g)
  BY <1>1 DEF WhichMessage
<1>3. Whole' = Whole
  BY <1>1 DEF Whole
<1>4. ASSUME got' = got PROVE Numbers' = Numbers
  BY <1>2, <1>4 DEF Numbers
<1> QED BY <1>2, <1>3, <1>4

\* A message delivered before the connection is spoilt is the next one, and was sent whole.
LEMMA DeliveredNext ==
    ASSUME IInv, IInv', UNCHANGED <<sent, wire, sending, spoilt>>, ~spoilt,
           NEW g, got' = Append(got, g)
    PROVE  /\ Numbers' = Append(Numbers, Len(Numbers) + 1)
           /\ Len(Numbers) < Cardinality(Whole)
<1>1. PICK m : m = Len(got)
  OBVIOUS
<1>2. /\ Typed /\ Laid /\ got \in Seq([body : Nat, len : Nat, type : Nat]) /\ m \in Nat
      /\ got' \in Seq([body : Nat, len : Nat, type : Nat])
  BY <1>1 DEF IInv, Typed
<1>3. /\ Len(got') = m + 1 /\ \A i \in 1 .. m : got'[i] = got[i]
  BY <1>1, <1>2
<1>4. /\ Received /\ Received' /\ sent' = sent
  BY DEF IInv, InPlace
<1>5. \A k : Body(k)' = Body(k) /\ After(k)' = After(k)
  BY DEF Body, After, End
<1>6. m + 1 <= Len(sent) /\ After(m + 1) <= read' /\ read' <= wire /\ read' \in Nat /\ wire \in Nat
  <2>1. Len(got') <= Len(sent') /\ After(Len(got))' <= read'
    BY <1>4 DEF Received
  <2>2. After(Len(got))' = After(m + 1)'
    BY <1>3
  <2>3. read' <= wire' /\ read' \in Nat /\ wire' \in Nat /\ wire' = wire
    BY DEF IInv, Typed
  <2> QED BY <1>3, <1>4, <1>5, <2>1, <2>2, <2>3
<1>7. \A i \in 1 .. m + 1 : WhichMessage(got'[i]) = i
  <2> SUFFICES ASSUME NEW i \in 1 .. m + 1
               PROVE  WhichMessage(got'[i]) = i
    OBVIOUS
  <2>1. got'[i].body = Body(i) /\ got'[i].len = sent[i].len
    BY <1>3, <1>4, <1>5 DEF Received
  <2>2. i \in Places
    <3>1. Len(sent) \in Nat
      BY <1>2 DEF Typed
    <3> QED BY <1>2, <1>6, <3>1 DEF Places
  <2> QED BY <1>2, <2>1, <2>2, WhichIs
<1>8. Numbers = [i \in 1 .. m |-> i]
  BY <1>1, <1>2, <1>3, <1>7 DEF Numbers
<1>9. Numbers' = [i \in 1 .. m + 1 |-> i]
  <2>1. \A x : WhichMessage(x)' = WhichMessage(x)
    BY Unsent
  <2>2. Numbers' = [i \in 1 .. m + 1 |-> WhichMessage(got'[i])]
    BY <1>3, <2>1 DEF Numbers
  <2> QED BY <1>7, <2>2
<1>10. /\ Numbers \in Seq(Nat) /\ Len(Numbers) = m
       /\ \A i \in 1 .. m : Numbers[i] = i
  BY <1>2, <1>8
<1>11. Numbers' = Append(Numbers, Len(Numbers) + 1)
  <2>1. Append(Numbers, m + 1) = [i \in 1 .. m + 1 |-> i]
    <3>1. Append(Numbers, m + 1)
            = [i \in 1 .. Len(Numbers) + 1 |-> IF i = Len(Numbers) + 1 THEN m + 1 ELSE Numbers[i]]
      BY <1>2, <1>10
    <3>2. ASSUME NEW i \in 1 .. m + 1
          PROVE  (IF i = m + 1 THEN m + 1 ELSE Numbers[i]) = i
      BY <1>2, <1>10
    <3> QED BY <1>10, <3>1, <3>2
  <2> QED BY <1>9, <1>10, <2>1
<1>12. m + 1 <= Cardinality(Whole)
  <2>1. After(m + 1) <= wire /\ m + 1 \in 0 .. Len(sent)
    <3>1. Len(sent) \in Nat
      BY <1>2 DEF Typed
    <3>2. m + 1 \in 0 .. Len(sent)
      BY <1>2, <1>6, <3>1
    <3>3. After(m + 1) \in Nat
      BY <1>2, <3>2, Layout
    <3> QED BY <1>6, <3>2, <3>3
  <2> QED BY <1>2, <2>1, WholeSent
<1>13. Cardinality(Whole) \in Nat
  BY <1>2, WholeSent
<1> QED BY <1>2, <1>10, <1>11, <1>12, <1>13

\* Every step of the framing is one of the channel, or nothing to it.
LEMMA StepRefines ==
    IInv /\ IInv' /\ [Next]_vars => [Channel!Next]_<<Cardinality(Whole), Numbers, spoilt, ~open>>
<1> SUFFICES ASSUME IInv, IInv', [Next]_vars
             PROVE  [Channel!Next]_<<Cardinality(Whole), Numbers, spoilt, ~open>>
  OBVIOUS
<1> DEFINE S == Cardinality(Whole)
           seen == <<S, Numbers, spoilt, ~open>>
<1>1. /\ Channel!Send <=> S' = S + 1 /\ Numbers' = Numbers /\ spoilt' = spoilt /\ (~open)' = ~open
      /\ Channel!Deliver <=> /\ ~spoilt /\ ~(~open) /\ Len(Numbers) < S
                             /\ Numbers' = Append(Numbers, Len(Numbers) + 1)
                             /\ S' = S /\ spoilt' = spoilt
      /\ Channel!End <=> /\ ~(~open) /\ (~open)' /\ S' = S /\ Numbers' = Numbers
                         /\ spoilt' = spoilt
      /\ Channel!Break <=> /\ ~(~open) /\ spoilt' /\ S' = S /\ Numbers' = Numbers
                           /\ (~open)' = ~open
      /\ Channel!Stray <=> spoilt /\ spoilt' /\ ~(~open)
  BY DEF Channel!Send, Channel!Deliver, Channel!End, Channel!Break, Channel!Stray, Whole, Numbers
<1>2. /\ Channel!Send => Channel!Next
      /\ Channel!Deliver /\ (~open)' \in BOOLEAN => Channel!Next
      /\ Channel!End => Channel!Next /\ (Channel!Break => Channel!Next)
      /\ Channel!Stray => Channel!Next
  BY DEF Channel!Next
<1>3. Channel!Break => Channel!Next
  BY DEF Channel!Next
<1>4. /\ Typed /\ Laid /\ S \in Nat /\ open \in BOOLEAN /\ spoilt \in BOOLEAN
      /\ open' \in BOOLEAN /\ spoilt' \in BOOLEAN
  BY WholeSent DEF IInv, Typed
<1> HIDE DEF S
<1>5. ASSUME NEW n \in Lengths, Send(n) \/ (\E m \in FailAt : SendFails(n, m))
      PROVE  Channel!Next \/ seen' = seen
  <2>1. PICK l : l = Len(sent)
    OBVIOUS
  <2>2. n \in Nat /\ HeaderSize(n) \in {6, 8, 14} /\ wire \in Nat /\ l \in Nat
    <3>1. n \in Nat
      BY FramingAssumption
    <3>2. HeaderSize(n) \in {6, 8, 14}
      BY <3>1, HeaderSizes
    <3>3. wire \in Nat /\ Len(sent) \in Nat
      BY DEF IInv, Typed
    <3> QED BY <2>1, <3>1, <3>2, <3>3
  <2>3. /\ sending /\ sent' = Append(sent, [at |-> wire, len |-> n])
        /\ got' = got /\ open' = open /\ spoilt' = spoilt
        /\ wire' \in Nat /\ sending' \in BOOLEAN
        /\ \/ sending' = sending /\ wire' = wire + HeaderSize(n) + n
           \/ sending' = FALSE /\ wire <= wire' /\ wire' < wire + HeaderSize(n) + n
    <3>1. CASE Send(n)
      BY <2>2, <3>1 DEF Send, IInv, Typed
    <3>2. ASSUME NEW m \in FailAt, SendFails(n, m)
          PROVE  /\ sending /\ sent' = Append(sent, [at |-> wire, len |-> n])
                 /\ got' = got /\ open' = open /\ spoilt' = spoilt
                 /\ wire' \in Nat /\ sending' \in BOOLEAN
                 /\ sending' = FALSE /\ wire <= wire' /\ wire' < wire + HeaderSize(n) + n
      <4>1. m \in Nat
        BY FramingAssumption
      <4>2. wire' = wire + m /\ m < HeaderSize(n) + n
        BY <3>2 DEF SendFails
      <4>3. wire' \in Nat /\ wire <= wire' /\ wire' < wire + HeaderSize(n) + n
        BY <2>2, <4>1, <4>2
      <4>4. sending' = FALSE /\ sending' \in BOOLEAN
        BY <3>2, Zenon DEF SendFails
      <4> QED BY <3>2, <4>3, <4>4 DEF SendFails
    <3> QED BY <1>5, <3>1, <3>2
  <2>4. IF sending' THEN wire' = wire + HeaderSize(n) + n
        ELSE wire <= wire' /\ wire' < wire + HeaderSize(n) + n
    BY <2>3
  <2>5. /\ Len(sent') = l + 1 /\ Places = 1 .. l /\ Places' = 1 .. l + 1
        /\ \A k \in Places : sent'[k] = sent[k] /\ Body(k)' = Body(k)
        /\ Body(l + 1)' = wire + HeaderSize(n)
    BY <1>4, <2>1, <2>2, <2>3, <2>4, OneMore
  <2>6. Numbers' = Numbers
    BY <2>1, <2>2, <2>3, <2>5, NumbersKept
  <2>7. S = l /\ S' = IF sending' THEN l + 1 ELSE l
    <3>1. S = l
      BY <1>4, <2>1, <2>3, WholeSent DEF S
    <3>2. S' = IF sending' THEN Len(sent') ELSE Len(sent') - 1
      <4>1. Typed /\ Laid => S = IF sending THEN Len(sent) ELSE Len(sent) - 1
        BY WholeSent DEF S
      <4>2. (Typed /\ Laid => S = IF sending THEN Len(sent) ELSE Len(sent) - 1)'
        BY WholeSent, PTL DEF S
      <4> QED BY <4>2 DEF IInv
    <3> QED BY <2>2, <2>5, <3>1, <3>2
  <2>8. CASE sending'
    BY <1>1, <1>2, <2>3, <2>6, <2>7, <2>8
  <2>9. CASE ~sending'
    BY <2>3, <2>6, <2>7, <2>9
  <2> QED BY <2>8, <2>9
<1>6. ASSUME UNCHANGED <<sent, wire, sending>>, got' = got,
             \/ spoilt' = spoilt /\ (open' = open \/ (open /\ ~open'))
             \/ open /\ open' = open /\ (spoilt => spoilt')
      PROVE  Channel!Next \/ seen' = seen
  <2>1. S' = S /\ Numbers' = Numbers
    BY <1>6, Unsent DEF S
  <2> QED BY <1>1, <1>2, <1>3, <1>4, <1>6, <2>1
<1>7. ASSUME NEW g, got' = Append(got, g), open, UNCHANGED <<sent, wire, sending, spoilt>>
      PROVE  Channel!Next
  <2>1. S' = S
    BY <1>7, Unsent DEF S
  <2>2. CASE ~spoilt
    BY <1>1, <1>2, <1>4, <1>7, <2>1, <2>2, DeliveredNext DEF S
  <2>3. CASE spoilt
    BY <1>1, <1>2, <1>7, <2>3
  <2> QED BY <2>2, <2>3
<1>8. ASSUME NEW closes \in BOOLEAN, Turn(closes)
      PROVE  Channel!Next \/ seen' = seen
  <2>1. /\ UNCHANGED <<sent, wire, sending, spoilt>> /\ InEvent
    BY <1>8 DEF Turn, Lose, TooLong, PartHeader, FirstPart, NextPart, Copied, InHeader
  <2>2. open
    BY <2>1 DEF InEvent, IInv, Looping, Typed
  <2>3. \/ got' = got /\ (open' = open \/ open' = FALSE)
        \/ \E g : got' = Append(got, g)
    BY <1>8 DEF Turn, Lose, TooLong, PartHeader, FirstPart, NextPart, Copied, Deliver
  <2>4. CASE got' = got /\ (open' = open \/ open' = FALSE)
    BY <1>6, <2>1, <2>2, <2>4
  <2>5. CASE \E g : got' = Append(got, g)
    BY <1>7, <2>1, <2>2, <2>5
  <2> QED BY <2>3, <2>4, <2>5
<1>9. ASSUME Receive \/ Hangup \/ Reset \/ UNCHANGED vars
      PROVE  Channel!Next \/ seen' = seen
  <2>1. /\ UNCHANGED <<sent, wire, sending>> /\ got' = got
        /\ \/ spoilt' = spoilt /\ (open' = open \/ (open /\ ~open'))
           \/ open /\ open' = open /\ (spoilt => spoilt')
    BY <1>9 DEF Receive, Read, Hangup, Reset, Idle, vars
  <2> QED BY <1>6, <2>1
<1>10. Channel!Next \/ seen' = seen
  <2>1. CASE \E n \in Lengths : Send(n) \/ \E m \in FailAt : SendFails(n, m)
    BY <1>5, <2>1, Zenon
  <2>2. CASE \E closes \in BOOLEAN : Turn(closes)
    BY <1>8, <2>2, Zenon
  <2>3. CASE Receive \/ Hangup \/ Reset \/ UNCHANGED vars
    BY <1>9, <2>3, Zenon
  <2> QED BY <2>1, <2>2, <2>3, Zenon DEF Next
<1> QED BY <1>10, Zenon DEF S

\* Every behaviour of the framing is one of the channel, but for what the channel's fairness
\* says: until the connection is spoilt, every message is delivered once, in the order of
\* sending and only if it was sent whole, and nothing follows the end.
THEOREM ChannelStepsAlways == Spec => Channel!Init /\ [][Channel!Next]_(Channel!vars)
<1>1. Init => Channel!Init
  <2> SUFFICES ASSUME Init PROVE Channel!Init
    OBVIOUS
  <2>1. Len(sent) = 0 /\ Places = {} /\ Len(got) = 0 /\ ~spoilt /\ open
    BY DEF Init, Places
  <2>2. {k \in Places : End(k) <= wire} = {}
    BY <2>1
  <2>3. Cardinality({k \in Places : End(k) <= wire}) = 0
    BY <2>2, FS_EmptySet
  <2>4. [i \in 1 .. Len(got) |-> WhichMessage(got[i])] = << >>
    BY <2>1
  <2> QED BY <2>1, <2>3, <2>4 DEF Channel!Init
<1>2. Channel!vars = <<Cardinality(Whole), Numbers, spoilt, ~open>>
  BY DEF Channel!vars, Whole, Numbers
<1>3. IInv /\ [Next]_vars => [Channel!Next]_(Channel!vars)
  <2>1. IInv /\ [Next]_vars => [Channel!Next]_<<Cardinality(Whole), Numbers, spoilt, ~open>>
    BY StepKeeps, StepRefines
  <2> QED BY <2>1 DEF Channel!vars, Whole, Numbers
<1> QED BY <1>1, <1>3, Invariance, PTL DEF Spec

===============================================================================
