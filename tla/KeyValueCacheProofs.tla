-------------------------- MODULE KeyValueCacheProofs --------------------------
(***************************************************************************)
(* Proofs about the two-page cache and the hash under it, for all keys and  *)
(* values and every size of a page: until a name comes into two slots no    *)
(* block is in use for two purposes, so a get answers what was put last or  *)
(* misses, a put is answered at once, and a swap of the pages loses what    *)
(* SwapLosesOnly says and no more.                                          *)
(***************************************************************************)
EXTENDS KeyValueCache, SequenceTheorems, WellFoundedInduction, NaturalsInduction, TLAPS

\* what the parts of a page are, and a page
Buckets  == {Bucket(k) : k \in Keys}
Payloads == Keys \cup Strings \cup Numbers \cup {"slots"}
Slot     == [name : Nat, block : Nat, id : Types \cup {"none"}]
Block    == [size : Nat, value : Payloads, used : BOOLEAN]
Pages    == [slots : [Buckets -> Seq(Slot)], blocks : Seq(Block), room : Nat]

\* the slots that have the name of k, and those a put of k may take
Places(p, k) == {i \in DOMAIN Slots(p, k) : Named(p, Slots(p, k)[i], k)}
Free(p, k)   == {i \in DOMAIN Slots(p, k) :
                    Slots(p, k)[i].name = 0 \/ Named(p, Slots(p, k)[i], k)}

-----------------------------------------------------------------------------
\* A set of places that is not empty has a first.
LEMMA MinIn ==
    ASSUME NEW S \in SUBSET Nat, S # {}
    PROVE  Min(S) \in S /\ \A y \in S : Min(S) <= y
<1>1. \E x \in S : \A y \in S : ~ (<<y, x>> \in OpToRel(<, Nat))
  BY WFMin, NatLessThanWellFounded
<1>2. PICK x \in S : \A y \in S : ~(y < x)
  BY <1>1 DEF OpToRel
<1>3. \A y \in S : x <= y
  BY <1>2
<1> QED BY <1>3 DEF Min

\* ... and, if it is bounded, a last.
LEMMA MaxIn ==
    ASSUME NEW N \in Nat, NEW S \in SUBSET (1 .. N), S # {}
    PROVE  Max(S) \in S
<1> DEFINE T == {i \in Nat : \E x \in S : x = N - i}
<1>1. T \in SUBSET Nat /\ T # {}
  <2>1. PICK x \in S : TRUE
    OBVIOUS
  <2>2. N - x \in T
    <3>1. x \in 1 .. N /\ N - x \in Nat /\ x = N - (N - x)
      OBVIOUS
    <3> QED BY <3>1
  <2> QED BY <2>2
<1>2. PICK m : m = Min(T)
  OBVIOUS
<1>3. m \in T /\ \A i \in T : m <= i
  <2> HIDE DEF T
  <2> QED BY <1>1, <1>2, MinIn
<1>4. PICK x \in S : x = N - m
  BY <1>3
<1>5. ASSUME NEW y \in S
      PROVE  x >= y
  <2>1. y \in 1 .. N /\ N - y \in Nat /\ y = N - (N - y)
    OBVIOUS
  <2>2. m <= N - y
    BY <1>3, <2>1
  <2> QED BY <1>3, <1>4, <2>1, <2>2
<1>6. \E z \in S : \A y \in S : z >= y
  BY <1>5
<1> QED BY <1>6 DEF Max

\* Find answers the first place of a name, 0 if there is none.
LEMMA FindIs ==
    ASSUME NEW p \in Pages, NEW k \in Keys
    PROVE  /\ Places(p, k) = {} => Find(p, k) = 0
           /\ Places(p, k) # {} => /\ Find(p, k) \in Places(p, k)
                                   /\ \A y \in Places(p, k) : Find(p, k) <= y
<1>1. Slots(p, k) \in Seq(Slot)
  BY DEF Pages, Slots, Buckets
<1>2. Places(p, k) = {i \in 1 .. Len(Slots(p, k)) : Named(p, Slots(p, k)[i], k)}
  BY <1>1 DEF Places
<1>3. Find(p, k) = IF Places(p, k) # {} THEN Min(Places(p, k)) ELSE 0
  BY <1>2, Zenon DEF Find, SelectInSeq
<1>4. Places(p, k) \in SUBSET Nat
  BY <1>2
<1> QED BY <1>3, <1>4, MinIn

\* SlotFor answers the first place that a put of the name may take, 0 if there is none.
LEMMA SlotForIs ==
    ASSUME NEW p \in Pages, NEW k \in Keys
    PROVE  /\ Free(p, k) = {} => SlotFor(p, k) = 0
           /\ Free(p, k) # {} => /\ SlotFor(p, k) \in Free(p, k)
                                 /\ \A y \in Free(p, k) : SlotFor(p, k) <= y
<1>1. Slots(p, k) \in Seq(Slot)
  BY DEF Pages, Slots, Buckets
<1>2. Free(p, k) = {i \in 1 .. Len(Slots(p, k)) :
                      Slots(p, k)[i].name = 0 \/ Named(p, Slots(p, k)[i], k)}
  BY <1>1 DEF Free
<1>3. SlotFor(p, k) = IF Free(p, k) # {} THEN Min(Free(p, k)) ELSE 0
  BY <1>2, Zenon DEF SlotFor, SelectInSeq
<1>4. Free(p, k) \in SUBSET Nat
  BY <1>2
<1> QED BY <1>3, <1>4, MinIn

-----------------------------------------------------------------------------
\* What a request for memory leaves alone: the slots, and every block in use.
Keeps(p, q) ==
    /\ q \in Pages /\ q.slots = p.slots /\ q.room <= p.room
    /\ Len(p.blocks) <= Len(q.blocks)
    /\ \A j \in DOMAIN p.blocks : p.blocks[j].used => q.blocks[j] = p.blocks[j]

\* A block that nothing in use is.
Fresh(p, b) == b \in Nat \ {0} /\ (b \in DOMAIN p.blocks => ~p.blocks[b].used)

\* A page keeps itself, and what is kept twice is kept.
LEMMA KeepsIsOrder ==
    /\ \A p \in Pages : Keeps(p, p)
    /\ \A p, q, r : p \in Pages /\ Keeps(p, q) /\ Keeps(q, r) => Keeps(p, r)
<1>1. ASSUME NEW p \in Pages
      PROVE  Keeps(p, p)
  BY DEF Keeps, Pages
<1>2. ASSUME NEW p \in Pages, NEW q, NEW r, Keeps(p, q), Keeps(q, r)
      PROVE  Keeps(p, r)
  <2>1. /\ p.blocks \in Seq(Block) /\ q.blocks \in Seq(Block) /\ r.blocks \in Seq(Block)
        /\ p.room \in Nat /\ q.room \in Nat /\ r.room \in Nat
    BY <1>2 DEF Keeps, Pages
  <2>2. \A j \in DOMAIN p.blocks : j \in DOMAIN q.blocks
    BY <2>1, <1>2 DEF Keeps
  <2> QED BY <1>2, <2>1, <2>2 DEF Keeps
<1> QED BY <1>1, <1>2

\* The released block that is used again is large enough.
LEMMA ReusedIs ==
    ASSUME NEW p \in Pages, NEW n \in Nat, Reused(p, n) # 0
    PROVE  Reused(p, n) \in DOMAIN p.blocks /\ ~p.blocks[Reused(p, n)].used
<1> DEFINE I == {i \in 1 .. Len(p.blocks) : ~p.blocks[i].used /\ p.blocks[i].size >= n}
<1>1. Reused(p, n) = IF I # {} THEN Max(I) ELSE 0
  BY Zenon DEF Reused, SelectLastInSeq
<1>2. /\ p.blocks \in Seq(Block) /\ Len(p.blocks) \in Nat
      /\ I \in SUBSET (1 .. Len(p.blocks))
  BY DEF Pages
<1>3. I # {} => Max(I) \in I
  <2> HIDE DEF I
  <2> QED BY <1>2, MaxIn
<1> QED BY <1>1, <1>2, <1>3

\* Memory is a block that nothing in use is, or there is no room for it.
LEMMA NewBlockIs ==
    ASSUME NEW p \in Pages, NEW n \in Nat, NEW v \in Payloads, NEW r, r = NewBlock(p, n, v)
    PROVE  /\ r.block = 0 => Keeps(p, r.page) /\ r.page.room < n
           /\ r.block # 0 => /\ Keeps(p, r.page) /\ Fresh(p, r.block)
                             /\ r.block \in DOMAIN r.page.blocks
                             /\ r.page.blocks[r.block].value = v
                             /\ r.page.blocks[r.block].used
<1>1. p.blocks \in Seq(Block) /\ p.room \in Nat /\ p.slots \in [Buckets -> Seq(Slot)]
  BY DEF Pages
<1>2. CASE ~(n <= p.room) /\ ~(p.room > 0) /\ Reused(p, n) # 0
  <2>1. PICK i : i = Reused(p, n)
    OBVIOUS
  <2>2. i \in 1 .. Len(p.blocks) /\ ~p.blocks[i].used /\ i # 0
    BY <1>1, <1>2, <2>1, ReusedIs
  <2>3. PICK b : b = [p.blocks[i] EXCEPT !.value = v, !.used = TRUE]
    OBVIOUS
  <2>4. b \in Block /\ b.used /\ b.value = v
    <3>1. p.blocks[i] \in Block
      BY <1>1, <2>2
    <3>2. b = [size |-> p.blocks[i].size, value |-> v, used |-> TRUE]
      BY <2>3, <3>1 DEF Block
    <3> QED BY <3>1, <3>2 DEF Block
  <2>5. PICK q : q = [p EXCEPT !.blocks[i] = b]
    OBVIOUS
  <2>6. r = Got(q, i)
    BY <1>2, <2>1, <2>3, <2>5, Zenon DEF NewBlock
  <2>7. q.blocks = [p.blocks EXCEPT ![i] = b] /\ q.slots = p.slots /\ q.room = p.room
    BY <2>5 DEF Pages
  <2>8. q \in Pages /\ Len(q.blocks) = Len(p.blocks)
    <3>1. q.blocks \in Seq(Block) /\ Len(q.blocks) = Len(p.blocks)
      BY <1>1, <2>2, <2>4, <2>7
    <3>2. q = [slots |-> q.slots, blocks |-> q.blocks, room |-> q.room]
      BY <2>5 DEF Pages
    <3> QED BY <1>1, <2>7, <3>1, <3>2 DEF Pages
  <2>9. Keeps(p, q)
    BY <1>1, <2>2, <2>7, <2>8 DEF Keeps
  <2> QED BY <1>1, <2>2, <2>4, <2>6, <2>7, <2>8, <2>9 DEF Fresh, Got, Pages
<1>3. CASE ~(n <= p.room) /\ p.room > 0
  <2>1. PICK q : q = [p EXCEPT !.room = @ - 1]
    OBVIOUS
  <2>2. r = Got(q, 0)
    BY <1>3, <2>1, Zenon DEF NewBlock
  <2>3. /\ q.blocks = p.blocks /\ q.slots = p.slots /\ q.room = p.room - 1
        /\ q = [slots |-> q.slots, blocks |-> q.blocks, room |-> q.room]
    BY <2>1 DEF Pages
  <2>4. q.room \in Nat /\ q.room <= p.room /\ q.room < n
    BY <1>1, <1>3, <2>3
  <2>5. Keeps(p, q)
    BY <1>1, <2>3, <2>4 DEF Keeps, Pages
  <2> QED BY <2>2, <2>4, <2>5 DEF Got
<1>4. CASE ~(n <= p.room) /\ ~(p.room > 0) /\ Reused(p, n) = 0
  <2>1. r = Got(p, 0)
    BY <1>4, Zenon DEF NewBlock
  <2> QED BY <1>1, <1>4, <2>1, KeepsIsOrder DEF Got
<1>5. CASE n <= p.room
  <2>1. PICK b : b = [size |-> n, value |-> v, used |-> TRUE]
    OBVIOUS
  <2>2. PICK q : q = [p EXCEPT !.room = @ - n, !.blocks = Append(@, b)]
    OBVIOUS
  <2>3. r = Got(q, Len(p.blocks) + 1)
    BY <1>5, <2>1, <2>2, Zenon DEF NewBlock
  <2>4. /\ b \in Block /\ b.used /\ b.value = v
        /\ q.blocks = Append(p.blocks, b) /\ q.room = p.room - n /\ q.slots = p.slots
    BY <1>1, <2>1, <2>2 DEF Block, Pages
  <2>5. q \in Pages
    <3>1. q.blocks \in Seq(Block) /\ q.room \in Nat
      BY <1>1, <1>5, <2>4
    <3>2. q = [slots |-> q.slots, blocks |-> q.blocks, room |-> q.room]
      BY <2>2 DEF Pages
    <3> QED BY <1>1, <2>4, <3>1, <3>2 DEF Pages
  <2>6. Keeps(p, q)
    BY <1>1, <2>4, <2>5 DEF Keeps
  <2> QED BY <1>1, <2>3, <2>4, <2>6 DEF Fresh, Got
<1> QED BY <1>2, <1>3, <1>4, <1>5

-----------------------------------------------------------------------------
\* A slot in use has a name and a value in two blocks that are in use.
Owns(p, s) ==
    /\ {s.name, s.block} \subseteq DOMAIN p.blocks /\ s.name # s.block
    /\ p.blocks[s.name].used /\ p.blocks[s.block].used
    /\ s.id \in Types

\* ... and its value's block is no other slot's.
Apart(s, t) == s.name # t.block /\ s.block # t.name /\ s.block # t.block

\* A page in which every name is in one slot, and every block in use for one purpose.
Sound(p) ==
    /\ p \in Pages
    /\ \A b \in Buckets : p.slots[b] = << >> \/ ElementSize <= Len(p.slots[b])
    /\ \A k \in Keys : \A i \in DOMAIN Slots(p, k) :
          Slots(p, k)[i] = Hole \/ \E l \in Keys : Bucket(l) = Bucket(k) /\ i \in Places(p, l)
    /\ \A k \in Keys : \A i \in Places(p, k) : Owns(p, Slots(p, k)[i])
    /\ \A k \in Keys : \A i, j \in Places(p, k) : i = j
    /\ \A k, l \in Keys : k # l =>
          \A i \in Places(p, k), j \in Places(p, l) : Apart(Slots(p, k)[i], Slots(p, l)[j])

\* What the hash answers for a name that is in one slot.
LEMMA AnswerIs ==
    ASSUME NEW p, Sound(p), NEW k \in Keys
    PROVE  /\ Places(p, k) = {} => Find(p, k) = 0 /\ Answer(p, k) = Miss
           /\ \A i \in Places(p, k) :
                 /\ i \in Nat \ {0} /\ Find(p, k) = i /\ Places(p, k) = {i}
                 /\ Answer(p, k) = [id    |-> Slots(p, k)[i].id,
                                    value |-> p.blocks[Slots(p, k)[i].block].value]
                 /\ Answer(p, k).id \in Types /\ Answer(p, k).value \in Payloads
                 /\ Answer(p, k) # Miss
<1>1. p \in Pages /\ Slots(p, k) \in Seq(Slot) /\ p.blocks \in Seq(Block)
  BY DEF Sound, Pages, Slots, Buckets
<1>2. Places(p, k) = {} => Find(p, k) = 0 /\ Answer(p, k) = Miss
  BY <1>1, FindIs DEF Answer
<1>3. ASSUME NEW i \in Places(p, k)
      PROVE  /\ i \in Nat \ {0} /\ Find(p, k) = i /\ Places(p, k) = {i}
             /\ Answer(p, k) = [id    |-> Slots(p, k)[i].id,
                                value |-> p.blocks[Slots(p, k)[i].block].value]
             /\ Answer(p, k).id \in Types /\ Answer(p, k).value \in Payloads
             /\ Answer(p, k) # Miss
  <2>1. i \in 1 .. Len(Slots(p, k))
    BY <1>1, <1>3 DEF Places
  <2>2. Find(p, k) = i /\ Places(p, k) = {i}
    BY <1>1, <1>3, FindIs DEF Sound
  <2>3. Answer(p, k) = [id    |-> Slots(p, k)[i].id,
                        value |-> p.blocks[Slots(p, k)[i].block].value]
    BY <2>1, <2>2 DEF Answer
  <2>4. Slots(p, k)[i].id \in Types /\ p.blocks[Slots(p, k)[i].block] \in Block
    BY <1>1, <1>3 DEF Sound, Owns
  <2> QED BY <2>1, <2>2, <2>3, <2>4 DEF Block, Types, Miss
<1> QED BY <1>2, <1>3

\* A request for memory leaves every answer as it was.
LEMMA KeepsSound ==
    ASSUME NEW p, NEW q, Sound(p), Keeps(p, q)
    PROVE  /\ Sound(q)
           /\ \A k \in Keys : /\ Slots(q, k) = Slots(p, k) /\ Places(q, k) = Places(p, k)
                              /\ Find(q, k) = Find(p, k) /\ Answer(q, k) = Answer(p, k)
<1>1. /\ p \in Pages /\ q \in Pages /\ p.blocks \in Seq(Block) /\ q.blocks \in Seq(Block)
      /\ q.slots = p.slots
  BY DEF Sound, Keeps, Pages
<1>2. \A k \in Keys : Slots(q, k) = Slots(p, k) /\ Slots(p, k) \in Seq(Slot)
  BY <1>1 DEF Slots, Pages, Buckets
<1>3. \A j \in DOMAIN p.blocks : j \in DOMAIN q.blocks /\ (p.blocks[j].used => q.blocks[j] = p.blocks[j])
  BY <1>1 DEF Keeps
<1>4. ASSUME NEW k \in Keys
      PROVE  Places(q, k) = Places(p, k)
  <2>1. ASSUME NEW i \in DOMAIN Slots(p, k)
        PROVE  Named(q, Slots(q, k)[i], k) <=> Named(p, Slots(p, k)[i], k)
    <3>1. CASE Slots(p, k)[i] = Hole
      BY <1>2, <3>1 DEF Named, Hole
    <3>2. CASE Slots(p, k)[i] # Hole
      <4>1. PICK l \in Keys : Bucket(l) = Bucket(k) /\ i \in Places(p, l)
        BY <2>1, <3>2 DEF Sound
      <4>2. Slots(p, l) = Slots(p, k) /\ Owns(p, Slots(p, k)[i])
        BY <4>1 DEF Sound, Slots
      <4>3. q.blocks[Slots(p, k)[i].name] = p.blocks[Slots(p, k)[i].name]
        BY <1>3, <4>2 DEF Owns
      <4> QED BY <1>2, <4>3 DEF Named
    <3> QED BY <3>1, <3>2
  <2> QED BY <1>2, <2>1 DEF Places
<1>5. ASSUME NEW k \in Keys, NEW i \in Places(p, k)
      PROVE  /\ Owns(q, Slots(q, k)[i])
             /\ q.blocks[Slots(q, k)[i].block] = p.blocks[Slots(p, k)[i].block]
  <2>1. Owns(p, Slots(p, k)[i])
    BY <1>5 DEF Sound
  <2> QED BY <1>2, <1>3, <2>1 DEF Owns
<1>6. Sound(q)
  <2>1. \A k \in Keys : \A i \in DOMAIN Slots(q, k) :
          Slots(q, k)[i] = Hole \/ \E l \in Keys : Bucket(l) = Bucket(k) /\ i \in Places(q, l)
    BY <1>2, <1>4 DEF Sound
  <2>2. \A k, l \in Keys : k # l =>
          \A i \in Places(q, k), j \in Places(q, l) : Apart(Slots(q, k)[i], Slots(q, l)[j])
    BY <1>2, <1>4 DEF Sound
  <2>3. \A k \in Keys : \A i, j \in Places(q, k) : i = j
    BY <1>4 DEF Sound
  <2>4. \A b \in Buckets : q.slots[b] = << >> \/ ElementSize <= Len(q.slots[b])
    BY <1>1 DEF Sound
  <2> QED BY <1>1, <1>4, <1>5, <2>1, <2>2, <2>3, <2>4 DEF Sound
<1>7. ASSUME NEW k \in Keys
      PROVE  Find(q, k) = Find(p, k) /\ Answer(q, k) = Answer(p, k)
  <2>1. CASE Places(p, k) = {}
    BY <1>4, <1>6, <2>1, AnswerIs
  <2>2. CASE Places(p, k) # {}
    <3>1. PICK i : i \in Places(p, k)
      BY <2>2
    <3>2. i \in Places(q, k)
      BY <1>4, <3>1
    <3> QED BY <1>2, <1>5, <1>6, <3>1, <3>2, AnswerIs
  <2> QED BY <2>1, <2>2
<1> QED BY <1>2, <1>4, <1>6, <1>7

-----------------------------------------------------------------------------
\* q is p with the entry e of k in slot x, and v in the entry's block.  The slot was k's,
\* a hole or new, and k has no other.
Entered(p, q, k, x, e, v) ==
    /\ q \in Pages /\ q.room <= p.room
    /\ \A b \in Buckets : b # Bucket(k) => q.slots[b] = p.slots[b]
    /\ x \in DOMAIN Slots(q, k) /\ Slots(q, k)[x] = e
    /\ Len(Slots(p, k)) <= Len(Slots(q, k)) /\ ElementSize <= Len(Slots(q, k))
    /\ \A y \in DOMAIN Slots(q, k) :
          y # x => Slots(q, k)[y] = IF y \in DOMAIN Slots(p, k) THEN Slots(p, k)[y] ELSE Hole
    /\ Places(p, k) \subseteq {x}
    /\ x \in DOMAIN Slots(p, k) => x \in Places(p, k) \/ Slots(p, k)[x] = Hole
    /\ Owns(q, e) /\ e.name # 0 /\ q.blocks[e.name].value = k /\ q.blocks[e.block].value = v
    /\ \A l \in Keys : l # k => \A y \in Places(p, l) :
          /\ Owns(q, Slots(p, l)[y]) /\ Apart(Slots(p, l)[y], e)
          /\ q.blocks[Slots(p, l)[y].name] = p.blocks[Slots(p, l)[y].name]
          /\ q.blocks[Slots(p, l)[y].block] = p.blocks[Slots(p, l)[y].block]

\* The entry is answered for its name, and no other name's answer changed.
LEMMA EnteredSound ==
    ASSUME NEW p, NEW q, NEW k \in Keys, NEW x, NEW e, NEW v,
           Sound(p), Entered(p, q, k, x, e, v)
    PROVE  /\ Sound(q)
           /\ Answer(q, k) = [id |-> e.id, value |-> v] /\ Answer(q, k) # Miss
           /\ \A l \in Keys : l # k => Answer(q, l) = Answer(p, l)
           /\ \A l \in Keys : Len(Slots(p, l)) <= Len(Slots(q, l))
<1>1. /\ p \in Pages /\ q \in Pages /\ p.blocks \in Seq(Block) /\ q.blocks \in Seq(Block)
      /\ \A l \in Keys : /\ Slots(p, l) \in Seq(Slot) /\ Slots(q, l) \in Seq(Slot)
                         /\ Bucket(l) \in Buckets
                         /\ Bucket(l) = Bucket(k) => /\ Slots(p, l) = Slots(p, k)
                                                     /\ Slots(q, l) = Slots(q, k)
                         /\ Bucket(l) # Bucket(k) => Slots(q, l) = Slots(p, l)
  BY DEF Sound, Entered, Pages, Slots, Buckets
<1>2. /\ x \in DOMAIN Slots(q, k) /\ Slots(q, k)[x] = e /\ e.name # 0
      /\ q.blocks[e.name].value = k /\ Owns(q, e) /\ Places(p, k) \subseteq {x}
  BY DEF Entered
<1>3. \A l \in Keys : /\ Len(Slots(p, l)) <= Len(Slots(q, l))
                      /\ \A y \in DOMAIN Slots(p, l) : y \in DOMAIN Slots(q, l)
  <2> SUFFICES ASSUME NEW l \in Keys
               PROVE  /\ Len(Slots(p, l)) <= Len(Slots(q, l))
                      /\ \A y \in DOMAIN Slots(p, l) : y \in DOMAIN Slots(q, l)
    OBVIOUS
  <2>1. Len(Slots(p, k)) <= Len(Slots(q, k))
    BY DEF Entered
  <2>2. Slots(p, l) \in Seq(Slot) /\ Slots(q, l) \in Seq(Slot)
    BY <1>1
  <2>3. Len(Slots(p, l)) <= Len(Slots(q, l))
    <3>1. CASE Bucket(l) = Bucket(k)
      <4>1. Slots(p, l) = Slots(p, k) /\ Slots(q, l) = Slots(q, k)
        BY <1>1, <3>1
      <4> QED BY <2>1, <4>1
    <3>2. CASE Bucket(l) # Bucket(k)
      <4>1. Slots(q, l) = Slots(p, l)
        BY <1>1, <3>2
      <4>2. Len(Slots(p, l)) \in Nat
        BY <2>2
      <4> QED BY <4>1, <4>2
    <3> QED BY <3>1, <3>2
  <2> QED BY <2>2, <2>3
<1>4. Places(q, k) = {x}
  <2>1. x \in Places(q, k)
    BY <1>2 DEF Places, Named
  <2>2. ASSUME NEW y \in Places(q, k), y # x
        PROVE  FALSE
    <3>1. /\ y \in DOMAIN Slots(q, k) /\ Slots(q, k)[y].name # 0
          /\ q.blocks[Slots(q, k)[y].name].value = k
      BY <2>2 DEF Places, Named
    <3>2. y \in DOMAIN Slots(p, k) /\ Slots(q, k)[y] = Slots(p, k)[y]
      BY <2>2, <3>1 DEF Entered, Hole
    <3>3. PICK l \in Keys : Bucket(l) = Bucket(k) /\ y \in Places(p, l)
      BY <3>1, <3>2 DEF Sound, Hole
    <3>4. l # k
      BY <1>2, <2>2, <3>3
    <3>5. q.blocks[Slots(p, l)[y].name] = p.blocks[Slots(p, l)[y].name]
      BY <3>3, <3>4 DEF Entered
    <3>6. p.blocks[Slots(p, l)[y].name].value = l
      BY <3>3 DEF Places, Named
    <3> QED BY <1>1, <3>1, <3>2, <3>3, <3>4, <3>5, <3>6
  <2> QED BY <2>1, <2>2
<1>5. ASSUME NEW l \in Keys, l # k
      PROVE  /\ Places(q, l) = Places(p, l)
             /\ \A y \in Places(p, l) : /\ Slots(q, l)[y] = Slots(p, l)[y]
                                        /\ Owns(q, Slots(q, l)[y]) /\ Apart(Slots(q, l)[y], e)
                                        /\ q.blocks[Slots(q, l)[y].block] = p.blocks[Slots(p, l)[y].block]
  <2>1. ASSUME NEW y \in Places(p, l)
        PROVE  /\ Slots(q, l)[y] = Slots(p, l)[y] /\ y \in Places(q, l)
               /\ Owns(q, Slots(q, l)[y]) /\ Apart(Slots(q, l)[y], e)
               /\ q.blocks[Slots(q, l)[y].block] = p.blocks[Slots(p, l)[y].block]
    <3>1. /\ y \in DOMAIN Slots(p, l) /\ Slots(p, l)[y].name # 0
          /\ p.blocks[Slots(p, l)[y].name].value = l
      BY <2>1 DEF Places, Named
    <3>2. Slots(q, l)[y] = Slots(p, l)[y]
      <4>1. CASE Bucket(l) # Bucket(k)
        BY <1>1, <4>1
      <4>2. CASE Bucket(l) = Bucket(k)
        <5>1. y \in DOMAIN Slots(p, k) /\ Slots(p, k)[y] = Slots(p, l)[y] /\ y \in DOMAIN Slots(q, k)
          BY <1>1, <1>3, <3>1, <4>2
        <5>2. y # x
          <6>1. Slots(p, k)[y] # Hole
            BY <3>1, <5>1 DEF Hole
          <6>2. y \notin Places(p, k)
            BY <1>5, <3>1, <5>1 DEF Places, Named
          <6> QED BY <5>1, <6>1, <6>2 DEF Entered
        <5>3. Slots(q, k)[y] = Slots(p, k)[y]
          BY <5>1, <5>2 DEF Entered
        <5> QED BY <1>1, <4>2, <5>1, <5>3
      <4> QED BY <4>1, <4>2
    <3>3. /\ Owns(q, Slots(p, l)[y]) /\ Apart(Slots(p, l)[y], e)
          /\ q.blocks[Slots(p, l)[y].name] = p.blocks[Slots(p, l)[y].name]
          /\ q.blocks[Slots(p, l)[y].block] = p.blocks[Slots(p, l)[y].block]
      BY <1>5, <2>1 DEF Entered
    <3>4. y \in Places(q, l)
      BY <1>3, <3>1, <3>2, <3>3 DEF Places, Named
    <3> QED BY <3>2, <3>3, <3>4
  <2>2. ASSUME NEW y \in Places(q, l)
        PROVE  y \in Places(p, l)
    <3>1. /\ y \in DOMAIN Slots(q, l) /\ Slots(q, l)[y].name # 0
          /\ q.blocks[Slots(q, l)[y].name].value = l
      BY <2>2 DEF Places, Named
    <3>2. y \in DOMAIN Slots(p, l) /\ Slots(q, l)[y] = Slots(p, l)[y]
      <4>1. CASE Bucket(l) # Bucket(k)
        BY <1>1, <3>1, <4>1
      <4>2. CASE Bucket(l) = Bucket(k)
        <5>1. y # x
          BY <1>1, <1>2, <1>5, <3>1, <4>2
        <5> QED BY <1>1, <3>1, <4>2, <5>1 DEF Entered, Hole
      <4> QED BY <4>1, <4>2
    <3>3. PICK m \in Keys : Bucket(m) = Bucket(l) /\ y \in Places(p, m)
      BY <3>1, <3>2 DEF Sound, Hole
    <3>4. Slots(p, m) = Slots(p, l) /\ Slots(q, m) = Slots(q, l)
      BY <3>3 DEF Slots
    <3>5. p.blocks[Slots(p, l)[y].name].value = m
      BY <3>3, <3>4 DEF Places, Named
    <3>6. CASE m = k
      <4>1. y = x
        BY <1>2, <3>3, <3>6
      <4> QED BY <1>2, <1>5, <3>1, <3>4, <3>6, <4>1
    <3>7. CASE m # k
      <4>1. q.blocks[Slots(p, m)[y].name] = p.blocks[Slots(p, m)[y].name]
        BY <3>3, <3>7 DEF Entered
      <4>2. m = l
        BY <3>1, <3>2, <3>4, <3>5, <4>1
      <4> QED BY <3>3, <4>2
    <3> QED BY <3>6, <3>7
  <2> QED BY <2>1, <2>2
<1>6. Sound(q)
  <2>1. ASSUME NEW l \in Keys, NEW i \in DOMAIN Slots(q, l), Slots(q, l)[i] # Hole
        PROVE  \E m \in Keys : Bucket(m) = Bucket(l) /\ i \in Places(q, m)
    <3>1. CASE Bucket(l) = Bucket(k) /\ i = x
      BY <1>4, <3>1
    <3>2. CASE ~(Bucket(l) = Bucket(k) /\ i = x)
      <4>1. i \in DOMAIN Slots(p, l) /\ Slots(q, l)[i] = Slots(p, l)[i]
        BY <1>1, <2>1, <3>2 DEF Entered
      <4>2. PICK m \in Keys : Bucket(m) = Bucket(l) /\ i \in Places(p, m)
        BY <2>1, <4>1 DEF Sound
      <4>3. m # k
        BY <1>2, <3>2, <4>2
      <4> QED BY <1>5, <4>2, <4>3
    <3> QED BY <3>1, <3>2
  <2>2. ASSUME NEW l \in Keys, NEW i \in Places(q, l)
        PROVE  Owns(q, Slots(q, l)[i])
    BY <1>2, <1>4, <1>5, <2>2
  <2>3. ASSUME NEW l \in Keys, NEW i \in Places(q, l), NEW j \in Places(q, l)
        PROVE  i = j
    BY <1>4, <1>5, <2>3 DEF Sound
  <2>4. ASSUME NEW l \in Keys, NEW m \in Keys, l # m, NEW i \in Places(q, l), NEW j \in Places(q, m)
        PROVE  Apart(Slots(q, l)[i], Slots(q, m)[j])
    <3>1. CASE l = k
      <4>1. Slots(q, l)[i] = e /\ Apart(Slots(q, m)[j], e)
        BY <1>2, <1>4, <1>5, <2>4, <3>1
      <4> QED BY <4>1 DEF Apart
    <3>2. CASE m = k
      BY <1>2, <1>4, <1>5, <2>4, <3>2
    <3>3. CASE l # k /\ m # k
      <4>1. i \in Places(p, l) /\ j \in Places(p, m)
        BY <1>5, <2>4, <3>3
      <4>2. Apart(Slots(p, l)[i], Slots(p, m)[j])
        BY <2>4, <4>1 DEF Sound
      <4> QED BY <1>5, <3>3, <4>1, <4>2
    <3> QED BY <3>1, <3>2, <3>3
  <2>5. ASSUME NEW b \in Buckets
        PROVE  q.slots[b] = << >> \/ ElementSize <= Len(q.slots[b])
    <3>1. CASE b = Bucket(k)
      BY <3>1 DEF Entered, Slots
    <3>2. CASE b # Bucket(k)
      BY <2>5, <3>2 DEF Entered, Sound
    <3> QED BY <3>1, <3>2
  <2> QED BY <1>1, <2>1, <2>2, <2>3, <2>4, <2>5 DEF Sound
<1>7. Answer(q, k) = [id |-> e.id, value |-> v] /\ Answer(q, k) # Miss
  BY <1>2, <1>4, <1>6, AnswerIs DEF Entered
<1>8. ASSUME NEW l \in Keys, l # k
      PROVE  Answer(q, l) = Answer(p, l)
  <2>1. CASE Places(p, l) = {}
    BY <1>5, <1>6, <1>8, <2>1, AnswerIs
  <2>2. CASE Places(p, l) # {}
    <3>1. PICK y : y \in Places(p, l)
      BY <2>2
    <3>2. y \in Places(q, l)
      BY <1>5, <1>8, <3>1
    <3> QED BY <1>5, <1>6, <1>8, <3>1, <3>2, AnswerIs
  <2> QED BY <2>1, <2>2
<1> QED BY <1>3, <1>6, <1>7, <1>8

-----------------------------------------------------------------------------
\* A full bucket is made larger by a slot at least.
LEMMA LargerIs ==
    ASSUME NEW n \in Nat
    PROVE  /\ n # 0 => n * ResizeQuantity \in Nat /\ n + 1 <= n * ResizeQuantity
           /\ ElementSize \in Nat \ {0}
           /\ \A m \in Nat : n <= m => n * ResizeQuantity <= m * ResizeQuantity
<1>1. ResizeQuantity \in Nat /\ ResizeQuantity >= 2 /\ ElementSize \in Nat \ {0}
  BY HashAssumption
<1> DEFINE R == ResizeQuantity
<1> HIDE DEF R
<1>2. PICK r \in Nat : R = r + 2
  <2>1. R - 2 \in Nat /\ R = (R - 2) + 2
    BY <1>1 DEF R
  <2> QED BY <2>1
<1>3. n * R = n * r + n + n /\ n * r \in Nat
  BY <1>2
<1>4. ASSUME NEW m \in Nat, n <= m
      PROVE  n * R <= m * R
  <2>1. PICK d \in Nat : m = n + d
    <3>1. m - n \in Nat /\ m = n + (m - n)
      BY <1>4
    <3> QED BY <3>1
  <2>2. m * R = n * R + d * R /\ d * R \in Nat /\ n * R \in Nat
    BY <1>2, <2>1
  <2> QED BY <2>2
<1>5. n * R \in Nat /\ (n # 0 => n + 1 <= n * R)
  BY <1>3
<1> QED BY <1>1, <1>4, <1>5 DEF R

\* The block a slot had is released, and no other block changes.
LEMMA OldBlockIs ==
    ASSUME NEW d \in Pages, NEW old \in {0} \cup DOMAIN d.blocks, NEW bl,
           NEW c, c = OldBlock(d, old, bl)
    PROVE  /\ c \in Pages /\ c.slots = d.slots /\ c.room = d.room
           /\ Len(c.blocks) = Len(d.blocks)
           /\ \A b \in DOMAIN d.blocks : b # old \/ b = bl => c.blocks[b] = d.blocks[b]
<1>1. d.blocks \in Seq(Block)
  BY DEF Pages
<1>2. CASE old \in {0, bl}
  <2>1. c = d
    BY <1>2 DEF OldBlock
  <2> QED BY <1>1, <1>2, <2>1
<1>3. CASE old \notin {0, bl}
  <2>1. PICK b : b = [d.blocks[old] EXCEPT !.used = FALSE]
    OBVIOUS
  <2>2. c = [d EXCEPT !.blocks[old].used = FALSE]
    BY <1>3 DEF OldBlock, Release
  <2>3. c = [d EXCEPT !.blocks = [d.blocks EXCEPT ![old] = b]]
    BY <2>1, <2>2 DEF Pages
  <2>4. b \in Block
    <3>1. d.blocks[old] \in Block
      BY <1>1, <1>3
    <3> QED BY <2>1, <3>1 DEF Block
  <2>5. c.blocks = [d.blocks EXCEPT ![old] = b] /\ c.slots = d.slots /\ c.room = d.room
    BY <2>3 DEF Pages
  <2>6. c.blocks \in Seq(Block) /\ Len(c.blocks) = Len(d.blocks)
    BY <1>1, <1>3, <2>4, <2>5
  <2>7. c = [slots |-> c.slots, blocks |-> c.blocks, room |-> c.room]
    BY <2>3 DEF Pages
  <2>8. c \in Pages
    BY <2>5, <2>6, <2>7 DEF Pages
  <2> QED BY <1>1, <1>3, <2>5, <2>6, <2>8
<1> QED BY <1>2, <1>3

\* d is p once a put of k has its memory: the name in the block nm, the value v in bl.
Ready(p, d, k, nm, bl, v) ==
    /\ d \in Pages /\ d.slots = p.slots /\ d.room <= p.room
    /\ Places(d, k) = Places(p, k)
    /\ {nm, bl} \subseteq DOMAIN d.blocks /\ nm # bl
    /\ d.blocks[nm].used /\ d.blocks[bl].used
    /\ d.blocks[nm].value = k /\ d.blocks[bl].value = v
    /\ \A l \in Keys : l # k => \A y \in Places(p, l) :
          LET s == Slots(p, l)[y] IN
          /\ Owns(d, s) /\ s.name # bl /\ s.block # nm /\ s.block # bl
          /\ d.blocks[s.name] = p.blocks[s.name] /\ d.blocks[s.block] = p.blocks[s.block]
    /\ \A y \in Places(p, k) : /\ Slots(p, k)[y].block \in DOMAIN d.blocks
                               /\ Slots(p, k)[y].block # nm

\* The slot a put takes does not depend on the memory it got.
LEMMA SameSlotFor ==
    ASSUME NEW p, NEW d, NEW k \in Keys, p \in Pages, d \in Pages, d.slots = p.slots,
           Places(d, k) = Places(p, k)
    PROVE  SlotFor(d, k) = SlotFor(p, k)
<1>1. Free(d, k) = Free(p, k) /\ Free(p, k) \in SUBSET Nat
  <2>1. Slots(d, k) = Slots(p, k) /\ Slots(p, k) \in Seq(Slot)
    BY DEF Slots, Pages, Buckets
  <2> QED BY <2>1 DEF Free, Places
<1> QED BY <1>1, SlotForIs

\* The entry e was put into slot j, and the block that the slot had released.
PutIn(p, d, k, nm, bl, id, j, c, e, r) ==
    /\ e = [name |-> nm, block |-> bl, id |-> id] /\ e \in Slot
    /\ c \in Pages /\ c.slots = d.slots /\ c.room = d.room
    /\ Len(c.blocks) = Len(d.blocks) /\ c.blocks[nm] = d.blocks[nm]
    /\ \A b \in DOMAIN d.blocks : b # Slots(p, k)[j].block \/ b = bl =>
          c.blocks[b] = d.blocks[b]
    /\ r.block = bl /\ bl # 0 /\ r.page.blocks = c.blocks /\ r.page.room = c.room
    /\ r.page.slots = [p.slots EXCEPT ![Bucket(k)] = [@ EXCEPT ![j] = e]]
    /\ r.page \in Pages /\ Slots(r.page, k) = [Slots(p, k) EXCEPT ![j] = e]
    /\ j \in DOMAIN Slots(p, k)
    /\ j \in Places(p, k) \/ Slots(p, k)[j] = Hole

\* The entry comes to a slot of its bucket ...
LEMMA SlotTaken ==
    ASSUME NEW p, NEW d, NEW k \in Keys, NEW nm, NEW bl, NEW v, NEW id \in Types, NEW r,
           NEW j, j = SlotFor(p, k), j # 0, Sound(p), Ready(p, d, k, nm, bl, v),
           r = AddHash(d, k, nm, bl, id)
    PROVE  \E c, e : PutIn(p, d, k, nm, bl, id, j, c, e, r)
<1>1. /\ p \in Pages /\ d \in Pages /\ d.slots = p.slots /\ Slots(d, k) = Slots(p, k)
      /\ Bucket(k) \in Buckets /\ Slots(p, k) \in Seq(Slot) /\ p.slots \in [Buckets -> Seq(Slot)]
      /\ d.blocks \in Seq(Block)
  BY DEF Sound, Ready, Slots, Buckets, Pages
<1>2. SlotFor(d, k) = j
  BY <1>1, SameSlotFor DEF Ready
<1>3. j \in Free(p, k)
  BY <1>1, SlotForIs
<1>4. j \in DOMAIN Slots(p, k) /\ (j \in Places(p, k) \/ Slots(p, k)[j] = Hole)
  <2>1. j \in DOMAIN Slots(p, k) /\ (j \in Places(p, k) \/ Slots(p, k)[j].name = 0)
    BY <1>3 DEF Free, Places
  <2>2. ASSUME Slots(p, k)[j] # Hole
        PROVE  Slots(p, k)[j].name # 0
    <3>1. PICK l \in Keys : Bucket(l) = Bucket(k) /\ j \in Places(p, l)
      BY <2>1, <2>2 DEF Sound
    <3> QED BY <3>1 DEF Places, Named, Slots
  <2> QED BY <2>1, <2>2
<1>5. PICK old : old = Slots(d, k)[j].block
  OBVIOUS
<1>6. old \in {0} \cup DOMAIN d.blocks /\ old # nm
  <2>1. CASE j \in Places(p, k)
    BY <1>1, <1>5, <2>1 DEF Ready
  <2>2. CASE Slots(p, k)[j] = Hole
    BY <1>1, <1>5, <2>2 DEF Ready, Hole
  <2> QED BY <1>4, <2>1, <2>2
<1>7. PICK c : c = OldBlock(d, old, bl)
  OBVIOUS
<1>8. /\ c \in Pages /\ c.slots = d.slots /\ c.room = d.room
      /\ Len(c.blocks) = Len(d.blocks)
      /\ \A b \in DOMAIN d.blocks : b # old \/ b = bl => c.blocks[b] = d.blocks[b]
  BY <1>1, <1>6, <1>7, OldBlockIs
<1>9. PICK e : e = [name |-> nm, block |-> bl, id |-> id]
  OBVIOUS
<1>10. e \in Slot /\ bl # 0 /\ nm \in DOMAIN d.blocks
  <2>1. nm \in 1 .. Len(d.blocks) /\ bl \in 1 .. Len(d.blocks)
    BY <1>1 DEF Ready
  <2> QED BY <1>9, <1>1, <2>1 DEF Slot
<1>11. r = Got([c EXCEPT !.slots[Bucket(k)][j] = e], bl)
  BY <1>2, <1>5, <1>7, <1>9, Zenon DEF AddHash
<1>12. PICK q : q = [c EXCEPT !.slots[Bucket(k)][j] = e]
  OBVIOUS
<1>13. r.page = q /\ r.block = bl
  BY <1>11, <1>12 DEF Got
<1>14. /\ q.slots = [p.slots EXCEPT ![Bucket(k)] = [@ EXCEPT ![j] = e]]
       /\ q.blocks = c.blocks /\ q.room = c.room
       /\ q = [slots |-> q.slots, blocks |-> q.blocks, room |-> q.room]
  BY <1>1, <1>8, <1>12 DEF Pages
<1>15. q.slots[Bucket(k)] = [Slots(p, k) EXCEPT ![j] = e]
  BY <1>1, <1>14 DEF Slots
<1>16. [Slots(p, k) EXCEPT ![j] = e] \in Seq(Slot)
  BY <1>1, <1>4, <1>10
<1>17. q.slots \in [Buckets -> Seq(Slot)]
  BY <1>1, <1>14, <1>15, <1>16
<1>18. q \in Pages
  BY <1>8, <1>14, <1>17 DEF Pages
<1>19. Slots(q, k) = [Slots(p, k) EXCEPT ![j] = e]
  BY <1>15 DEF Slots
<1>20. PutIn(p, d, k, nm, bl, id, j, c, e, r)
  BY <1>1, <1>4, <1>5, <1>6, <1>8, <1>9, <1>10, <1>13, <1>14, <1>18, <1>19 DEF PutIn
<1> QED BY <1>20, Zenon

\* ... that was its own, or a hole, and then it is put.
LEMMA SlotEntered ==
    ASSUME NEW p, NEW d, NEW k \in Keys, NEW nm, NEW bl, NEW v, NEW id \in Types, NEW r,
           NEW j, j = SlotFor(p, k), j # 0, Sound(p), Ready(p, d, k, nm, bl, v),
           r = AddHash(d, k, nm, bl, id), Places(p, k) \subseteq {j}
    PROVE  r.block # 0 /\ \E e : e.id = id /\ Entered(p, r.page, k, j, e, v)
<1>1. PICK c, e : PutIn(p, d, k, nm, bl, id, j, c, e, r)
  BY SlotTaken, Zenon
<1> USE DEF PutIn
<1>2. PICK q : q = r.page
  OBVIOUS
<1>3. /\ p \in Pages /\ d \in Pages /\ d.blocks \in Seq(Block) /\ c.blocks \in Seq(Block)
      /\ p.slots \in [Buckets -> Seq(Slot)] /\ Slots(p, k) \in Seq(Slot)
      /\ Bucket(k) \in Buckets
  BY <1>1 DEF Sound, Ready, Pages, Slots, Buckets
<1>4. \A b \in DOMAIN d.blocks : b \in DOMAIN q.blocks
  BY <1>1, <1>2, <1>3
<1>5. /\ q \in Pages /\ q.room <= p.room
      /\ \A b \in Buckets : b # Bucket(k) => q.slots[b] = p.slots[b]
  BY <1>1, <1>2, <1>3 DEF Ready
<1>6. /\ j \in DOMAIN Slots(q, k) /\ Slots(q, k)[j] = e
      /\ Len(Slots(p, k)) <= Len(Slots(q, k)) /\ ElementSize <= Len(Slots(q, k))
      /\ \A y \in DOMAIN Slots(q, k) :
            y # j => Slots(q, k)[y] = IF y \in DOMAIN Slots(p, k) THEN Slots(p, k)[y] ELSE Hole
  <2>1. Slots(q, k) = [Slots(p, k) EXCEPT ![j] = e] /\ j \in DOMAIN Slots(p, k)
    BY <1>1, <1>2
  <2>2. Slots(p, k) # << >> /\ ElementSize <= Len(Slots(p, k))
    <3>1. Slots(p, k) # << >>
      BY <2>1
    <3> QED BY <1>3, <3>1 DEF Sound, Slots
  <2>3. Len(Slots(q, k)) = Len(Slots(p, k)) /\ DOMAIN Slots(q, k) = DOMAIN Slots(p, k)
    BY <1>3, <2>1
  <2>4. Len(Slots(p, k)) \in Nat
    BY <1>3
  <2> QED BY <2>1, <2>2, <2>3, <2>4
<1>7. /\ Owns(q, e) /\ e.name # 0 /\ q.blocks[e.name].value = k /\ q.blocks[e.block].value = v
  <2>1. e.name = nm /\ e.block = bl /\ e.id = id
    BY <1>1
  <2>2. q.blocks[nm] = d.blocks[nm] /\ q.blocks[bl] = d.blocks[bl]
    BY <1>1, <1>2 DEF Ready
  <2>3. nm \in 1 .. Len(d.blocks)
    BY <1>3 DEF Ready
  <2> QED BY <1>4, <2>1, <2>2, <2>3 DEF Owns, Ready
<1>8. ASSUME NEW l \in Keys, l # k, NEW y \in Places(p, l)
      PROVE  /\ Owns(q, Slots(p, l)[y]) /\ Apart(Slots(p, l)[y], e)
             /\ q.blocks[Slots(p, l)[y].name] = p.blocks[Slots(p, l)[y].name]
             /\ q.blocks[Slots(p, l)[y].block] = p.blocks[Slots(p, l)[y].block]
  <2>1. PICK s : s = Slots(p, l)[y]
    OBVIOUS
  <2>2. /\ Owns(d, s) /\ s.name # bl /\ s.block # nm /\ s.block # bl
        /\ d.blocks[s.name] = p.blocks[s.name] /\ d.blocks[s.block] = p.blocks[s.block]
    BY <1>8, <2>1 DEF Ready
  <2>3. Apart(s, e)
    BY <1>1, <2>2 DEF Apart
  <2>4. s.name # Slots(p, k)[j].block /\ s.block # Slots(p, k)[j].block
    <3>1. CASE j \in Places(p, k)
      <4>1. Apart(s, Slots(p, k)[j])
        BY <1>8, <2>1, <3>1 DEF Sound
      <4> QED BY <4>1 DEF Apart
    <3>2. CASE Slots(p, k)[j] = Hole
      <4>1. s.name \in 1 .. Len(d.blocks) /\ s.block \in 1 .. Len(d.blocks)
        BY <1>3, <2>2 DEF Owns
      <4> QED BY <3>2, <4>1 DEF Hole
    <3> QED BY <1>1, <3>1, <3>2
  <2>5. q.blocks[s.name] = d.blocks[s.name] /\ q.blocks[s.block] = d.blocks[s.block]
    BY <1>1, <1>2, <2>2, <2>4 DEF Owns
  <2>6. Owns(q, s)
    BY <1>4, <2>2, <2>5 DEF Owns
  <2> QED BY <2>1, <2>2, <2>3, <2>5, <2>6
<1>9. Entered(p, q, k, j, e, v)
  BY <1>1, <1>5, <1>6, <1>7, <1>8 DEF Entered
<1> QED BY <1>1, <1>2, <1>9

\* A put that takes a hole before the slot its name is in leaves the name in two slots: the
\* hash answers the new value for it.
LEMMA Overtaken ==
    ASSUME NEW p, NEW d, NEW k \in Keys, NEW nm, NEW bl, NEW v, NEW id \in Types, NEW r,
           NEW j, j = SlotFor(p, k), j # 0, Sound(p), Ready(p, d, k, nm, bl, v),
           r = AddHash(d, k, nm, bl, id),
           NEW i \in Places(p, k), i # j, Slots(p, k)[i].name = nm
    PROVE  r.block # 0 /\ Doubled(r.page) /\ Answer(r.page, k) = [id |-> id, value |-> v]
<1>1. PICK c, e : PutIn(p, d, k, nm, bl, id, j, c, e, r)
  BY SlotTaken, Zenon
<1>2. PICK q : q = r.page
  OBVIOUS
<1>3. /\ p \in Pages /\ Slots(p, k) \in Seq(Slot) /\ Bucket(k) \in Buckets
      /\ q \in Pages /\ DOMAIN q.slots = Buckets /\ d.blocks \in Seq(Block)
  BY <1>1, <1>2 DEF Sound, Ready, Pages, Slots, Buckets, PutIn
<1>4. /\ Slots(q, k) = [Slots(p, k) EXCEPT ![j] = e] /\ j \in 1 .. Len(Slots(p, k))
      /\ q.blocks[nm].value = k /\ q.blocks[bl].value = v
      /\ e.name = nm /\ e.block = bl /\ e.id = id /\ nm # 0 /\ r.block # 0
  <2>1. q.blocks[nm] = d.blocks[nm] /\ q.blocks[bl] = d.blocks[bl]
    BY <1>1, <1>2 DEF Ready, PutIn
  <2>2. nm \in 1 .. Len(d.blocks)
    BY <1>3 DEF Ready
  <2> QED BY <1>1, <1>2, <1>3, <2>1, <2>2 DEF Ready, PutIn
<1>5. i \in 1 .. Len(Slots(p, k)) /\ Slots(p, k)[i].name = nm /\ Places(p, k) = {i}
  <2>1. Places(p, k) = {i}
    BY DEF Sound
  <2> QED BY <1>3, <2>1 DEF Places
<1>6. j < i
  <2>1. i \in Free(p, k)
    BY <1>3 DEF Free, Places
  <2> QED BY <1>3, <1>4, <1>5, <2>1, SlotForIs
<1>7. j \in DOMAIN Slots(q, k) /\ i \in DOMAIN Slots(q, k)
      /\ Slots(q, k)[j].name = nm /\ Slots(q, k)[i].name = nm
  BY <1>3, <1>4, <1>5
<1>8. Doubled(q)
  <2>1. PICK f : f = Listed(q, Bucket(k))
    OBVIOUS
  <2>2. i \in DOMAIN f /\ j \in DOMAIN f /\ f[i] = k /\ f[j] = k
    BY <1>4, <1>7, <2>1 DEF Listed, Slots
  <2>3. ~IsInjective(f)
    BY <2>2 DEF IsInjective
  <2> QED BY <1>3, <2>1, <2>3 DEF Doubled
<1>9. Find(q, k) = j
  <2>1. j \in Places(q, k)
    BY <1>4, <1>7 DEF Places, Named
  <2>2. ASSUME NEW y \in Places(q, k)
        PROVE  j <= y
    <3>1. y \in 1 .. Len(Slots(p, k)) /\ Slots(q, k)[y].name # 0
          /\ q.blocks[Slots(q, k)[y].name].value = k
      BY <1>3, <1>4, <2>2 DEF Places, Named
    <3>2. CASE y = j
      BY <1>4, <3>2
    <3>3. CASE y # j
      <4>1. Slots(q, k)[y] = Slots(p, k)[y]
        BY <1>3, <1>4, <3>1, <3>3
      <4>2. PICK l \in Keys : Bucket(l) = Bucket(k) /\ y \in Places(p, l)
        BY <1>3, <3>1, <4>1 DEF Sound, Hole
      <4>3. CASE l = k
        <5>1. y = i
          BY <1>5, <4>2, <4>3
        <5> QED BY <1>3, <1>4, <1>5, <1>6, <5>1
      <4>4. CASE l # k
        <5>1. PICK s : s = Slots(p, l)[y]
          OBVIOUS
        <5>2. Slots(p, l) = Slots(p, k)
          BY <4>2 DEF Slots
        <5>3. /\ Owns(d, s) /\ s.name # bl /\ d.blocks[s.name] = p.blocks[s.name]
          BY <4>2, <4>4, <5>1 DEF Ready
        <5>4. p.blocks[s.name].value = l
          BY <4>2, <5>1 DEF Places, Named
        <5>5. s.name # Slots(p, k)[j].block
          <6>1. j \notin Places(p, k)
            BY <1>5
          <6>2. s.name \in 1 .. Len(d.blocks)
            BY <1>3, <5>3 DEF Owns
          <6> QED BY <1>1, <6>1, <6>2 DEF PutIn, Hole
        <5>6. q.blocks[s.name] = d.blocks[s.name]
          BY <1>1, <1>2, <5>3, <5>5 DEF Owns, PutIn
        <5> QED BY <3>1, <4>1, <4>4, <5>1, <5>2, <5>3, <5>4, <5>6
      <4> QED BY <4>3, <4>4
    <3> QED BY <3>2, <3>3
  <2>3. Find(q, k) \in Places(q, k) /\ Find(q, k) <= j
    BY <1>3, <2>1, FindIs
  <2>4. Find(q, k) \in 1 .. Len(Slots(p, k))
    BY <1>3, <1>4, <2>3 DEF Places
  <2> QED BY <1>4, <2>2, <2>3, <2>4
<1>10. Answer(q, k) = [id |-> id, value |-> v]
  <2>1. Slots(q, k)[j] = e /\ j # 0
    BY <1>3, <1>4
  <2> QED BY <1>4, <1>9, <2>1 DEF Answer
<1> QED BY <1>2, <1>4, <1>8, <1>10

\* A put into a bucket that is full, or has no slots, comes behind its slots.
LEMMA BucketGrown ==
    ASSUME NEW p, NEW d, NEW k \in Keys, NEW nm, NEW bl, NEW v, NEW id \in Types, NEW r,
           SlotFor(p, k) = 0, Sound(p), Ready(p, d, k, nm, bl, v),
           r = AddHash(d, k, nm, bl, id)
    PROVE  /\ Places(p, k) = {}
           /\ r.block = 0 => Keeps(d, r.page) /\ r.page.room < LargerBucket(r.page, k)
           /\ r.block # 0 => \E e : /\ e.id = id
                                    /\ Entered(p, r.page, k, Len(Slots(p, k)) + 1, e, v)
<1>1. /\ p \in Pages /\ d \in Pages /\ d.slots = p.slots /\ Slots(d, k) = Slots(p, k)
      /\ Bucket(k) \in Buckets /\ Slots(p, k) \in Seq(Slot) /\ p.slots \in [Buckets -> Seq(Slot)]
      /\ d.blocks \in Seq(Block) /\ d.room \in Nat /\ p.room \in Nat /\ d.room <= p.room
  BY DEF Sound, Ready, Slots, Buckets, Pages
<1>2. SlotFor(d, k) = 0
  BY <1>1, SameSlotFor DEF Ready
<1>3. Free(p, k) = {}
  <2>1. Free(p, k) # {} => SlotFor(p, k) \in DOMAIN Slots(p, k)
    BY <1>1, SlotForIs DEF Free
  <2> QED BY <1>1, <2>1
<1>4. Places(p, k) = {}
  BY <1>3 DEF Free, Places
<1>5. PICK n, size : n = Len(Slots(p, k)) /\ size = LargerBucket(d, k)
  OBVIOUS
<1>6. n \in Nat /\ size \in Nat /\ n + 1 <= size /\ ElementSize <= size
  <2>1. n \in Nat /\ ElementSize \in Nat \ {0}
    BY <1>1, <1>5, LargerIs
  <2>2. CASE n = 0
    <3>1. Slots(p, k) = << >>
      BY <1>1, <1>5, <2>2, EmptySeq
    <3> QED BY <1>1, <1>5, <2>1, <2>2, <3>1 DEF LargerBucket
  <2>3. CASE n # 0
    <3>1. Slots(p, k) # << >> /\ ElementSize <= n
      <4>1. Slots(p, k) # << >>
        BY <1>1, <1>5, <2>3
      <4> QED BY <1>1, <1>5, <4>1 DEF Sound, Slots
    <3>2. size = n * ResizeQuantity
      BY <1>1, <1>5, <3>1 DEF LargerBucket
    <3> QED BY <2>1, <2>3, <3>1, <3>2, LargerIs
  <2> QED BY <2>2, <2>3
<1>7. PICK array : array = NewBlock(d, size, "slots")
  OBVIOUS
<1>8. /\ array.block = 0 => Keeps(d, array.page) /\ array.page.room < size
      /\ array.block # 0 => /\ Keeps(d, array.page) /\ Fresh(d, array.block)
                            /\ array.block \in DOMAIN array.page.blocks
                            /\ array.page.blocks[array.block].value = "slots"
                            /\ array.page.blocks[array.block].used
  <2>1. "slots" \in Payloads
    BY DEF Payloads
  <2> QED BY <1>1, <1>6, <1>7, <2>1, NewBlockIs
<1>9. CASE array.block = 0
  <2>1. r = array
    BY <1>2, <1>5, <1>7, <1>9, Zenon DEF AddHash
  <2>2. r.page.room < LargerBucket(r.page, k)
    <3>1. Slots(r.page, k) = Slots(d, k)
      BY <1>8, <1>9, <2>1 DEF Keeps, Slots
    <3>2. LargerBucket(r.page, k) = size
      BY <1>5, <3>1 DEF LargerBucket
    <3> QED BY <1>8, <1>9, <2>1, <3>2
  <2> QED BY <1>4, <1>8, <1>9, <2>1, <2>2
<1>10. CASE array.block # 0
  <2>0. PICK a : a = array.page
    OBVIOUS
  <2>1. PICK e : e = [name |-> nm, block |-> bl, id |-> id]
    OBVIOUS
  <2>2. PICK s : s = Slots(p, k) \o <<e>> \o Holes(size - n - 1)
    OBVIOUS
  <2>3. PICK q : q = [a EXCEPT !.slots[Bucket(k)] = s]
    OBVIOUS
  <2>20. /\ Keeps(d, a) /\ a \in Pages /\ a.slots = p.slots /\ a.room <= p.room
         /\ a.blocks \in Seq(Block) /\ a.room \in Nat
    BY <1>1, <1>8, <1>10, <2>0 DEF Keeps, Pages
  <2>21. /\ nm \in DOMAIN d.blocks /\ bl \in DOMAIN d.blocks
         /\ a.blocks[nm] = d.blocks[nm] /\ a.blocks[bl] = d.blocks[bl]
         /\ DOMAIN d.blocks \subseteq DOMAIN a.blocks
    BY <1>1, <2>20 DEF Keeps, Ready
  <2>22. ASSUME NEW l \in Keys, l # k, NEW y \in Places(p, l), NEW o, o = Slots(p, l)[y]
         PROVE  /\ Owns(a, o) /\ o.name # bl /\ o.block # nm /\ o.block # bl
                /\ a.blocks[o.name] = p.blocks[o.name] /\ a.blocks[o.block] = p.blocks[o.block]
    <3>1. /\ Owns(d, o) /\ o.name # bl /\ o.block # nm /\ o.block # bl
          /\ d.blocks[o.name] = p.blocks[o.name] /\ d.blocks[o.block] = p.blocks[o.block]
      BY <2>22 DEF Ready
    <3>2. a.blocks[o.name] = d.blocks[o.name] /\ a.blocks[o.block] = d.blocks[o.block]
      BY <2>20, <3>1 DEF Keeps, Owns
    <3> QED BY <2>21, <3>1, <3>2 DEF Owns
  <2>4. r = Got(q, bl)
    <3>1. a.slots[Bucket(k)] = Slots(d, k)
      BY <1>1, <2>20 DEF Slots
    <3>2. s = Slots(d, k) \o <<e>> \o Holes(size - Len(Slots(d, k)) - 1)
      BY <1>1, <1>5, <2>2
    <3>3. r = Got([a EXCEPT !.slots[Bucket(k)] = @ \o <<e>> \o Holes(size - Len(@) - 1)], bl)
      BY <1>2, <1>5, <1>7, <1>10, <2>0, <2>1, Zenon DEF AddHash
    <3> QED BY <2>3, <3>1, <3>2, <3>3
  <2>5. /\ e \in Slot /\ e.name = nm /\ e.block = bl /\ e.id = id /\ nm # 0 /\ bl # 0
    <3>1. nm \in 1 .. Len(d.blocks) /\ bl \in 1 .. Len(d.blocks)
      BY <1>1 DEF Ready
    <3> QED BY <1>1, <2>1, <3>1 DEF Slot
  <2>6. /\ s \in Seq(Slot) /\ Len(s) = size /\ s[n + 1] = e
        /\ \A y \in 1 .. size : y # n + 1 => s[y] = IF y <= n THEN Slots(p, k)[y] ELSE Hole
    <3>1. PICK h, m : h = Holes(size - n - 1) /\ m = size - n - 1
      OBVIOUS
    <3>2. m \in Nat /\ h \in Seq(Slot) /\ Len(h) = m /\ \A y \in 1 .. m : h[y] = Hole
      BY <1>6, <3>1 DEF Holes, Hole, Slot
    <3>3. PICK t : t = Slots(p, k) \o <<e>>
      OBVIOUS
    <3>4. /\ t \in Seq(Slot) /\ Len(t) = n + 1 /\ t[n + 1] = e
          /\ \A y \in 1 .. n : t[y] = Slots(p, k)[y]
      BY <1>1, <1>5, <2>5, <3>3
    <3>5. s = t \o h
      BY <2>2, <3>1, <3>3
    <3>6. s \in Seq(Slot) /\ Len(s) = size
      <4>1. s \in Seq(Slot) /\ Len(s) = Len(t) + Len(h)
        BY <3>2, <3>4, <3>5, ConcatProperties
      <4>2. n + 1 + m = size
        BY <1>6, <3>1
      <4> QED BY <3>2, <3>4, <4>1, <4>2
    <3>7. \A y \in 1 .. n + 1 : s[y] = t[y]
      BY <1>6, <3>2, <3>4, <3>5
    <3>8. \A y \in n + 2 .. size : s[y] = Hole
      <4>1. ASSUME NEW y \in n + 2 .. size
            PROVE  s[y] = Hole
        <5>1. y - (n + 1) \in 1 .. m /\ s[y] = h[y - (n + 1)]
          BY <1>6, <3>1, <3>2, <3>4, <3>5, <4>1
        <5> QED BY <3>2, <5>1
      <4> QED BY <4>1
    <3> QED BY <1>6, <3>4, <3>6, <3>7, <3>8
  <2>7. /\ q.slots = [p.slots EXCEPT ![Bucket(k)] = s] /\ q.blocks = a.blocks
        /\ q.room = a.room
        /\ q = [slots |-> q.slots, blocks |-> q.blocks, room |-> q.room]
    BY <2>3, <2>20 DEF Pages
  <2>8. q.slots \in [Buckets -> Seq(Slot)] /\ q.slots[Bucket(k)] = s
    BY <1>1, <2>6, <2>7
  <2>9. q \in Pages /\ q.room <= p.room
    <3>1. q.room \in Nat /\ q.room <= p.room
      BY <2>7, <2>20
    <3> QED BY <2>7, <2>8, <2>20, <3>1 DEF Pages
  <2>10. Slots(q, k) = s
    BY <2>8 DEF Slots
  <2>11. /\ Owns(q, e) /\ q.blocks[e.name].value = k /\ q.blocks[e.block].value = v
    BY <2>5, <2>7, <2>21 DEF Ready, Owns
  <2>12. ASSUME NEW l \in Keys, l # k, NEW y \in Places(p, l)
         PROVE  /\ Owns(q, Slots(p, l)[y]) /\ Apart(Slots(p, l)[y], e)
                /\ q.blocks[Slots(p, l)[y].name] = p.blocks[Slots(p, l)[y].name]
                /\ q.blocks[Slots(p, l)[y].block] = p.blocks[Slots(p, l)[y].block]
    BY <2>5, <2>7, <2>12, <2>22 DEF Owns, Apart
  <2>13. DOMAIN Slots(p, k) = 1 .. n /\ DOMAIN Slots(q, k) = 1 .. size
         /\ n + 1 \in 1 .. size /\ n + 1 \notin 1 .. n
    BY <1>1, <1>5, <1>6, <2>6, <2>10
  <2>14. \A y \in DOMAIN Slots(q, k) : y # n + 1 =>
            Slots(q, k)[y] = IF y \in DOMAIN Slots(p, k) THEN Slots(p, k)[y] ELSE Hole
    BY <1>6, <2>6, <2>10, <2>13
  <2>15. Entered(p, q, k, n + 1, e, v)
    <3>1. \A b \in Buckets : b # Bucket(k) => q.slots[b] = p.slots[b]
      BY <1>1, <2>7
    <3>2. Len(Slots(p, k)) <= Len(Slots(q, k)) /\ ElementSize <= Len(Slots(q, k))
      BY <1>5, <1>6, <2>6, <2>10
    <3>3. n + 1 \in DOMAIN Slots(q, k) /\ Slots(q, k)[n + 1] = e
      BY <2>6, <2>10, <2>13
    <3> QED BY <1>4, <2>5, <2>9, <2>11, <2>12, <2>13, <2>14, <3>1, <3>2, <3>3 DEF Entered
  <2> QED BY <1>4, <1>5, <2>4, <2>5, <2>15 DEF Got
<1> QED BY <1>9, <1>10

-----------------------------------------------------------------------------
\* What a put of k comes to: it found no memory; or it is put, into a slot that was k's own,
\* a hole, or behind the others; or it took a hole that overtakes the slot of the name.
Failed(p, k, v, r) ==
    /\ Keeps(p, r.page)
    /\ r.page.room < SizeOf(v) \/ r.page.room < LargerBucket(r.page, k)
Succeeded(p, k, id, v, r) ==
    \E x, e : /\ x = SlotFor(p, k) \/ (SlotFor(p, k) = 0 /\ x = Len(Slots(p, k)) + 1)
              /\ e.id = id /\ Entered(p, r.page, k, x, e, v)
TookHole(p, k, id, v, r) ==
    /\ \E i \in Places(p, k) : i # SlotFor(p, k)
    /\ Doubled(r.page) /\ Answer(r.page, k) = [id |-> id, value |-> v]

\* With its memory a put succeeds, takes a hole, or finds no room for a larger bucket.
LEMMA AddHashIs ==
    ASSUME NEW p, NEW d, NEW k \in Keys, NEW nm, NEW bl, NEW v, NEW id \in Types, NEW r,
           Sound(p), Ready(p, d, k, nm, bl, v), r = AddHash(d, k, nm, bl, id),
           \A i \in Places(p, k) : Slots(p, k)[i].name = nm
    PROVE  /\ r.block # 0 \/ (/\ Places(p, k) = {} /\ Keeps(d, r.page)
                              /\ r.page.room < LargerBucket(r.page, k))
           /\ r.block # 0 => Succeeded(p, k, id, v, r) \/ TookHole(p, k, id, v, r)
<1>1. CASE SlotFor(p, k) = 0
  <2>1. /\ Places(p, k) = {}
        /\ r.block = 0 => Keeps(d, r.page) /\ r.page.room < LargerBucket(r.page, k)
        /\ r.block # 0 => \E e : /\ e.id = id
                                 /\ Entered(p, r.page, k, Len(Slots(p, k)) + 1, e, v)
    BY <1>1, BucketGrown
  <2>2. ASSUME r.block # 0
        PROVE  Succeeded(p, k, id, v, r)
    <3>1. PICK e : e.id = id /\ Entered(p, r.page, k, Len(Slots(p, k)) + 1, e, v)
      BY <2>1, <2>2
    <3>2. PICK x : x = Len(Slots(p, k)) + 1
      OBVIOUS
    <3>3. /\ x = SlotFor(p, k) \/ (SlotFor(p, k) = 0 /\ x = Len(Slots(p, k)) + 1)
          /\ e.id = id /\ Entered(p, r.page, k, x, e, v)
      BY <1>1, <3>1, <3>2
    <3> QED BY <3>3 DEF Succeeded
  <2> QED BY <2>1, <2>2
<1>2. CASE SlotFor(p, k) # 0
  <2>1. PICK j : j = SlotFor(p, k)
    OBVIOUS
  <2>2. CASE Places(p, k) \subseteq {j}
    <3>1. r.block # 0 /\ \E e : e.id = id /\ Entered(p, r.page, k, j, e, v)
      BY <1>2, <2>1, <2>2, SlotEntered
    <3>2. PICK e : e.id = id /\ Entered(p, r.page, k, j, e, v)
      BY <3>1
    <3>3. Succeeded(p, k, id, v, r)
      BY <2>1, <3>2, Zenon DEF Succeeded
    <3> QED BY <3>1, <3>3
  <2>3. CASE ~(Places(p, k) \subseteq {j})
    <3>1. PICK i \in Places(p, k) : i # j
      BY <2>3
    <3>2. r.block # 0 /\ Doubled(r.page) /\ Answer(r.page, k) = [id |-> id, value |-> v]
      BY <1>2, <2>1, <3>1, Overtaken
    <3>3. TookHole(p, k, id, v, r)
      BY <2>1, <3>1, <3>2 DEF TookHole
    <3> QED BY <3>2, <3>3
  <2> QED BY <2>2, <2>3
<1> QED BY <1>1, <1>2

\* A put of a name that is new.
LEMMA AddNew ==
    ASSUME NEW p, NEW k \in Keys, NEW id \in Types, NEW v \in Payloads, NEW r,
           Sound(p), r = Add(p, k, id, v), Places(p, k) = {}
    PROVE  /\ r.block = 0 => Failed(p, k, v, r)
           /\ r.block # 0 => Succeeded(p, k, id, v, r) \/ TookHole(p, k, id, v, r)
<1>1. p \in Pages /\ k \in Payloads /\ 1 \in Nat /\ SizeOf(v) \in Nat /\ 1 <= SizeOf(v)
      /\ p.blocks \in Seq(Block) /\ p.room \in Nat
  BY DEF Sound, Payloads, SizeOf, Pages
<1>2. Find(p, k) = 0
  BY AnswerIs
<1>3. PICK one : one = 1
  OBVIOUS
<1>4. PICK name : name = NewBlock(p, one, k)
  OBVIOUS
<1>5. MakeName(p, k) = name
  BY <1>2, <1>3, <1>4 DEF MakeName
<1>6. /\ name.block = 0 => Keeps(p, name.page) /\ name.page.room < one
      /\ name.block # 0 => /\ Keeps(p, name.page) /\ Fresh(p, name.block)
                           /\ name.block \in DOMAIN name.page.blocks
                           /\ name.page.blocks[name.block].value = k
                           /\ name.page.blocks[name.block].used
  BY <1>1, <1>3, <1>4, NewBlockIs
<1>7. CASE name.block = 0
  <2>1. r = name
    BY <1>5, <1>7 DEF Add
  <2>2. Keeps(p, r.page) /\ r.page.room < 1 /\ r.page.room \in Nat
    BY <1>3, <1>6, <1>7, <2>1 DEF Keeps, Pages
  <2>3. r.page.room < SizeOf(v)
    BY <1>1, <2>2
  <2> QED BY <1>7, <2>1, <2>2, <2>3 DEF Failed
<1>8. CASE name.block # 0
  <2>1. PICK c, nm : c = name.page /\ nm = name.block
    OBVIOUS
  <2>2. /\ Keeps(p, c) /\ Fresh(p, nm) /\ nm \in DOMAIN c.blocks
        /\ c.blocks[nm].value = k /\ c.blocks[nm].used /\ c \in Pages
    BY <1>6, <1>8, <2>1 DEF Keeps
  <2>3. Sound(c) /\ Find(c, k) = 0 /\ \A l \in Keys : Slots(c, l) = Slots(p, l) /\ Places(c, l) = Places(p, l)
    BY <1>2, <2>2, KeepsSound
  <2>4. PICK n : n = SizeOf(v)
    OBVIOUS
  <2>5. PICK data : data = NewBlock(c, n, v)
    OBVIOUS
  <2>6. DataBlock(c, k, id, v) = data
    BY <2>3, <2>4, <2>5 DEF DataBlock, InPlace
  <2>7. /\ data.block = 0 => Keeps(c, data.page) /\ data.page.room < n
        /\ data.block # 0 => /\ Keeps(c, data.page) /\ Fresh(c, data.block)
                             /\ data.block \in DOMAIN data.page.blocks
                             /\ data.page.blocks[data.block].value = v
                             /\ data.page.blocks[data.block].used
    BY <1>1, <2>2, <2>4, <2>5, NewBlockIs
  <2>8. CASE data.block = 0
    <3>1. r = data
      BY <1>5, <1>8, <2>1, <2>6, <2>8 DEF Add
    <3>2. Keeps(p, r.page) /\ r.page.room < SizeOf(v)
      BY <1>1, <2>2, <2>4, <2>7, <2>8, <3>1, KeepsIsOrder
    <3> QED BY <2>8, <3>1, <3>2 DEF Failed
  <2>9. CASE data.block # 0
    <3>1. PICK d, bl : d = data.page /\ bl = data.block
      OBVIOUS
    <3>2. /\ Keeps(c, d) /\ Fresh(c, bl) /\ bl \in DOMAIN d.blocks
          /\ d.blocks[bl].value = v /\ d.blocks[bl].used
      BY <2>7, <2>9, <3>1
    <3>3. r = AddHash(d, k, nm, bl, id)
      BY <1>5, <1>8, <2>1, <2>6, <2>9, <3>1, Zenon DEF Add
    <3>4. Keeps(p, d) /\ d \in Pages /\ d.blocks \in Seq(Block)
      BY <1>1, <2>2, <3>2, KeepsIsOrder DEF Keeps, Pages
    <3>5. \A l \in Keys : /\ Slots(d, l) = Slots(p, l) /\ Places(d, l) = Places(p, l)
      BY <3>4, KeepsSound
    <3>6. /\ nm # bl /\ nm \in DOMAIN d.blocks /\ d.blocks[nm].used /\ d.blocks[nm].value = k
      <4>1. c.blocks \in Seq(Block)
        BY <2>2 DEF Pages
      <4>2. d.blocks[nm] = c.blocks[nm] /\ nm \in DOMAIN d.blocks
        BY <2>2, <3>2, <3>4, <4>1 DEF Keeps
      <4> QED BY <2>2, <3>2, <4>2 DEF Fresh
    <3>7. ASSUME NEW l \in Keys, l # k, NEW y \in Places(p, l), NEW s, s = Slots(p, l)[y]
          PROVE  /\ Owns(d, s) /\ s.name # bl /\ s.block # nm /\ s.block # bl
                 /\ d.blocks[s.name] = p.blocks[s.name] /\ d.blocks[s.block] = p.blocks[s.block]
      <4>1. Owns(p, s)
        BY <3>7 DEF Sound
      <4>2. Owns(c, s) /\ Owns(d, s)
        <5>1. y \in Places(c, l) /\ s = Slots(c, l)[y] /\ y \in Places(d, l) /\ s = Slots(d, l)[y]
          BY <2>3, <3>5, <3>7
        <5>2. Owns(c, Slots(c, l)[y])
          BY <2>3, <5>1 DEF Sound
        <5>3. Owns(d, Slots(d, l)[y])
          <6>1. Sound(d)
            BY <3>4, KeepsSound
          <6> QED BY <5>1, <6>1 DEF Sound
        <5> QED BY <5>1, <5>2, <5>3
      <4>3. s.name # bl /\ s.block # bl
        BY <3>2, <4>2 DEF Owns, Fresh
      <4>4. s.block # nm
        BY <2>2, <4>1 DEF Owns, Fresh
      <4>5. d.blocks[s.name] = p.blocks[s.name] /\ d.blocks[s.block] = p.blocks[s.block]
        BY <3>4, <4>1 DEF Keeps, Owns
      <4> QED BY <4>2, <4>3, <4>4, <4>5
    <3>8. Ready(p, d, k, nm, bl, v)
      <4>1. d.slots = p.slots /\ d.room <= p.room
        BY <3>4 DEF Keeps
      <4> QED BY <3>2, <3>4, <3>5, <3>6, <3>7, <4>1 DEF Ready
    <3>9. /\ r.block # 0 \/ (/\ Places(p, k) = {} /\ Keeps(d, r.page)
                             /\ r.page.room < LargerBucket(r.page, k))
          /\ r.block # 0 => Succeeded(p, k, id, v, r) \/ TookHole(p, k, id, v, r)
      <4>1. \A i \in Places(p, k) : Slots(p, k)[i].name = nm
        OBVIOUS
      <4> QED BY <3>3, <3>8, <4>1, AddHashIs
    <3>10. ASSUME r.block = 0
           PROVE  Failed(p, k, v, r)
      <4>1. Keeps(d, r.page) /\ r.page.room < LargerBucket(r.page, k)
        BY <3>9, <3>10
      <4>2. Keeps(p, r.page)
        BY <1>1, <3>4, <4>1, KeepsIsOrder
      <4> QED BY <4>1, <4>2 DEF Failed
    <3> QED BY <3>9, <3>10
  <2> QED BY <2>8, <2>9
<1> QED BY <1>7, <1>8

\* A put of a name that a slot has, in place or into new memory.
LEMMA AddKnown ==
    ASSUME NEW p, NEW k \in Keys, NEW id \in Types, NEW v \in Payloads, NEW r,
           Sound(p), r = Add(p, k, id, v), NEW i \in Places(p, k)
    PROVE  /\ r.block = 0 => Failed(p, k, v, r)
           /\ r.block # 0 => Succeeded(p, k, id, v, r) \/ TookHole(p, k, id, v, r)
<1>1. p \in Pages /\ SizeOf(v) \in Nat /\ p.blocks \in Seq(Block) /\ p.room \in Nat
  BY DEF Sound, SizeOf, Pages
<1>2. Find(p, k) = i /\ i # 0 /\ Places(p, k) = {i}
  BY AnswerIs
<1>3. PICK nm, ob : nm = Slots(p, k)[i].name /\ ob = Slots(p, k)[i].block
  OBVIOUS
<1>4. /\ Owns(p, Slots(p, k)[i]) /\ nm \in 1 .. Len(p.blocks) /\ ob \in 1 .. Len(p.blocks)
      /\ nm # ob /\ p.blocks[nm].used /\ p.blocks[ob].used /\ p.blocks[nm].value = k
  BY <1>1, <1>3 DEF Sound, Owns, Places, Named
<1>5. MakeName(p, k) = Got(p, nm)
  BY <1>2, <1>3 DEF MakeName
<1>6. PICK data : data = DataBlock(p, k, id, v)
  OBVIOUS
<1>7. r = IF data.block = 0 THEN data ELSE AddHash(data.page, k, nm, data.block, id)
  BY <1>4, <1>5, <1>6 DEF Add, Got
<1>8. ASSUME NEW l \in Keys, l # k, NEW y \in Places(p, l), NEW s, s = Slots(p, l)[y]
      PROVE  /\ Owns(p, s) /\ s.name # ob /\ s.block # nm /\ s.block # ob
  <2>1. Owns(p, s) /\ Apart(s, Slots(p, k)[i])
    BY <1>8 DEF Sound
  <2> QED BY <1>3, <2>1 DEF Apart
<1>9. CASE InPlace(p, k, id, v)
  <2>1. PICK b, d : /\ b = [size |-> p.blocks[ob].size, value |-> v, used |-> TRUE]
                    /\ d = [p EXCEPT !.blocks = [p.blocks EXCEPT ![ob] = b]]
    OBVIOUS
  <2>2. data = Got(d, ob)
    <3>1. data = Got([p EXCEPT !.blocks[ob].value = v], ob)
      BY <1>2, <1>3, <1>6, <1>9 DEF DataBlock
    <3>2. [p.blocks[ob] EXCEPT !.value = v] = b
      <4>1. PICK o : o = p.blocks[ob]
        OBVIOUS
      <4>2. o \in Block /\ o.used
        BY <1>1, <1>4, <4>1
      <4>3. o.used = TRUE
        BY <4>2
      <4>4. b = [size |-> o.size, value |-> v, used |-> o.used]
        BY <2>1, <4>1, <4>3
      <4>5. PICK w : w = [o EXCEPT !.value = v]
        OBVIOUS
      <4>6. w = [size |-> o.size, value |-> v, used |-> o.used]
        BY <4>2, <4>5 DEF Block
      <4> QED BY <4>1, <4>4, <4>5, <4>6
    <3> QED BY <1>1, <2>1, <3>1, <3>2 DEF Pages
  <2>3. b \in Block /\ b.value = v /\ b.used
    <3>1. p.blocks[ob] \in Block
      BY <1>1, <1>4
    <3> QED BY <2>1, <3>1 DEF Block
  <2>4. /\ d.blocks = [p.blocks EXCEPT ![ob] = b] /\ d.slots = p.slots /\ d.room = p.room
        /\ d = [slots |-> d.slots, blocks |-> d.blocks, room |-> d.room]
    BY <2>1, <1>1 DEF Pages
  <2>5. d.blocks \in Seq(Block) /\ Len(d.blocks) = Len(p.blocks) /\ DOMAIN d.blocks = DOMAIN p.blocks
    BY <1>1, <1>4, <2>3, <2>4
  <2>6. d \in Pages
    BY <1>1, <2>4, <2>5 DEF Pages
  <2>7. Places(d, k) = Places(p, k)
    <3>1. Slots(d, k) = Slots(p, k)
      BY <2>4 DEF Slots
    <3>2. ASSUME NEW y \in DOMAIN Slots(p, k)
          PROVE  Named(d, Slots(d, k)[y], k) <=> Named(p, Slots(p, k)[y], k)
      <4>1. CASE Slots(p, k)[y] = Hole
        BY <3>1, <4>1 DEF Named, Hole
      <4>2. CASE Slots(p, k)[y] # Hole
        <5>1. PICK l \in Keys : Bucket(l) = Bucket(k) /\ y \in Places(p, l)
          BY <3>2, <4>2 DEF Sound
        <5>2. Slots(p, l) = Slots(p, k)
          BY <5>1 DEF Slots
        <5>3. Slots(p, k)[y].name # ob /\ Slots(p, k)[y].name \in DOMAIN p.blocks
          <6>1. CASE l = k
            BY <1>2, <1>3, <1>4, <5>1, <6>1
          <6>2. CASE l # k
            BY <1>8, <5>1, <5>2, <6>2 DEF Owns
          <6> QED BY <6>1, <6>2
        <5>4. d.blocks[Slots(p, k)[y].name] = p.blocks[Slots(p, k)[y].name]
          BY <1>1, <2>4, <5>3
        <5> QED BY <3>1, <5>4 DEF Named
      <4> QED BY <4>1, <4>2
    <3> QED BY <3>1, <3>2 DEF Places
  <2>8. Ready(p, d, k, nm, ob, v)
    <3>1. ASSUME NEW l \in Keys, l # k, NEW y \in Places(p, l), NEW s, s = Slots(p, l)[y]
          PROVE  /\ Owns(d, s) /\ s.name # ob /\ s.block # nm /\ s.block # ob
                 /\ d.blocks[s.name] = p.blocks[s.name] /\ d.blocks[s.block] = p.blocks[s.block]
      <4>1. Owns(p, s) /\ s.name # ob /\ s.block # nm /\ s.block # ob
        BY <1>8, <3>1
      <4>2. d.blocks[s.name] = p.blocks[s.name] /\ d.blocks[s.block] = p.blocks[s.block]
        BY <1>1, <2>4, <4>1 DEF Owns
      <4> QED BY <2>5, <4>1, <4>2 DEF Owns
    <3>2. d.blocks[ob] = b /\ d.blocks[nm] = p.blocks[nm]
      BY <1>1, <1>4, <2>4
    <3>3. \A y \in Places(p, k) : /\ Slots(p, k)[y].block \in DOMAIN d.blocks
                                  /\ Slots(p, k)[y].block # nm
      BY <1>2, <1>3, <1>4, <2>5
    <3>4. {nm, ob} \subseteq DOMAIN d.blocks /\ d.room <= p.room
      BY <1>1, <1>4, <2>4, <2>5
    <3> QED BY <1>4, <2>3, <2>4, <2>6, <2>7, <3>1, <3>2, <3>3, <3>4 DEF Ready
  <2>9. r = AddHash(d, k, nm, ob, id)
    BY <1>4, <1>7, <2>2 DEF Got
  <2>10. \A y \in Places(p, k) : Slots(p, k)[y].name = nm
    BY <1>2, <1>3
  <2>11. /\ r.block # 0 \/ (/\ Places(p, k) = {} /\ Keeps(d, r.page)
                            /\ r.page.room < LargerBucket(r.page, k))
         /\ r.block # 0 => Succeeded(p, k, id, v, r) \/ TookHole(p, k, id, v, r)
    BY <2>8, <2>9, <2>10, AddHashIs
  <2> QED BY <1>2, <2>11
<1>10. CASE ~InPlace(p, k, id, v)
  <2>1. PICK n : n = SizeOf(v)
    OBVIOUS
  <2>2. data = NewBlock(p, n, v)
    BY <1>6, <1>10, <2>1 DEF DataBlock
  <2>3. /\ data.block = 0 => Keeps(p, data.page) /\ data.page.room < n
        /\ data.block # 0 => /\ Keeps(p, data.page) /\ Fresh(p, data.block)
                             /\ data.block \in DOMAIN data.page.blocks
                             /\ data.page.blocks[data.block].value = v
                             /\ data.page.blocks[data.block].used
    BY <1>1, <2>1, <2>2, NewBlockIs
  <2>4. CASE data.block = 0
    BY <1>1, <1>7, <2>1, <2>3, <2>4, KeepsIsOrder DEF Failed
  <2>5. CASE data.block # 0
    <3>1. PICK d, bl : d = data.page /\ bl = data.block
      OBVIOUS
    <3>2. /\ Keeps(p, d) /\ Fresh(p, bl) /\ bl \in DOMAIN d.blocks
          /\ d.blocks[bl].value = v /\ d.blocks[bl].used
          /\ d \in Pages /\ d.blocks \in Seq(Block) /\ d.slots = p.slots /\ d.room <= p.room
      BY <2>3, <2>5, <3>1 DEF Keeps, Pages
    <3>3. Sound(d) /\ \A l \in Keys : Slots(d, l) = Slots(p, l) /\ Places(d, l) = Places(p, l)
      BY <3>2, KeepsSound
    <3>4. d.blocks[nm] = p.blocks[nm] /\ nm # bl /\ nm \in DOMAIN d.blocks /\ ob \in DOMAIN d.blocks
      BY <1>1, <1>4, <3>2 DEF Keeps, Fresh
    <3>5. ASSUME NEW l \in Keys, l # k, NEW y \in Places(p, l), NEW s, s = Slots(p, l)[y]
          PROVE  /\ Owns(d, s) /\ s.name # bl /\ s.block # nm /\ s.block # bl
                 /\ d.blocks[s.name] = p.blocks[s.name] /\ d.blocks[s.block] = p.blocks[s.block]
      <4>1. Owns(p, s) /\ s.block # nm
        BY <1>8, <3>5
      <4>2. Owns(d, s)
        BY <3>3, <3>5 DEF Sound
      <4>3. s.name # bl /\ s.block # bl
        BY <3>2, <4>1 DEF Owns, Fresh
      <4>4. d.blocks[s.name] = p.blocks[s.name] /\ d.blocks[s.block] = p.blocks[s.block]
        BY <3>2, <4>1 DEF Keeps, Owns
      <4> QED BY <4>1, <4>2, <4>3, <4>4
    <3>6. \A y \in Places(p, k) : /\ Slots(p, k)[y].block \in DOMAIN d.blocks
                                  /\ Slots(p, k)[y].block # nm /\ Slots(p, k)[y].name = nm
      BY <1>2, <1>3, <1>4, <3>4
    <3>7. Ready(p, d, k, nm, bl, v)
      BY <1>4, <3>2, <3>3, <3>4, <3>5, <3>6 DEF Ready
    <3>8. r = AddHash(d, k, nm, bl, id)
      BY <1>7, <2>5, <3>1
    <3>9. \A y \in Places(p, k) : Slots(p, k)[y].name = nm
      BY <3>6
    <3>10. /\ r.block # 0 \/ (/\ Places(p, k) = {} /\ Keeps(d, r.page)
                              /\ r.page.room < LargerBucket(r.page, k))
           /\ r.block # 0 => Succeeded(p, k, id, v, r) \/ TookHole(p, k, id, v, r)
      BY <3>7, <3>8, <3>9, AddHashIs
    <3> QED BY <1>2, <3>10
  <2> QED BY <2>4, <2>5
<1> QED BY <1>9, <1>10

\* qs_add_hash_integer, qs_add_hash_string and qs_add_hash_binary in a sound page.
LEMMA AddIs ==
    ASSUME NEW p, NEW k \in Keys, NEW id \in Types, NEW v \in Payloads, NEW r,
           Sound(p), r = Add(p, k, id, v)
    PROVE  /\ r.block = 0 => Failed(p, k, v, r)
           /\ r.block # 0 => Succeeded(p, k, id, v, r) \/ TookHole(p, k, id, v, r)
<1>1. CASE Places(p, k) = {}
  BY <1>1, AddNew
<1>2. CASE Places(p, k) # {}
  <2>1. PICK i \in Places(p, k) : TRUE
    BY <1>2
  <2> QED BY <2>1, AddKnown
<1> QED BY <1>1, <1>2

-----------------------------------------------------------------------------
\* A removal takes one name out of the answers.
LEMMA RemoveIs ==
    ASSUME NEW p, Sound(p), NEW k \in Keys, NEW q, q = RemoveHash(p, k)
    PROVE  /\ Sound(q) /\ Answer(q, k) = Miss
           /\ \A l \in Keys : l # k => Answer(q, l) = Answer(p, l)
<1>1. CASE Places(p, k) = {}
  BY <1>1, AnswerIs DEF RemoveHash
<1>2. CASE Places(p, k) # {}
  <2>1. PICK i : i \in Places(p, k)
    BY <1>2
  <2>2. /\ p \in Pages /\ Slots(p, k) \in Seq(Slot) /\ Bucket(k) \in Buckets
        /\ p.slots \in [Buckets -> Seq(Slot)] /\ Slots(p, k) = p.slots[Bucket(k)]
    BY DEF Sound, Pages, Slots, Buckets
  <2>3. Find(p, k) = i /\ i # 0 /\ Places(p, k) = {i} /\ i \in 1 .. Len(Slots(p, k))
    <3>1. i \in DOMAIN Slots(p, k)
      BY <2>1 DEF Places
    <3> QED BY <2>1, <2>2, <3>1, AnswerIs
  <2>4. PICK s : s = [Slots(p, k) EXCEPT ![i] = Hole]
    OBVIOUS
  <2>5. s \in Seq(Slot) /\ Len(s) = Len(Slots(p, k)) /\ DOMAIN s = DOMAIN Slots(p, k)
        /\ s[i] = Hole /\ \A j \in DOMAIN Slots(p, k) : j # i => s[j] = Slots(p, k)[j]
    <3>1. Hole \in Slot
      BY DEF Hole, Slot
    <3> QED BY <2>2, <2>3, <2>4, <3>1
  <2>6. q = [p EXCEPT !.slots = [p.slots EXCEPT ![Bucket(k)] = s]]
    <3>1. q = [p EXCEPT !.slots[Bucket(k)][i] = Hole]
      BY <2>3 DEF RemoveHash
    <3> QED BY <2>2, <2>4, <3>1 DEF Pages
  <2>7. /\ q.slots = [p.slots EXCEPT ![Bucket(k)] = s] /\ q.blocks = p.blocks /\ q.room = p.room
        /\ q = [slots |-> q.slots, blocks |-> q.blocks, room |-> q.room]
    BY <2>2, <2>6 DEF Pages
  <2>8. q \in Pages
    <3>1. q.slots \in [Buckets -> Seq(Slot)]
      BY <2>2, <2>5, <2>7
    <3> QED BY <2>2, <2>7, <3>1 DEF Pages
  <2>9. \A l \in Keys : /\ Bucket(l) \in Buckets
                        /\ Bucket(l) = Bucket(k) => Slots(q, l) = s /\ Slots(p, l) = Slots(p, k)
                        /\ Bucket(l) # Bucket(k) => Slots(q, l) = Slots(p, l)
    BY <2>2, <2>7 DEF Slots, Buckets
  <2>10. \A l \in Keys : \A y : Named(q, y, l) <=> Named(p, y, l)
    BY <2>7 DEF Named
  <2>11. Places(q, k) = {}
    BY <2>3, <2>5, <2>9, <2>10 DEF Places, Named, Hole
  <2>12. ASSUME NEW l \in Keys, l # k
         PROVE  /\ Places(q, l) = Places(p, l)
                /\ \A y \in Places(p, l) : Slots(q, l)[y] = Slots(p, l)[y]
    <3>1. CASE Bucket(l) # Bucket(k)
      BY <2>9, <2>10, <3>1 DEF Places
    <3>2. CASE Bucket(l) = Bucket(k)
      <4>1. Slots(q, l) = s /\ Slots(p, l) = Slots(p, k)
        BY <2>9, <3>2
      <4>2. i \notin Places(p, l)
        BY <2>1, <2>12, <4>1 DEF Places, Named
      <4>3. ASSUME NEW y \in DOMAIN Slots(p, l)
            PROVE  Named(q, Slots(q, l)[y], l) <=> Named(p, Slots(p, l)[y], l)
        <5>1. CASE y = i
          BY <2>5, <4>1, <4>2, <4>3, <5>1 DEF Places, Named, Hole
        <5>2. CASE y # i
          BY <2>5, <2>10, <4>1, <4>3, <5>2
        <5> QED BY <5>1, <5>2
      <4>4. Places(q, l) = Places(p, l)
        BY <2>5, <4>1, <4>3 DEF Places
      <4>5. \A y \in Places(p, l) : Slots(q, l)[y] = Slots(p, l)[y]
        BY <2>5, <4>1, <4>2 DEF Places
      <4> QED BY <4>4, <4>5
    <3> QED BY <3>1, <3>2
  <2>13. Sound(q)
    <3>1. ASSUME NEW l \in Keys, NEW y \in DOMAIN Slots(q, l), Slots(q, l)[y] # Hole
          PROVE  \E m \in Keys : Bucket(m) = Bucket(l) /\ y \in Places(q, m)
      <4>1. y \in DOMAIN Slots(p, l) /\ Slots(p, l)[y] # Hole
            /\ ~(Bucket(l) = Bucket(k) /\ y = i)
        BY <2>5, <2>9, <3>1
      <4>2. PICK m \in Keys : Bucket(m) = Bucket(l) /\ y \in Places(p, m)
        BY <4>1 DEF Sound
      <4>3. m # k
        BY <2>3, <4>1, <4>2
      <4> QED BY <2>12, <4>2, <4>3
    <3>2. ASSUME NEW l \in Keys, NEW y \in Places(q, l)
          PROVE  /\ l # k /\ y \in Places(p, l) /\ Slots(q, l)[y] = Slots(p, l)[y]
                 /\ Owns(q, Slots(q, l)[y])
      <4>1. l # k
        BY <2>11, <3>2
      <4>2. y \in Places(p, l) /\ Slots(q, l)[y] = Slots(p, l)[y]
        BY <2>12, <3>2, <4>1
      <4>3. Owns(p, Slots(p, l)[y])
        BY <4>2 DEF Sound
      <4> QED BY <2>7, <4>1, <4>2, <4>3 DEF Owns
    <3>3. \A l \in Keys : \A y, z \in Places(q, l) : y = z
      BY <3>2 DEF Sound
    <3>4. \A l, m \in Keys : l # m =>
            \A y \in Places(q, l), z \in Places(q, m) : Apart(Slots(q, l)[y], Slots(q, m)[z])
      BY <3>2 DEF Sound
    <3>5. ASSUME NEW b \in Buckets
          PROVE  q.slots[b] = << >> \/ ElementSize <= Len(q.slots[b])
      <4>1. CASE b # Bucket(k)
        BY <2>2, <2>7, <4>1 DEF Sound
      <4>2. CASE b = Bucket(k)
        <5>1. ElementSize <= Len(Slots(p, k))
          <6>1. Slots(p, k) # << >>
            BY <2>3
          <6> QED BY <2>2, <6>1 DEF Sound
        <5> QED BY <2>2, <2>5, <2>7, <4>2, <5>1
      <4> QED BY <4>1, <4>2
    <3> QED BY <2>8, <3>1, <3>2, <3>3, <3>4, <3>5 DEF Sound
  <2>14. ASSUME NEW l \in Keys, l # k
         PROVE  Answer(q, l) = Answer(p, l)
    <3>1. CASE Places(p, l) = {}
      BY <2>12, <2>13, <2>14, <3>1, AnswerIs
    <3>2. CASE Places(p, l) # {}
      <4>1. PICK y : y \in Places(p, l)
        BY <3>2
      <4>2. y \in Places(q, l) /\ Slots(q, l)[y] = Slots(p, l)[y]
        BY <2>12, <2>14, <4>1
      <4> QED BY <2>7, <2>13, <4>1, <4>2, AnswerIs
    <3> QED BY <3>1, <3>2
  <2>15. Answer(q, k) = Miss
    BY <2>11, <2>13, AnswerIs
  <2> QED BY <2>13, <2>14, <2>15
<1> QED BY <1>1, <1>2

-----------------------------------------------------------------------------
\* A page from which nothing was removed: the holes of a bucket are behind its names.
Packed(p) ==
    \A k \in Keys : \A i, j \in DOMAIN Slots(p, k) :
        i < j /\ Slots(p, k)[j] # Hole => Slots(p, k)[i] # Hole

\* There a put never overtakes the slot of its name.
LEMMA PackedSlot ==
    ASSUME NEW p, Sound(p), Packed(p), NEW k \in Keys, NEW i \in Places(p, k)
    PROVE  SlotFor(p, k) = i
<1>1. /\ p \in Pages /\ Slots(p, k) \in Seq(Slot) /\ i \in Free(p, k)
      /\ Places(p, k) = {i} /\ Slots(p, k)[i].name # 0
  <2>1. Places(p, k) = {i}
    BY AnswerIs
  <2> QED BY <2>1 DEF Sound, Pages, Slots, Buckets, Free, Places, Named
<1>2. PICK j : j = SlotFor(p, k)
  OBVIOUS
<1>3. j \in Free(p, k) /\ j <= i
  BY <1>1, <1>2, SlotForIs
<1>4. j \in 1 .. Len(Slots(p, k)) /\ i \in 1 .. Len(Slots(p, k))
  BY <1>1, <1>3 DEF Free
<1>5. CASE j < i
  <2>1. Slots(p, k)[i] # Hole
    BY <1>1 DEF Hole
  <2>2. Slots(p, k)[j] # Hole
    BY <1>1, <1>4, <1>5, <2>1 DEF Packed
  <2>3. PICK l \in Keys : Bucket(l) = Bucket(k) /\ j \in Places(p, l)
    BY <1>1, <1>4, <2>2 DEF Sound
  <2>4. Slots(p, k)[j].name # 0
    BY <2>3 DEF Places, Named, Slots
  <2>5. j \in Places(p, k)
    BY <1>3, <2>4 DEF Free, Places
  <2> QED BY <1>1, <1>4, <1>5, <2>5
<1> QED BY <1>2, <1>3, <1>4, <1>5

\* What a put does to the page a swap fills: it only adds to it, and nothing is lost.
Grows(p, q) ==
    /\ q.room <= p.room
    /\ \A l \in Keys : /\ Len(Slots(p, l)) <= Len(Slots(q, l))
                       /\ Answer(p, l) # Miss => Answer(q, l) # Miss

\* A put into a page from which nothing was removed.
LEMMA PackedAdd ==
    ASSUME NEW p, Sound(p), Packed(p),
           NEW k \in Keys, NEW id \in Types, NEW v \in Payloads, NEW r, r = Add(p, k, id, v)
    PROVE  /\ Sound(r.page) /\ Packed(r.page) /\ Grows(p, r.page)
           /\ \A l \in Keys : l # k => Answer(r.page, l) = Answer(p, l)
           /\ r.block # 0 => Answer(r.page, k) = [id |-> id, value |-> v]
                             /\ Answer(r.page, k) # Miss
           /\ r.block # 0 \/ (/\ Answer(r.page, k) = Answer(p, k)
                              /\ \/ r.page.room < SizeOf(v)
                                 \/ r.page.room < LargerBucket(r.page, k))
<1>1. \A l \in Keys : Slots(p, l) \in Seq(Slot)
  BY DEF Sound, Pages, Slots, Buckets
<1>2. /\ r.block = 0 => Failed(p, k, v, r)
      /\ r.block # 0 => Succeeded(p, k, id, v, r) \/ TookHole(p, k, id, v, r)
  BY AddIs
<1>3. ~TookHole(p, k, id, v, r)
  BY PackedSlot DEF TookHole
<1>4. CASE r.block = 0
  <2>1. Keeps(p, r.page)
    BY <1>2, <1>4 DEF Failed
  <2>2. /\ Sound(r.page)
        /\ \A l \in Keys : Slots(r.page, l) = Slots(p, l) /\ Answer(r.page, l) = Answer(p, l)
    BY <2>1, KeepsSound
  <2>3. Packed(r.page)
    BY <2>2 DEF Packed
  <2>4. Grows(p, r.page)
    <3>1. \A l \in Keys : Len(Slots(p, l)) \in Nat
      BY <1>1
    <3> QED BY <2>1, <2>2, <3>1 DEF Keeps, Grows
  <2> QED BY <1>2, <1>4, <2>2, <2>3, <2>4 DEF Failed
<1>5. CASE r.block # 0
  <2>1. PICK x, e : /\ x = SlotFor(p, k) \/ (SlotFor(p, k) = 0 /\ x = Len(Slots(p, k)) + 1)
                    /\ e.id = id /\ Entered(p, r.page, k, x, e, v)
    BY <1>2, <1>3, <1>5 DEF Succeeded
  <2>2. PICK q : q = r.page
    OBVIOUS
  <2>3. /\ Sound(q)
        /\ Answer(q, k) = [id |-> e.id, value |-> v] /\ Answer(q, k) # Miss
        /\ \A l \in Keys : l # k => Answer(q, l) = Answer(p, l)
        /\ \A l \in Keys : Len(Slots(p, l)) <= Len(Slots(q, l))
    <3>1. Entered(p, q, k, x, e, v)
      BY <2>1, <2>2
    <3> QED BY <3>1, EnteredSound, Zenon
  <2>4. Grows(p, q)
    <3>1. q.room <= p.room
      BY <2>1, <2>2 DEF Entered
    <3> QED BY <2>3, <3>1 DEF Grows
  <2>5. Packed(q)
    <3>1. ASSUME NEW i \in DOMAIN Slots(q, k), NEW j \in DOMAIN Slots(q, k),
                 i < j, Slots(q, k)[j] # Hole
          PROVE  Slots(q, k)[i] # Hole
      <4>1. /\ Slots(q, k) \in Seq(Slot) /\ i \in 1 .. Len(Slots(q, k)) /\ j \in 1 .. Len(Slots(q, k))
            /\ x \in 1 .. Len(Slots(q, k))
        <5>1. Slots(q, k) \in Seq(Slot)
          BY <2>3 DEF Sound, Pages, Slots, Buckets
        <5> QED BY <2>1, <2>2, <3>1, <5>1 DEF Entered
      <4>2. Slots(q, k)[x] = e /\ e # Hole
        BY <2>1, <2>2 DEF Entered, Hole
      <4>3. \A y \in DOMAIN Slots(q, k) :
              y # x => Slots(q, k)[y] = IF y \in DOMAIN Slots(p, k) THEN Slots(p, k)[y] ELSE Hole
        BY <2>1, <2>2 DEF Entered
      <4>4. \A y \in DOMAIN Slots(p, k) : y < x => Slots(p, k)[y] # Hole
        <5>1. ASSUME NEW y \in DOMAIN Slots(p, k), y < x, Slots(p, k)[y] = Hole
              PROVE  FALSE
          <6>1. y \in Free(p, k) /\ y \in Nat
            BY <1>1, <5>1 DEF Free, Hole
          <6>2. p \in Pages /\ SlotFor(p, k) \in Free(p, k) /\ SlotFor(p, k) <= y
            BY <6>1, SlotForIs DEF Sound
          <6>3. SlotFor(p, k) \in Nat \ {0}
            BY <1>1, <6>2 DEF Free
          <6> QED BY <2>1, <4>1, <5>1, <6>1, <6>2, <6>3
        <5> QED BY <5>1
      <4>5. \A y \in 1 .. Len(Slots(q, k)) : y < x => y \in DOMAIN Slots(p, k)
        <5>1. x \in DOMAIN Slots(p, k) \/ x = Len(Slots(p, k)) + 1
          <6>1. p \in Pages
            BY DEF Sound
          <6>2. CASE SlotFor(p, k) = 0
            BY <1>1, <2>1, <4>1, <6>2
          <6>3. CASE SlotFor(p, k) # 0
            BY <2>1, <6>1, <6>3, SlotForIs DEF Free
          <6> QED BY <6>2, <6>3
        <5> QED BY <1>1, <4>1, <5>1
      <4>6. CASE i = x
        BY <4>2, <4>6
      <4>7. CASE i < x
        <5>1. i \in DOMAIN Slots(p, k) /\ Slots(p, k)[i] # Hole
          BY <4>1, <4>4, <4>5, <4>7
        <5> QED BY <3>1, <4>1, <4>3, <4>7, <5>1
      <4>8. CASE x < i
        <5>1. j # x /\ i # x
          BY <3>1, <4>1, <4>8
        <5>2. j \in DOMAIN Slots(p, k) /\ Slots(p, k)[j] # Hole
          BY <3>1, <4>3, <5>1
        <5>3. i \in DOMAIN Slots(p, k)
          BY <1>1, <3>1, <4>1, <5>2
        <5>4. Slots(p, k)[i] # Hole
          BY <3>1, <5>2, <5>3 DEF Packed
        <5> QED BY <3>1, <4>3, <5>1, <5>3, <5>4
      <4> QED BY <4>1, <4>6, <4>7, <4>8
    <3>2. ASSUME NEW l \in Keys, Bucket(l) # Bucket(k)
          PROVE  Slots(q, l) = Slots(p, l)
      BY <2>1, <2>2, <3>2 DEF Entered, Slots, Buckets
    <3>3. \A l \in Keys : Bucket(l) = Bucket(k) => Slots(q, l) = Slots(q, k)
      BY DEF Slots
    <3>4. ASSUME NEW l \in Keys
          PROVE  \A i, j \in DOMAIN Slots(q, l) :
                    i < j /\ Slots(q, l)[j] # Hole => Slots(q, l)[i] # Hole
      <4>1. CASE Bucket(l) = Bucket(k)
        BY <3>1, <3>3, <4>1
      <4>2. CASE Bucket(l) # Bucket(k)
        BY <3>2, <4>2 DEF Packed
      <4> QED BY <4>1, <4>2
    <3> QED BY <3>4 DEF Packed
  <2> QED BY <1>5, <2>1, <2>2, <2>3, <2>4, <2>5
<1> QED BY <1>4, <1>5

-----------------------------------------------------------------------------
\* A new page is sound and has no names.
LEMMA NewPageIs ==
    /\ Sound(NewPage) /\ Packed(NewPage)
    /\ \A k \in Keys : Answer(NewPage, k) = Miss
<1>1. PICK p : p = NewPage
  OBVIOUS
<1>2. /\ p.slots = [b \in Buckets |-> << >>] /\ p.blocks = << >> /\ p.room = PageSize
      /\ p = [slots |-> p.slots, blocks |-> p.blocks, room |-> p.room]
  BY <1>1 DEF NewPage, Buckets
<1>3. p \in Pages
  <2>1. PageSize \in Nat
    BY HashAssumption
  <2>2. << >> \in Seq(Slot) /\ << >> \in Seq(Block)
    BY EmptySeq
  <2>3. p.slots \in [Buckets -> Seq(Slot)]
    BY <1>2, <2>2
  <2> QED BY <1>2, <2>1, <2>2, <2>3 DEF Pages
<1>4. \A k \in Keys : Slots(p, k) = << >>
  BY <1>2 DEF Slots, Buckets
<1>5. \A k \in Keys : DOMAIN Slots(p, k) = {}
  BY <1>4
<1>6. \A k \in Keys : Places(p, k) = {}
  BY <1>5 DEF Places
<1>7. Sound(p)
  BY <1>2, <1>3, <1>5, <1>6 DEF Sound
<1>8. Packed(p)
  BY <1>5 DEF Packed
<1>9. \A k \in Keys : Answer(p, k) = Miss
  BY <1>6, <1>7, AnswerIs
<1> QED BY <1>1, <1>7, <1>8, <1>9

\* Pages between which a swap goes grow, and a bucket then needs no fewer slots.
LEMMA GrowsIsOrder ==
    ASSUME NEW p, NEW q, Sound(p), Sound(q)
    PROVE  /\ Grows(p, p)
           /\ Grows(p, q) => \A l \in Keys : LargerBucket(p, l) <= LargerBucket(q, l)
           /\ \A r : Sound(r) /\ Grows(p, q) /\ Grows(q, r) => Grows(p, r)
<1>1. \A r : Sound(r) => r.room \in Nat /\ \A l \in Keys : /\ Slots(r, l) \in Seq(Slot)
                                                           /\ Len(Slots(r, l)) \in Nat
  BY DEF Sound, Pages, Slots, Buckets
<1>2. Grows(p, p)
  BY <1>1 DEF Grows
<1>3. ASSUME NEW l \in Keys, Grows(p, q)
      PROVE  LargerBucket(p, l) <= LargerBucket(q, l)
  <2>1. PICK m, n : m = Len(Slots(p, l)) /\ n = Len(Slots(q, l))
    OBVIOUS
  <2>2. m \in Nat /\ n \in Nat /\ m <= n
    BY <1>1, <1>3, <2>1 DEF Grows
  <2>3. /\ ElementSize \in Nat \ {0} /\ n * ResizeQuantity \in Nat
        /\ m * ResizeQuantity <= n * ResizeQuantity
        /\ n # 0 => n + 1 <= n * ResizeQuantity
    BY <2>2, LargerIs, HashAssumption
  <2>4. Slots(q, l) # << >> => ElementSize <= n /\ n # 0
    <3>1. Bucket(l) \in Buckets
      BY DEF Buckets
    <3> QED BY <2>1, <2>3, <3>1 DEF Sound, Slots
  <2>5. Slots(p, l) # << >> => Slots(q, l) # << >>
    BY <1>1, <2>1, <2>2, EmptySeq
  <2>6. /\ LargerBucket(p, l) = IF Slots(p, l) = << >> THEN ElementSize ELSE m * ResizeQuantity
        /\ LargerBucket(q, l) = IF Slots(q, l) = << >> THEN ElementSize ELSE n * ResizeQuantity
    BY <2>1 DEF LargerBucket
  <2> QED BY <2>2, <2>3, <2>4, <2>5, <2>6
<1>4. ASSUME NEW r, Sound(r), Grows(p, q), Grows(q, r)
      PROVE  Grows(p, r)
  BY <1>1, <1>4 DEF Grows
<1> QED BY <1>2, <1>3, <1>4

\* Why the value p has of a key may not be in a page q that a swap fills: no room.
Tight(p, q, k) ==
    \/ 4 * q.room < PageSize
    \/ q.room < SizeOf(Answer(p, k).value)
    \/ q.room < LargerBucket(q, k)

\* q answers what p does, or misses; and what a swap copies of p.
Within(p, q) == \A k \in Keys : Answer(q, k) \in {Answer(p, k), Miss}
Copies(p, k) == Answer(p, k) # Miss /\ Answer(p, k).id # "BIN"

\* A page that answers what the old one does or misses still does when a key was copied to
\* it, and misses that one only for want of room.
LEMMA CopiedIs ==
    ASSUME NEW p, NEW q, Sound(p), Sound(q), Packed(q), Within(p, q),
           NEW c \in Keys \cup {NoKey}, NEW r, r = Copied(p, q, c)
    PROVE  /\ Sound(r) /\ Packed(r) /\ Within(p, r) /\ Grows(q, r)
           /\ c \in Keys /\ Copies(p, c) => Answer(r, c) # Miss \/ Tight(p, r, c)
<1>1. PICK a : a = IF c = NoKey THEN Miss ELSE Answer(p, c)
  OBVIOUS
<1>2. CASE a = Miss \/ a.id = "BIN"
  <2>1. r = q
    BY <1>1, <1>2 DEF Copied
  <2>2. c \in Keys => ~Copies(p, c)
    BY <1>1, <1>2, HashAssumption DEF Copies
  <2> QED BY <2>1, <2>2, GrowsIsOrder
<1>3. CASE ~(a = Miss \/ a.id = "BIN")
  <2>1. c \in Keys /\ a = Answer(p, c)
    BY <1>1, <1>3
  <2>2. a.id \in Types /\ a.value \in Payloads
        /\ a = [id |-> a.id, value |-> a.value]
    <3>1. Places(p, c) # {}
      BY <1>3, <2>1, AnswerIs
    <3>2. PICK i \in Places(p, c) : TRUE
      BY <3>1
    <3> QED BY <2>1, <3>2, AnswerIs
  <2>3. PICK id, v, add : id = a.id /\ v = a.value /\ add = Add(q, c, id, v)
    OBVIOUS
  <2>4. r = add.page
    BY <1>1, <1>3, <2>3 DEF Copied
  <2>5. /\ Sound(r) /\ Packed(r) /\ Grows(q, r)
        /\ \A l \in Keys : l # c => Answer(r, l) = Answer(q, l)
        /\ add.block # 0 => Answer(r, c) = [id |-> id, value |-> v] /\ Answer(r, c) # Miss
        /\ add.block # 0 \/ (/\ Answer(r, c) = Answer(q, c)
                             /\ \/ r.room < SizeOf(v)
                                \/ r.room < LargerBucket(r, c))
    BY <2>1, <2>2, <2>3, <2>4, PackedAdd
  <2>6. Within(p, r)
    <3>1. ASSUME NEW l \in Keys
          PROVE  Answer(r, l) \in {Answer(p, l), Miss}
      <4>1. CASE l # c
        BY <2>5, <4>1 DEF Within
      <4>2. CASE l = c /\ add.block # 0
        BY <2>1, <2>2, <2>3, <2>5, <4>2
      <4>3. CASE l = c /\ ~(add.block # 0)
        BY <2>5, <4>3 DEF Within
      <4> QED BY <4>1, <4>2, <4>3
    <3> QED BY <3>1 DEF Within
  <2>7. Answer(r, c) # Miss \/ Tight(p, r, c)
    BY <2>1, <2>3, <2>5 DEF Tight
  <2> QED BY <2>5, <2>6, <2>7
<1> QED BY <1>2, <1>3

\* What is tight stays tight while a page grows.
LEMMA TightStays ==
    ASSUME NEW p, NEW q, NEW r, Sound(q), Sound(r), Grows(q, r), NEW k \in Keys,
           Answer(q, k) # Miss \/ Tight(p, q, k)
    PROVE  Answer(r, k) # Miss \/ Tight(p, r, k)
<1>1. CASE Answer(q, k) # Miss
  BY <1>1 DEF Grows
<1>2. CASE Tight(p, q, k)
  <2>1. q.room \in Nat /\ r.room \in Nat /\ r.room <= q.room /\ PageSize \in Nat
    BY HashAssumption DEF Sound, Pages, Grows
  <2>2. LargerBucket(q, k) <= LargerBucket(r, k)
    BY GrowsIsOrder
  <2>3. \A t \in Keys : Slots(q, t) \in Seq(Slot) /\ Slots(r, t) \in Seq(Slot)
    BY DEF Sound, Pages, Slots, Buckets
  <2>4. LargerBucket(q, k) \in Int /\ LargerBucket(r, k) \in Int
    BY <2>3, HashAssumption DEF LargerBucket
  <2>5. SizeOf(Answer(p, k).value) \in Int
    BY DEF SizeOf
  <2> QED BY <1>2, <2>1, <2>2, <2>4, <2>5 DEF Tight
<1> QED BY <1>1, <1>2

\* What holds of 0, and of the next number whenever it holds of one, holds up to N.
LEMMA UpTo ==
    ASSUME NEW N \in Nat, NEW S, 0 \in S, \A k \in 0 .. N - 1 : k \in S => k + 1 \in S
    PROVE  \A k \in 0 .. N : k \in S
<1> DEFINE T == {k \in 0 .. N : k \notin S}
<1>1. ASSUME T # {}
      PROVE  FALSE
  <2>1. PICK m : m = Min(T)
    OBVIOUS
  <2>2. m \in T /\ \A y \in T : m <= y
    <3>1. T \in SUBSET Nat
      OBVIOUS
    <3> HIDE DEF T
    <3> QED BY <1>1, <2>1, <3>1, MinIn
  <2>3. m \in 1 .. N /\ m - 1 \in 0 .. N - 1 /\ m - 1 \in 0 .. N /\ (m - 1) + 1 = m
    BY <2>2
  <2>4. m - 1 \notin T
    <3> HIDE DEF T
    <3> QED BY <2>2, <2>3
  <2>5. m - 1 \in S
    BY <2>3, <2>4
  <2> QED BY <2>2, <2>3, <2>5
<1> QED BY <1>1

\* f[k] is what h makes of k and f[k - 1], from x on.
Unfolds(f, n, x, h) == \A k \in 0 .. n : f[k] = IF k = 0 THEN x ELSE h[<<k, f[k - 1]>>]

\* Such a recursion has a solution.
LEMMA Unfolded ==
    ASSUME NEW T, NEW N \in Nat, NEW h \in [(1 .. N) \X T -> T], NEW x \in T
    PROVE  \E f \in [0 .. N -> T] : Unfolds(f, N, x, h)
<1> DEFINE Is(f, n) == \A k \in 0 .. n : f[k] = IF k = 0 THEN x ELSE h[<<k, f[k - 1]>>]
           S == {n \in 0 .. N : \E f \in [0 .. n -> T] : Is(f, n)}
<1>1. 0 \in S
  <2>1. [k \in 0 .. 0 |-> x] \in [0 .. 0 -> T] /\ Is([k \in 0 .. 0 |-> x], 0) /\ 0 \in 0 .. N
    OBVIOUS
  <2> HIDE DEF Is
  <2> QED BY <2>1, Zenon
<1>2. ASSUME NEW n \in 0 .. N - 1, n \in S
      PROVE  n + 1 \in S
  <2>1. PICK f \in [0 .. n -> T] : Is(f, n)
    BY <1>2
  <2>2. /\ n \in Nat /\ n \in 0 .. n /\ n + 1 \in 0 .. N /\ n + 1 \in 1 .. N /\ f[n] \in T
        /\ \A k \in 0 .. n + 1 : k # n + 1 => k \in 0 .. n
    OBVIOUS
  <2>3. PICK y \in T : y = h[<<n + 1, f[n]>>]
    BY <2>2
  <2> DEFINE g == [k \in 0 .. n + 1 |-> IF k = n + 1 THEN y ELSE f[k]]
  <2>4. g \in [0 .. n + 1 -> T]
    BY <2>2
  <2>5. ASSUME NEW k \in 0 .. n + 1
        PROVE  g[k] = IF k = 0 THEN x ELSE h[<<k, g[k - 1]>>]
    <3>1. CASE k = n + 1
      <4>1. k - 1 = n /\ k # 0 /\ n # n + 1 /\ n \in 0 .. n + 1
        BY <2>2, <3>1
      <4>2. g[n] = f[n] /\ g[k] = y
        BY <3>1, <4>1
      <4> HIDE DEF g
      <4>3. g[k - 1] = f[n]
        BY <4>1, <4>2
      <4> QED BY <2>3, <3>1, <4>1, <4>2, <4>3
    <3>2. CASE k # n + 1
      <4>1. k \in 0 .. n /\ (k # 0 => k - 1 \in 0 .. n /\ k - 1 # n + 1 /\ k - 1 \in 0 .. n + 1)
        BY <2>2, <3>2
      <4>2. g[k] = f[k] /\ (k # 0 => g[k - 1] = f[k - 1])
        BY <3>2, <4>1
      <4> HIDE DEF g
      <4> QED BY <2>1, <4>1, <4>2
    <3> QED BY <3>1, <3>2
  <2> HIDE DEF g
  <2> QED BY <2>2, <2>4, <2>5
<1>3. N \in S
  <2> HIDE DEF S
  <2>1. \A k \in 0 .. N : k \in S
    BY <1>1, <1>2, UpTo
  <2> QED BY <2>1
<1>4. PICK f \in [0 .. N -> T] : Is(f, N)
  BY <1>3
<1> QED BY <1>4 DEF Unfolds

-----------------------------------------------------------------------------
\* the cells of the chain
Cells == [key : Keys \cup {NoKey}, long : BOOLEAN]

\* A swap of the pages: the new page answers what the old one does or misses, and misses a
\* key of the chain that is no binary only for want of room.
LEMMA SwappedIs ==
    ASSUME chain \in Seq(Cells), NEW p, Sound(p), NEW q, q = Swapped(p)
    PROVE  /\ Sound(q) /\ Packed(q) /\ Within(p, q)
           /\ \A i \in DOMAIN chain :
                 chain[i].key \in Keys /\ Copies(p, chain[i].key) =>
                     Answer(q, chain[i].key) # Miss \/ Tight(p, q, chain[i].key)
<1>1. PICK N, cells : N = Len(chain) /\ cells = chain
  OBVIOUS
<1>2. N \in Nat /\ cells \in Seq(Cells) /\ DOMAIN cells = 1 .. N
      /\ \A i \in 1 .. N : cells[i].key \in Keys \cup {NoKey}
  <2>1. cells \in Seq(Cells) /\ N \in Nat /\ DOMAIN cells = 1 .. N
    BY <1>1
  <2>2. ASSUME NEW i \in 1 .. N
        PROVE  cells[i].key \in Keys \cup {NoKey}
    <3>1. cells[i] \in Cells
      BY <2>1
    <3> QED BY <3>1 DEF Cells
  <2> QED BY <2>1, <2>2
<1> DEFINE Next1(i, s) == IF s.stop THEN s
                          ELSE [page |-> Copied(p, s.page, cells[i].key),
                                stop |-> Full(Copied(p, s.page, cells[i].key))]
           First == [page |-> NewPage, stop |-> FALSE]
           F(f) == [i \in 0 .. N |-> IF i = 0 THEN First ELSE Next1(i, f[i - 1])]
           T == {s \in [page : Pages, stop : BOOLEAN] :
                    Sound(s.page) /\ Packed(s.page) /\ Within(p, s.page)}
           after == CHOOSE f : f = F(f)
<1>3. First \in T
  <2>1. Sound(NewPage) /\ Packed(NewPage) /\ Within(p, NewPage) /\ NewPage \in Pages
    BY NewPageIs DEF Within, Sound
  <2> QED BY <2>1
<1>4. ASSUME NEW i \in 1 .. N, NEW s \in T
      PROVE  /\ Next1(i, s) \in T /\ Grows(s.page, Next1(i, s).page)
             /\ s.stop => Next1(i, s) = s
             /\ ~s.stop => Next1(i, s).stop = Full(Next1(i, s).page)
             /\ ~s.stop /\ cells[i].key \in Keys /\ Copies(p, cells[i].key) =>
                   \/ Answer(Next1(i, s).page, cells[i].key) # Miss
                   \/ Tight(p, Next1(i, s).page, cells[i].key)
  <2>1. PICK r, c : r = Copied(p, s.page, c) /\ c = cells[i].key
    OBVIOUS
  <2>2. Sound(s.page) /\ Packed(s.page) /\ Within(p, s.page) /\ c \in Keys \cup {NoKey}
    BY <1>2, <1>4, <2>1
  <2>3. /\ Sound(r) /\ Packed(r) /\ Within(p, r) /\ Grows(s.page, r)
        /\ c \in Keys /\ Copies(p, c) => Answer(r, c) # Miss \/ Tight(p, r, c)
    BY <2>1, <2>2, CopiedIs
  <2>4. CASE s.stop
    BY <1>4, <2>2, <2>4, GrowsIsOrder
  <2>5. CASE ~s.stop
    <3>1. Next1(i, s) = [page |-> r, stop |-> Full(r)]
      BY <2>1, <2>5
    <3>2. Full(r) \in BOOLEAN /\ r \in Pages
      BY <2>3 DEF Full, Sound
    <3>3. Next1(i, s) \in T
      BY <2>3, <3>1, <3>2
    <3> QED BY <2>1, <2>3, <2>5, <3>1, <3>3
  <2> QED BY <2>4, <2>5
<1>5. after = F(after)
  <2>1. \E f : f = F(f)
    <3> DEFINE h == [w \in (1 .. N) \X T |-> Next1(w[1], w[2])]
    <3>1. h \in [(1 .. N) \X T -> T]
      <4> HIDE DEF T, Next1
      <4> QED BY <1>4
    <3>2. \A i \in 1 .. N : \A s \in T : h[<<i, s>>] = Next1(i, s)
      OBVIOUS
    <3> HIDE DEF h, T, Next1, First
    <3>3. PICK f \in [0 .. N -> T] : Unfolds(f, N, First, h)
      <4>1. N \in Nat
        BY <1>2
      <4> QED BY <1>3, <3>1, <4>1, Unfolded, Zenon
    <3>4. ASSUME NEW k \in 0 .. N
          PROVE  f[k] = IF k = 0 THEN First ELSE Next1(k, f[k - 1])
      <4>1. CASE k = 0
        BY <3>3, <4>1 DEF Unfolds
      <4>2. CASE k # 0
        <5>1. k \in 1 .. N /\ k - 1 \in 0 .. N
          BY <1>2, <4>2
        <5> QED BY <3>2, <3>3, <4>2, <5>1 DEF Unfolds
      <4> QED BY <4>1, <4>2
    <3>5. f = [k \in 0 .. N |-> f[k]]
      OBVIOUS
    <3> QED BY <3>4, <3>5
  <2> HIDE DEF F
  <2> QED BY <2>1, Zenon
<1>6. q = after[N].page
  BY <1>1, Zenon DEF Swapped
<1> HIDE DEF after
<1>7. after[0] = First /\ \A i \in 1 .. N : after[i] = Next1(i, after[i - 1])
  <2> HIDE DEF First, Next1
  <2>1. \A i \in 0 .. N : after[i] = IF i = 0 THEN First ELSE Next1(i, after[i - 1])
    BY <1>5
  <2> QED BY <1>2, <2>1
<1> DEFINE Copying(n) ==
              /\ after[n] \in T
              /\ after[n].stop => 4 * after[n].page.room < PageSize
              /\ \A i \in 1 .. n : cells[i].key \in Keys /\ Copies(p, cells[i].key) =>
                    \/ Answer(after[n].page, cells[i].key) # Miss
                    \/ Tight(p, after[n].page, cells[i].key)
           S == {n \in 0 .. N : Copying(n)}
<1>8. 0 \in S
  <2>1. after[0] \in T /\ after[0].stop = FALSE
    BY <1>3, <1>7
  <2>2. 0 \in 0 .. N /\ 1 .. 0 = {}
    BY <1>2
  <2>3. Copying(0)
    <3> HIDE DEF T
    <3> QED BY <2>1, <2>2
  <2> HIDE DEF Copying
  <2> QED BY <2>2, <2>3
<1>9. ASSUME NEW n \in 0 .. N - 1, n \in S
      PROVE  n + 1 \in S
  <2>1. PICK s, t : s = after[n] /\ t = after[n + 1]
    OBVIOUS
  <2>2. n + 1 \in 1 .. N /\ n + 1 \in 0 .. N /\ (n + 1) - 1 = n
        /\ \A i \in 1 .. n + 1 : i # n + 1 => i \in 1 .. n
    BY <1>2
  <2>3. t = Next1(n + 1, s)
    <3> HIDE DEF Next1
    <3> QED BY <1>7, <2>1, <2>2
  <2>4. /\ s \in T /\ (s.stop => 4 * s.page.room < PageSize)
        /\ \A i \in 1 .. n : cells[i].key \in Keys /\ Copies(p, cells[i].key) =>
              Answer(s.page, cells[i].key) # Miss \/ Tight(p, s.page, cells[i].key)
    BY <1>9, <2>1
  <2>5. /\ t \in T /\ Grows(s.page, t.page)
        /\ s.stop => t = s
        /\ ~s.stop => t.stop = Full(t.page)
        /\ ~s.stop /\ cells[n + 1].key \in Keys /\ Copies(p, cells[n + 1].key) =>
              \/ Answer(t.page, cells[n + 1].key) # Miss
              \/ Tight(p, t.page, cells[n + 1].key)
    <3> HIDE DEF Next1, T
    <3> QED BY <1>4, <2>2, <2>3, <2>4
  <2>6. /\ Sound(s.page) /\ Sound(t.page)
    BY <2>4, <2>5
  <2>7. t.stop => 4 * t.page.room < PageSize
    <3>1. CASE s.stop
      BY <2>4, <2>5, <3>1
    <3>2. CASE ~s.stop
      <4>1. t.page.room \in Nat /\ PageSize \in Nat
        BY <2>6, HashAssumption DEF Sound, Pages
      <4>2. t.stop => t.page.room < PageSize \div 4
        BY <2>5, <3>2 DEF Full
      <4> QED BY <4>1, <4>2
    <3> QED BY <3>1, <3>2
  <2>8. ASSUME NEW i \in 1 .. n + 1, cells[i].key \in Keys, Copies(p, cells[i].key)
        PROVE  Answer(t.page, cells[i].key) # Miss \/ Tight(p, t.page, cells[i].key)
    <3>1. CASE i = n + 1
      <4>1. CASE s.stop
        BY <2>4, <2>5, <4>1 DEF Tight
      <4>2. CASE ~s.stop
        BY <2>5, <2>8, <3>1, <4>2
      <4> QED BY <4>1, <4>2
    <3>2. CASE i # n + 1
      <4>1. i \in 1 .. n
        BY <2>2, <2>8, <3>2
      <4>2. Answer(s.page, cells[i].key) # Miss \/ Tight(p, s.page, cells[i].key)
        BY <2>4, <2>8, <4>1
      <4> QED BY <2>5, <2>6, <2>8, <4>2, TightStays
    <3> QED BY <3>1, <3>2
  <2>9. Copying(n + 1)
    <3> HIDE DEF T
    <3> QED BY <2>1, <2>5, <2>7, <2>8
  <2> HIDE DEF Copying
  <2> QED BY <2>2, <2>9
<1>10. Copying(N)
  <2> HIDE DEF S
  <2>1. \A n \in 0 .. N : n \in S
    BY <1>2, <1>8, <1>9, UpTo
  <2>2. N \in S
    BY <1>2, <2>1
  <2> USE DEF S
  <2> HIDE DEF Copying
  <2> QED BY <2>2
<1> QED BY <1>1, <1>2, <1>6, <1>10

-----------------------------------------------------------------------------
\* the type invariant, the page apart
Answers == [id : Types \cup {"none"}, value : Payloads \cup {"none"}]

TypeOK ==
    /\ chain \in Seq(Cells) /\ swaps \in Nat
    /\ truth \in [Keys -> Answers] /\ doubled \in BOOLEAN

\* The inductive invariant: until a name is in two slots the page is sound, and what it
\* answers is what was put last.
IInv == TypeOK /\ (~doubled => Sound(page)) /\ AnswersTrue

\* What a step does to a value that it puts, and to those that it does not.
Answered ==
    ~doubled => \A k \in Keys :
        truth'[k] \notin {truth[k], Miss} => Answer(page', k) = truth'[k]
LosesOnly ==
    ~doubled /\ swaps' # swaps => \A k \in Keys :
        Answer(page, k) # Miss /\ Answer(page', k) = Miss =>
            \/ Answer(page, k).id = "BIN"
            \/ \A i \in DOMAIN chain : chain[i].key # k
            \/ Tight(page, page', k)

\* The chain holds cells, however full it is.
LEMMA ChainTyped ==
    ASSUME TypeOK, NEW k \in Keys, AddCacheKey(k)
    PROVE  chain' \in Seq(Cells)
<1>1. PICK c : c = chain
  OBVIOUS
<1>2. c \in Seq(Cells) /\ MaxKeys \in Nat \ {0}
  BY <1>1, CacheAssumption DEF TypeOK
<1>3. Cell(k) \in Cells /\ \A old : Over(k, old) \in Cells
  BY DEF Cell, Over, Cells
<1>4. CASE Len(c) < MaxKeys
  BY <1>1, <1>2, <1>3, <1>4 DEF AddCacheKey
<1>5. CASE ~(Len(c) < MaxKeys)
  <2>1. c # << >>
    BY <1>2, <1>5, EmptySeq
  <2>2. Tail(c) \in Seq(Cells)
    BY <1>2, <2>1
  <2>3. chain' = Append(Tail(c), Over(k, Head(c)))
    BY <1>1, <1>5 DEF AddCacheKey
  <2> QED BY <1>3, <2>2, <2>3
<1> QED BY <1>4, <1>5

\* The variables beside the page have their types after every put.
LEMMA StoredTyped ==
    ASSUME TypeOK, NEW k \in Keys, NEW id \in Types, NEW v \in Payloads, NEW r,
           Stored(k, id, v, r), swaps' \in Nat
    PROVE  /\ TypeOK'
           /\ r.block # 0 => truth' = [truth EXCEPT ![k] = [id |-> id, value |-> v]]
           /\ ~(r.block # 0) => truth' = truth
           /\ page' = r.page /\ (~doubled' => ~doubled /\ ~Doubled(r.page))
<1>1. /\ r.block # 0 => truth' = [truth EXCEPT ![k] = [id |-> id, value |-> v]] /\ AddCacheKey(k)
      /\ ~(r.block # 0) => truth' = truth /\ chain' = chain
      /\ page' = r.page /\ doubled' = (doubled \/ Doubled(r.page))
  BY DEF Stored
<1>2. [id |-> id, value |-> v] \in Answers
  BY DEF Answers
<1>3. truth' \in [Keys -> Answers]
  BY <1>1, <1>2 DEF TypeOK
<1>4. chain' \in Seq(Cells)
  BY <1>1, ChainTyped DEF TypeOK
<1>5. doubled' \in BOOLEAN
  BY <1>1 DEF Doubled, TypeOK
<1> QED BY <1>1, <1>3, <1>4, <1>5 DEF TypeOK

\* A put that finds memory.
LEMMA CacheStep ==
    ASSUME IInv, NEW k \in Keys, NEW id \in Types, NEW v \in Payloads, Cache(k, id, v)
    PROVE  IInv' /\ Answered /\ LosesOnly
<1>1. PICK p, r, t : p = page /\ r = Add(p, k, id, v) /\ t = [id |-> id, value |-> v]
  OBVIOUS
<1>2. r.block # 0 /\ Stored(k, id, v, r) /\ swaps' = swaps
  BY <1>1 DEF Cache
<1>3. /\ TypeOK' /\ truth' = [truth EXCEPT ![k] = t]
      /\ page' = r.page /\ (~doubled' => ~doubled /\ ~Doubled(r.page))
  BY <1>1, <1>2, StoredTyped DEF IInv, TypeOK
<1>4. \A l \in Keys : truth'[l] = IF l = k THEN t ELSE truth[l]
  BY <1>3 DEF IInv, TypeOK
<1>5. LosesOnly
  BY <1>2 DEF LosesOnly
<1>6. CASE doubled
  BY <1>3, <1>5, <1>6 DEF IInv, AnswersTrue, Answered
<1>7. CASE ~doubled
  <2>1. Sound(p) /\ \A l \in Keys : Answer(p, l) \in {truth[l], Miss}
    BY <1>1, <1>7 DEF IInv, AnswersTrue
  <2>2. Succeeded(p, k, id, v, r) \/ TookHole(p, k, id, v, r)
    BY <1>1, <1>2, <2>1, AddIs
  <2>3. CASE Succeeded(p, k, id, v, r)
    <3>1. PICK x, e : e.id = id /\ Entered(p, r.page, k, x, e, v)
      BY <2>3 DEF Succeeded
    <3>2. PICK q : q = r.page
      OBVIOUS
    <3>3. Entered(p, q, k, x, e, v)
      BY <3>1, <3>2
    <3>0. Sound(p)
      BY <2>1
    <3>4. /\ Sound(q)
          /\ Answer(q, k) = [id |-> e.id, value |-> v] /\ Answer(q, k) # Miss
          /\ \A l \in Keys : l # k => Answer(q, l) = Answer(p, l)
          /\ \A l \in Keys : Len(Slots(p, l)) <= Len(Slots(q, l))
      BY <3>0, <3>3, EnteredSound, Zenon
    <3>5. Answer(q, k) = t /\ page' = q
      BY <1>1, <1>3, <3>1, <3>2, <3>4
    <3>6. \A l \in Keys : Answer(q, l) \in {truth'[l], Miss}
      BY <1>4, <2>1, <3>4, <3>5
    <3>7. IInv'
      BY <1>3, <3>4, <3>5, <3>6 DEF IInv, AnswersTrue
    <3>8. Answered
      BY <1>4, <3>5 DEF Answered
    <3> QED BY <1>5, <3>7, <3>8
  <2>4. CASE TookHole(p, k, id, v, r)
    <3>1. Doubled(r.page) /\ Answer(page', k) = t
      BY <1>1, <1>3, <2>4 DEF TookHole
    <3>2. IInv'
      BY <1>3, <3>1 DEF IInv, AnswersTrue
    <3>3. Answered
      BY <1>4, <3>1 DEF Answered
    <3> QED BY <1>5, <3>2, <3>3
  <2> QED BY <2>2, <2>3, <2>4
<1> QED BY <1>6, <1>7

\* A put that finds none, swaps the pages and tries again.
LEMMA SwapStep ==
    ASSUME IInv, NEW k \in Keys, NEW id \in Types, NEW v \in Payloads, CacheSwap(k, id, v)
    PROVE  IInv' /\ Answered /\ LosesOnly
<1>1. PICK p, first, c, q, r, t :
         /\ p = page /\ first = Add(p, k, id, v) /\ c = first.page /\ q = Swapped(c)
         /\ r = Add(q, k, id, v) /\ t = [id |-> id, value |-> v]
  OBVIOUS
<1>2. first.block = 0 /\ Stored(k, id, v, r) /\ swaps' = swaps + 1
  BY <1>1 DEF CacheSwap
<1>3. /\ TypeOK'
      /\ r.block # 0 => truth' = [truth EXCEPT ![k] = t]
      /\ ~(r.block # 0) => truth' = truth
      /\ page' = r.page /\ (~doubled' => ~doubled /\ ~Doubled(r.page))
  BY <1>1, <1>2, StoredTyped DEF IInv, TypeOK
<1>4. \A l \in Keys : truth'[l] = IF l = k /\ r.block # 0 THEN t ELSE truth[l]
  BY <1>3 DEF IInv, TypeOK
<1>5. CASE doubled
  BY <1>3, <1>5 DEF IInv, AnswersTrue, Answered, LosesOnly
<1>6. CASE ~doubled
  <2>1. Sound(p) /\ \A l \in Keys : Answer(p, l) \in {truth[l], Miss}
    BY <1>1, <1>6 DEF IInv, AnswersTrue
  <2>2. Keeps(p, c)
    <3>1. Failed(p, k, v, first)
      BY <1>1, <1>2, <2>1, AddIs
    <3> QED BY <1>1, <3>1 DEF Failed
  <2>3. Sound(c) /\ \A l \in Keys : Answer(c, l) = Answer(p, l)
    BY <2>1, <2>2, KeepsSound
  <2>4. /\ Sound(q) /\ Packed(q) /\ Within(c, q)
        /\ \A i \in DOMAIN chain :
              chain[i].key \in Keys /\ Copies(c, chain[i].key) =>
                  Answer(q, chain[i].key) # Miss \/ Tight(c, q, chain[i].key)
    BY <1>1, <2>3, SwappedIs DEF IInv, TypeOK
  <2>5. PICK g : g = r.page
    OBVIOUS
  <2>6. /\ Sound(g) /\ Grows(q, g)
        /\ \A l \in Keys : l # k => Answer(g, l) = Answer(q, l)
        /\ r.block # 0 => Answer(g, k) = t
        /\ r.block # 0 \/ Answer(g, k) = Answer(q, k)
    BY <1>1, <2>4, <2>5, PackedAdd
  <2>7. \A l \in Keys : Answer(q, l) \in {truth[l], Miss}
    BY <2>1, <2>3, <2>4 DEF Within
  <2>8. \A l \in Keys : Answer(g, l) \in {truth'[l], Miss}
    BY <1>4, <2>6, <2>7
  <2>9. IInv'
    BY <1>3, <2>5, <2>6, <2>8 DEF IInv, AnswersTrue
  <2>10. Answered
    BY <1>3, <1>4, <2>5, <2>6 DEF Answered
  <2>11. LosesOnly
    <3>1. ASSUME NEW l \in Keys, Answer(p, l) # Miss, Answer(g, l) = Miss,
                 Answer(p, l).id # "BIN", NEW i \in DOMAIN chain, chain[i].key = l
          PROVE  Tight(p, g, l)
      <4>1. Copies(c, l)
        BY <2>3, <3>1 DEF Copies
      <4>2. Answer(q, l) # Miss \/ Tight(c, q, l)
        BY <2>4, <3>1, <4>1
      <4>3. Answer(g, l) # Miss \/ Tight(c, g, l)
        BY <2>4, <2>6, <4>2, TightStays
      <4> QED BY <2>3, <3>1, <4>3 DEF Tight
    <3> QED BY <1>1, <1>3, <2>5, <3>1 DEF LosesOnly
  <2> QED BY <2>9, <2>10, <2>11
<1> QED BY <1>5, <1>6

\* A removal.
LEMMA RemoveStep ==
    ASSUME IInv, NEW k \in Keys, RemoveCache(k)
    PROVE  IInv' /\ Answered /\ LosesOnly
<1>1. PICK p, q : p = page /\ q = RemoveHash(p, k)
  OBVIOUS
<1>2. /\ page' = q /\ truth' = [truth EXCEPT ![k] = Miss]
      /\ chain' = chain /\ swaps' = swaps /\ doubled' = doubled
  BY <1>1 DEF RemoveCache
<1>3. \A l \in Keys : truth'[l] = IF l = k THEN Miss ELSE truth[l]
  BY <1>2 DEF IInv, TypeOK
<1>4. TypeOK'
  <2>1. Miss \in Answers
    BY DEF Miss, Answers
  <2> QED BY <1>2, <2>1 DEF IInv, TypeOK
<1>5. ASSUME ~doubled
      PROVE  Sound(q) /\ \A l \in Keys : Answer(q, l) \in {truth'[l], Miss}
  <2>1. Sound(p) /\ \A l \in Keys : Answer(p, l) \in {truth[l], Miss}
    BY <1>1, <1>5 DEF IInv, AnswersTrue
  <2>2. /\ Sound(q) /\ Answer(q, k) = Miss
        /\ \A l \in Keys : l # k => Answer(q, l) = Answer(p, l)
    BY <1>1, <2>1, RemoveIs
  <2> QED BY <1>3, <2>1, <2>2
<1>6. IInv'
  BY <1>2, <1>4, <1>5 DEF IInv, AnswersTrue
<1>7. Answered /\ LosesOnly
  BY <1>2, <1>3 DEF Answered, LosesOnly
<1> QED BY <1>6, <1>7

\* Every step keeps the invariant, answers what it puts and loses what it may.
LEMMA Steps ==
    IInv /\ [Next]_vars => IInv' /\ (Answered \/ UNCHANGED vars) /\ (LosesOnly \/ UNCHANGED vars)
<1> SUFFICES ASSUME IInv, [Next]_vars
             PROVE  IInv' /\ (Answered \/ UNCHANGED vars) /\ (LosesOnly \/ UNCHANGED vars)
  OBVIOUS
<1>1. ASSUME NEW w \in Puts
      PROVE  w[2] \in Types /\ w[1] \in Payloads
  BY <1>1 DEF Puts, Types, Payloads
<1>2. CASE Next
  <2>1. PICK k \in Keys : \/ \E w \in Puts : Cache(k, w[2], w[1]) \/ CacheSwap(k, w[2], w[1])
                          \/ RemoveCache(k)
    BY <1>2 DEF Next
  <2>2. ASSUME NEW w \in Puts, Cache(k, w[2], w[1])
        PROVE  IInv' /\ Answered /\ LosesOnly
    BY <1>1, <2>2, CacheStep
  <2>3. ASSUME NEW w \in Puts, CacheSwap(k, w[2], w[1])
        PROVE  IInv' /\ Answered /\ LosesOnly
    BY <1>1, <2>3, SwapStep
  <2>4. CASE RemoveCache(k)
    BY <2>4, RemoveStep
  <2> QED BY <2>1, <2>2, <2>3, <2>4
<1>3. CASE UNCHANGED vars
  <2>1. /\ page' = page /\ chain' = chain /\ swaps' = swaps /\ truth' = truth
        /\ doubled' = doubled
    BY <1>3 DEF vars
  <2>2. IInv'
    BY <2>1 DEF IInv, TypeOK, AnswersTrue
  <2> QED BY <1>3, <2>2
<1> QED BY <1>2, <1>3

\* The invariant holds: in particular a page stays sound, with every name in one slot and
\* every block in use for one purpose, until a put takes a hole before its name.
THEOREM Invariance == Spec => []IInv
<1>1. Init => IInv
  <2> SUFFICES ASSUME Init
               PROVE  IInv
    OBVIOUS
  <2>1. /\ page = NewPage /\ chain = << >> /\ swaps = 0
        /\ truth = [k \in Keys |-> Miss] /\ doubled = FALSE
    BY DEF Init
  <2>2. Miss \in Answers
    BY DEF Miss, Answers
  <2>3. TypeOK
    BY <2>1, <2>2, EmptySeq DEF TypeOK
  <2> QED BY <2>1, <2>3, NewPageIs DEF IInv, AnswersTrue
<1>2. IInv /\ [Next]_vars => IInv'
  BY Steps
<1> QED BY <1>1, <1>2, PTL DEF Spec

\* A get answers what was put last or misses, whatever pages, keys and values there are.
THEOREM NeverMixedUp == Spec => []AnswersTrue
<1>1. IInv => AnswersTrue
  BY DEF IInv
<1> QED BY <1>1, Invariance, PTL

\* A value that was put is answered at once, also by the put that takes a hole.
THEOREM AnsweredAtOnce == Spec => PutAnswered
<1>1. IInv /\ [Next]_vars =>
        [~doubled => \A k \in Keys :
            truth'[k] \notin {truth[k], Miss} => Answer(page', k) = truth'[k]]_vars
  BY Steps DEF Answered
<1> QED BY <1>1, Invariance, PTL DEF Spec, PutAnswered

\* A swap of the pages loses binaries, keys the chain has dropped, and what there was no
\* room for: nothing else, whatever the order of the chain.
THEOREM NothingElseLost == Spec => SwapLosesOnly
<1>1. IInv /\ [Next]_vars =>
        [~doubled /\ swaps' # swaps =>
            \A k \in Keys :
                Answer(page, k) # Miss /\ Answer(page', k) = Miss =>
                    \/ Answer(page, k).id = "BIN"
                    \/ \A i \in DOMAIN chain : chain[i].key # k
                    \/ 4 * page'.room < PageSize
                    \/ page'.room < SizeOf(Answer(page, k).value)
                    \/ page'.room < LargerBucket(page', k)]_vars
  BY Steps DEF LosesOnly, Tight
<1> QED BY <1>1, Invariance, PTL DEF Spec, SwapLosesOnly

=============================================================================
