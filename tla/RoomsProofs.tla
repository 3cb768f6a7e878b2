------------------------------ MODULE RoomsProofs ------------------------------
(***************************************************************************)
(* Proofs about the rooms, for every number of slots, rooms and members and *)
(* every depth of the callbacks: the two halves of a membership agree, the  *)
(* close callbacks call each other without end only when two members of a   *)
(* room cannot be reached, and a message reaches those it is for.  The      *)
(* chains of rooms and of members are lists by the lemmas of ChainProofs.   *)
(***************************************************************************)
EXTENDS Rooms, FiniteSetTheorems, WellFoundedInduction, NaturalsInduction, TLAPS

\* the lemmas about the chain of the rooms, and about those of the members
N == INSTANCE ChainProofs WITH Capacity <- MaxRooms, Values <- {None}, NoValue <- None,
         chain <- router.nodes, at <- None, visited <- << >>, expected <- << >>
M == INSTANCE ChainProofs WITH Capacity <- RoomCapacity,
         Values <- Slots \cup {NoSlot}, NoValue <- First,
         chain <- router.nodes, at <- None, visited <- << >>, expected <- << >>

\* the rooms in use, and the blocks of a room that are
Known(R)   == N!InUse(R.nodes)
Held(R, r) == M!InUse(R.rooms[r].members)

\* what a router is made of
RoomTables  == [Nodes!Blocks -> [members : Members!Chains, over : BOOLEAN]]
PlaceTables == [Slots -> [room : Int, block : Int]]
Routers     == [nodes : Nodes!Chains, rooms : RoomTables, index : SUBSET Nodes!Blocks,
                places : PlaceTables, ids : SUBSET Slots]

\* The router is sound: its chains are lists, its names are those of rooms in use, every
\* place is the block in use that holds the slot, every block in use is its slot's place.
Agree(R) ==
    /\ R \in Routers
    /\ N!IsList(R.nodes) /\ \A r \in Nodes!Blocks : M!IsList(R.rooms[r].members)
    /\ R.index \subseteq Known(R)
    /\ \A i \in Slots : InRoom(R, i) =>
         /\ R.places[i].room \in Known(R)
         /\ R.places[i].block \in Held(R, R.places[i].room)
         /\ R.rooms[R.places[i].room].members.data[R.places[i].block] = i
    /\ \A r \in Nodes!Blocks : \A b \in Held(R, r) :
         /\ R.rooms[r].members.data[b] \in Slots
         /\ R.places[R.rooms[r].members.data[b]] = [room |-> r, block |-> b]

-----------------------------------------------------------------------------
\* What the assumption says of the bounds.
LEMMA Bounds ==
    /\ MaxRooms \in Nat \ {0} /\ RoomCapacity \in Nat \ {0}
    /\ None = -1 /\ First \in Slots /\ NoSlot \notin Slots
    /\ Nodes!Blocks = 0 .. MaxRooms /\ Members!Blocks = 0 .. RoomCapacity
    /\ None \notin Nodes!Blocks /\ None \notin Members!Blocks
BY RoomsAssumption DEF None, Nodes!Blocks, Members!Blocks

\* The chains of this module are the ones ChainProofs is about: the rooms,
LEMMA SameNodes ==
    /\ N!Blocks = Nodes!Blocks /\ N!None = None /\ N!Chains = Nodes!Chains
    /\ N!NewChain = Nodes!NewChain
    /\ \A c, v : /\ N!AddChain(c, v) = Nodes!AddChain(c, v)
                 /\ N!FreeBlock(c) = Nodes!FreeBlock(c)
                 /\ N!RemoveChain(c, v) = Nodes!RemoveChain(c, v)
                 /\ N!NextBlock(c, v) = Nodes!NextBlock(c, v)
<1>1. N!Blocks = Nodes!Blocks /\ N!None = Nodes!None /\ N!None = None
  BY DEF N!Blocks, Nodes!Blocks, N!None, Nodes!None, None
<1>2. N!Chains = Nodes!Chains /\ N!NewChain = Nodes!NewChain
  BY <1>1 DEF N!Chains, Nodes!Chains, N!NewChain, Nodes!NewChain
<1>3. ASSUME NEW c, NEW v
      PROVE  /\ N!FreeBlock(c) = Nodes!FreeBlock(c)
             /\ N!AddChain(c, v) = Nodes!AddChain(c, v)
             /\ N!NextBlock(c, v) = Nodes!NextBlock(c, v)
  BY <1>1 DEF N!FreeBlock, Nodes!FreeBlock, N!AddChain, Nodes!AddChain, N!NextBlock,
              Nodes!NextBlock
<1>4. ASSUME NEW c, NEW v
      PROVE  N!RemoveChain(c, v) = Nodes!RemoveChain(c, v)
  <2>1. N!Requeue(c, v) = Nodes!Requeue(c, v)
    BY Zenon DEF N!Requeue, Nodes!Requeue, N!Blocks, Nodes!Blocks, N!None, Nodes!None
  <2> QED BY <1>1, <2>1, Zenon DEF N!RemoveChain, Nodes!RemoveChain
<1> QED BY <1>1, <1>2, <1>3, <1>4

\* and the members of a room.
LEMMA SameMembers ==
    /\ M!Blocks = Members!Blocks /\ M!None = None /\ M!Chains = Members!Chains
    /\ M!NewChain = Members!NewChain
    /\ \A c, v : /\ M!AddChain(c, v) = Members!AddChain(c, v)
                 /\ M!FreeBlock(c) = Members!FreeBlock(c)
                 /\ M!RemoveChain(c, v) = Members!RemoveChain(c, v)
                 /\ M!NextBlock(c, v) = Members!NextBlock(c, v)
<1>1. M!Blocks = Members!Blocks /\ M!None = Members!None /\ M!None = None
  BY DEF M!Blocks, Members!Blocks, M!None, Members!None, None
<1>2. M!Chains = Members!Chains /\ M!NewChain = Members!NewChain
  BY <1>1 DEF M!Chains, Members!Chains, M!NewChain, Members!NewChain
<1>3. ASSUME NEW c, NEW v
      PROVE  /\ M!FreeBlock(c) = Members!FreeBlock(c)
             /\ M!AddChain(c, v) = Members!AddChain(c, v)
             /\ M!NextBlock(c, v) = Members!NextBlock(c, v)
  BY <1>1 DEF M!FreeBlock, Members!FreeBlock, M!AddChain, Members!AddChain, M!NextBlock,
              Members!NextBlock
<1>4. ASSUME NEW c, NEW v
      PROVE  M!RemoveChain(c, v) = Members!RemoveChain(c, v)
  <2>1. M!Requeue(c, v) = Members!Requeue(c, v)
    BY Zenon DEF M!Requeue, Members!Requeue, M!Blocks, Members!Blocks, M!None, Members!None
  <2> QED BY <1>1, <2>1, Zenon DEF M!RemoveChain, Members!RemoveChain
<1> QED BY <1>1, <1>2, <1>3, <1>4

\* The rooms in use, under the functions of the chain.
LEMMA NodesAre ==
    /\ N!IsList(Nodes!NewChain) /\ N!InUse(Nodes!NewChain) = {}
    /\ \A c : N!IsList(c) => /\ c \in Nodes!Chains /\ N!InUse(c) \subseteq Nodes!Blocks
    /\ \A c : N!IsList(c) /\ Nodes!FreeBlock(c) # None =>
         /\ Nodes!FreeBlock(c) \in Nodes!Blocks \ N!InUse(c)
         /\ N!IsList(Nodes!AddChain(c, None))
         /\ N!InUse(Nodes!AddChain(c, None)) = N!InUse(c) \cup {Nodes!FreeBlock(c)}
    /\ \A c : N!IsList(c) => \A b \in N!InUse(c) :
         /\ N!IsList(Nodes!RemoveChain(c, b))
         /\ N!InUse(Nodes!RemoveChain(c, b)) = N!InUse(c) \ {b}
<1>1. N!IsList(Nodes!NewChain) /\ N!InUse(Nodes!NewChain) = {}
  BY N!NewInUse, Bounds, SameNodes
<1>2. ASSUME NEW c, N!IsList(c)
      PROVE  c \in Nodes!Chains /\ N!InUse(c) \subseteq Nodes!Blocks
  BY <1>2, N!ListFields, Bounds, SameNodes
<1>3. ASSUME NEW c, N!IsList(c), Nodes!FreeBlock(c) # None
      PROVE  /\ Nodes!FreeBlock(c) \in Nodes!Blocks \ N!InUse(c)
             /\ N!IsList(Nodes!AddChain(c, None))
             /\ N!InUse(Nodes!AddChain(c, None)) = N!InUse(c) \cup {Nodes!FreeBlock(c)}
  <2>1. None \in {None} /\ N!FreeBlock(c) # N!None
    BY <1>3, SameNodes
  <2> QED BY <1>3, <2>1, N!AddInUse, Bounds, SameNodes
<1>4. ASSUME NEW c, N!IsList(c), NEW b \in N!InUse(c)
      PROVE  /\ N!IsList(Nodes!RemoveChain(c, b))
             /\ N!InUse(Nodes!RemoveChain(c, b)) = N!InUse(c) \ {b}
  BY <1>4, N!RemoveInUse, Bounds, SameNodes
<1> QED BY <1>1, <1>2, <1>3, <1>4

\* The blocks of a room, under the functions of the chain.
LEMMA MembersAre ==
    /\ M!IsList(Members!NewChain) /\ M!InUse(Members!NewChain) = {}
    /\ \A c : M!IsList(c) => /\ c \in Members!Chains /\ M!InUse(c) \subseteq Members!Blocks
                             /\ Members!NextBlock(c, None) = None <=> M!InUse(c) = {}
    /\ \A c : M!IsList(c) /\ Members!FreeBlock(c) # None => \A i \in Slots :
         /\ Members!FreeBlock(c) \in Members!Blocks \ M!InUse(c)
         /\ M!IsList(Members!AddChain(c, i))
         /\ M!InUse(Members!AddChain(c, i)) = M!InUse(c) \cup {Members!FreeBlock(c)}
         /\ Members!AddChain(c, i).data = [c.data EXCEPT ![Members!FreeBlock(c)] = i]
    /\ \A c : M!IsList(c) => \A b \in M!InUse(c) :
         /\ M!IsList(Members!RemoveChain(c, b))
         /\ M!InUse(Members!RemoveChain(c, b)) = M!InUse(c) \ {b}
         /\ Members!RemoveChain(c, b).data = c.data
    /\ \A c : M!IsList(c) => \A b \in Members!Blocks :
         /\ M!IsList([c EXCEPT !.data[b] = NoSlot])
         /\ M!InUse([c EXCEPT !.data[b] = NoSlot]) = M!InUse(c)
         /\ [c EXCEPT !.data[b] = NoSlot].data = [c.data EXCEPT ![b] = NoSlot]
<1>1. M!IsList(Members!NewChain) /\ M!InUse(Members!NewChain) = {}
  BY M!NewInUse, Bounds, SameMembers
<1>2. ASSUME NEW c, M!IsList(c)
      PROVE  /\ c \in Members!Chains /\ M!InUse(c) \subseteq Members!Blocks
             /\ Members!NextBlock(c, None) = None <=> M!InUse(c) = {}
  <2>1. c \in Members!Chains /\ M!InUse(c) \subseteq Members!Blocks
    BY <1>2, M!ListFields, Bounds, SameMembers
  <2>2. M!NextBlock(c, M!None) = M!None <=> M!InUse(c) = {}
    BY <1>2, M!FirstInUse, Bounds
  <2> QED BY <2>1, <2>2, SameMembers
<1>3. ASSUME NEW c, M!IsList(c), Members!FreeBlock(c) # None, NEW i \in Slots
      PROVE  /\ Members!FreeBlock(c) \in Members!Blocks \ M!InUse(c)
             /\ M!IsList(Members!AddChain(c, i))
             /\ M!InUse(Members!AddChain(c, i)) = M!InUse(c) \cup {Members!FreeBlock(c)}
             /\ Members!AddChain(c, i).data = [c.data EXCEPT ![Members!FreeBlock(c)] = i]
  <2>1. i \in Slots \cup {NoSlot} /\ M!FreeBlock(c) # M!None
    BY <1>3, SameMembers
  <2> QED BY <1>3, <2>1, M!AddInUse, Bounds, SameMembers
<1>4. ASSUME NEW c, M!IsList(c), NEW b \in M!InUse(c)
      PROVE  /\ M!IsList(Members!RemoveChain(c, b))
             /\ M!InUse(Members!RemoveChain(c, b)) = M!InUse(c) \ {b}
             /\ Members!RemoveChain(c, b).data = c.data
  BY <1>4, M!RemoveInUse, Bounds, SameMembers
<1>5. ASSUME NEW c, M!IsList(c), NEW b \in Members!Blocks
      PROVE  /\ M!IsList([c EXCEPT !.data[b] = NoSlot])
             /\ M!InUse([c EXCEPT !.data[b] = NoSlot]) = M!InUse(c)
             /\ [c EXCEPT !.data[b] = NoSlot].data = [c.data EXCEPT ![b] = NoSlot]
  <2>1. NoSlot \in Slots \cup {NoSlot} /\ b \in M!Blocks
    BY SameMembers
  <2> QED BY <1>5, <2>1, M!DataInUse, Bounds
<1> QED BY <1>1, <1>2, <1>3, <1>4, <1>5

-----------------------------------------------------------------------------
\* The blocks that a walk over a room finds are those in use.
LEMMA UsedIs == \A c : M!IsList(c) => Used(c) = M!InUse(c)
<1> SUFFICES ASSUME NEW c, M!IsList(c)
             PROVE  Used(c) = M!InUse(c)
  OBVIOUS
<1> DEFINE F(f) == [k \in Members!Blocks |->
                      Members!NextBlock(c, IF k = 0 THEN None ELSE f[k - 1])]
           after == CHOOSE f : f = F(f)
<1>1. PICK o, u : M!ListOf(c, o, u)
  BY DEF M!IsList
<1>2. \E f : f = F(f)
  <2> DEFINE T == Members!Blocks \cup {None}
             h == [b \in T |-> Members!NextBlock(c, b)]
             x == Members!NextBlock(c, None)
  <2>1. h \in [T -> T] /\ x \in T
    <3>1. \A b \in T : Members!NextBlock(c, b) \in T
      <4>1. c \in Members!Chains
        BY MembersAre
      <4> QED BY <4>1, Bounds DEF Members!Chains, Members!NextBlock, Members!None, None
    <3> QED BY <3>1
  <2> HIDE DEF T, h, x
  <2>2. PICK f \in [0 .. RoomCapacity -> T] :
           M!Iterates(f, RoomCapacity, x, h)
    <3>1. RoomCapacity \in Nat \ {0} /\ RoomCapacity \in Nat
      BY Bounds
    <3> QED BY <2>1, <3>1, M!Iterated, Zenon
  <2>3. \A k \in Members!Blocks : f[k] = F(f)[k]
    <3> SUFFICES ASSUME NEW k \in Members!Blocks
                 PROVE  f[k] = Members!NextBlock(c, IF k = 0 THEN None ELSE f[k - 1])
      OBVIOUS
    <3>1. k \in 0 .. RoomCapacity
      BY Bounds
    <3>2. CASE k = 0
      BY <2>2, <3>1, <3>2 DEF M!Iterates, x
    <3>3. CASE k # 0
      <4>1. k - 1 \in 0 .. RoomCapacity
        BY <3>1, <3>3, Bounds
      <4>2. f[k - 1] \in T
        BY <4>1
      <4> QED BY <2>2, <3>1, <3>3, <4>2 DEF h, M!Iterates
    <3> QED BY <3>2, <3>3
  <2>4. f = [k \in Members!Blocks |-> f[k]]
    BY Bounds
  <2> QED BY <2>3, <2>4
<1>3. after = F(after)
  <2> HIDE DEF F
  <2> QED BY <1>2, Zenon
<1>4. Used(c) = {after[k] : k \in {j \in Members!Blocks : \A l \in 0 .. j : after[l] # None}}
  BY Zenon DEF Used
<1> HIDE DEF after
<1>5. after[0] = M!NextBlock(c, M!None)
  BY <1>3, Bounds, SameMembers
<1>6. \A k \in 0 .. RoomCapacity - 1 : after[k + 1] = M!NextBlock(c, after[k])
  <2> SUFFICES ASSUME NEW k \in 0 .. RoomCapacity - 1
               PROVE  after[k + 1] = Members!NextBlock(c, after[k])
    BY SameMembers
  <2>1. k + 1 \in Members!Blocks /\ k + 1 # 0 /\ (k + 1) - 1 = k
    BY Bounds
  <2> QED BY <1>3, <2>1
<1>7. /\ \A k \in 0 .. u - 1 : after[k] = o[k] /\ after[k] # None
      /\ u \in Members!Blocks /\ after[u] = None
  BY <1>1, <1>5, <1>6, M!WalkIs, Bounds, SameMembers
<1>8. M!InUse(c) = {o[k] : k \in 0 .. u - 1}
  BY <1>1, M!InUseIs, Bounds
<1>9. {j \in Members!Blocks : \A l \in 0 .. j : after[l] # None} = 0 .. u - 1
  <2>1. u \in Nat /\ u <= RoomCapacity
    BY <1>7, Bounds
  <2>2. ASSUME NEW j \in Members!Blocks, \A l \in 0 .. j : after[l] # None
        PROVE  j \in 0 .. u - 1
    <3>1. j \in Nat /\ (u <= j => u \in 0 .. j)
      BY <2>1, Bounds
    <3> QED BY <1>7, <2>1, <2>2, <3>1
  <2>3. ASSUME NEW j \in 0 .. u - 1
        PROVE  j \in Members!Blocks /\ \A l \in 0 .. j : after[l] # None
    <3>1. j \in Members!Blocks /\ 0 .. j \subseteq 0 .. u - 1
      BY <2>1, Bounds
    <3> QED BY <1>7, <3>1
  <2> QED BY <2>2, <2>3
<1> QED BY <1>4, <1>7, <1>8, <1>9

\* The order of the rooms: every room in use, once.
LEMMA RoomOrderIs ==
    ASSUME NEW R, N!IsList(R.nodes)
    PROVE  /\ Range(RoomOrder(R)) = Known(R)
           /\ \E n \in Nat : DOMAIN RoomOrder(R) = 1 .. n
<1> DEFINE c == R.nodes
           F(f) == [k \in Nodes!Blocks |->
                      Nodes!NextBlock(R.nodes, IF k = 0 THEN None ELSE f[k - 1])]
           after == CHOOSE f : f = F(f)
           Last(k) == after[k] = None /\ \A j \in 0 .. k - 1 : after[j] # None
           count == CHOOSE k \in Nodes!Blocks : Last(k)
<1>1. PICK o, u : N!ListOf(c, o, u)
  BY DEF N!IsList
<1>2. \E f : f = F(f)
  <2> DEFINE T == Nodes!Blocks \cup {None}
             h == [b \in T |-> Nodes!NextBlock(c, b)]
             x == Nodes!NextBlock(c, None)
  <2>1. h \in [T -> T] /\ x \in T
    <3>1. \A b \in T : Nodes!NextBlock(c, b) \in T
      <4>1. c \in Nodes!Chains
        BY NodesAre
      <4> QED BY <4>1, Bounds DEF Nodes!Chains, Nodes!NextBlock, Nodes!None, None
    <3> QED BY <3>1
  <2> HIDE DEF T, h, x
  <2>2. PICK f \in [0 .. MaxRooms -> T] :
           N!Iterates(f, MaxRooms, x, h)
    <3>1. MaxRooms \in Nat \ {0} /\ MaxRooms \in Nat
      BY Bounds
    <3> QED BY <2>1, <3>1, N!Iterated, Zenon
  <2>3. \A k \in Nodes!Blocks : f[k] = F(f)[k]
    <3> SUFFICES ASSUME NEW k \in Nodes!Blocks
                 PROVE  f[k] = Nodes!NextBlock(c, IF k = 0 THEN None ELSE f[k - 1])
      OBVIOUS
    <3>1. k \in 0 .. MaxRooms
      BY Bounds
    <3>2. CASE k = 0
      BY <2>2, <3>1, <3>2 DEF N!Iterates, x
    <3>3. CASE k # 0
      <4>1. k - 1 \in 0 .. MaxRooms
        BY <3>1, <3>3, Bounds
      <4>2. f[k - 1] \in T
        BY <4>1
      <4> QED BY <2>2, <3>1, <3>3, <4>2 DEF h, N!Iterates
    <3> QED BY <3>2, <3>3
  <2>4. f = [k \in Nodes!Blocks |-> f[k]]
    BY Bounds
  <2> QED BY <2>3, <2>4
<1>3. after = F(after)
  <2> HIDE DEF F
  <2> QED BY <1>2, Zenon
<1>4. RoomOrder(R) = [k \in 1 .. count |-> after[k - 1]]
  BY Zenon DEF RoomOrder
<1> HIDE DEF after
<1>5. after[0] = N!NextBlock(c, N!None)
  BY <1>3, Bounds, SameNodes
<1>6. \A k \in 0 .. MaxRooms - 1 : after[k + 1] = N!NextBlock(c, after[k])
  <2> SUFFICES ASSUME NEW k \in 0 .. MaxRooms - 1
               PROVE  after[k + 1] = Nodes!NextBlock(c, after[k])
    BY SameNodes
  <2>1. k + 1 \in Nodes!Blocks /\ k + 1 # 0 /\ (k + 1) - 1 = k
    BY Bounds
  <2> QED BY <1>3, <2>1
<1>7. /\ \A k \in 0 .. u - 1 : after[k] = o[k] /\ after[k] # None
      /\ u \in Nodes!Blocks /\ after[u] = None
  BY <1>1, <1>5, <1>6, N!WalkIs, Bounds, SameNodes
<1>8. Known(R) = {o[k] : k \in 0 .. u - 1}
  BY <1>1, N!InUseIs, Bounds DEF Known
<1>9. count = u
  <2>1. u \in Nat /\ Last(u)
    BY <1>7, Bounds
  <2>2. ASSUME NEW k \in Nodes!Blocks, Last(k)
        PROVE  k = u
    <3>1. k \in Nat /\ (k < u => k \in 0 .. u - 1) /\ (u < k => u \in 0 .. k - 1)
      BY <2>1, Bounds
    <3> QED BY <1>7, <2>1, <2>2, <3>1
  <2> HIDE DEF Last
  <2> QED BY <1>7, <2>1, <2>2
<1> HIDE DEF count
<1>10. RoomOrder(R) = [k \in 1 .. u |-> after[k - 1]] /\ u \in Nat
  BY <1>4, <1>7, <1>9, Bounds
<1>11. \A k \in 1 .. u : RoomOrder(R)[k] = o[k - 1]
  <2> SUFFICES ASSUME NEW k \in 1 .. u
               PROVE  RoomOrder(R)[k] = o[k - 1]
    OBVIOUS
  <2>1. k - 1 \in 0 .. u - 1
    BY <1>10
  <2> QED BY <1>7, <1>10, <2>1
<1>12. Range(RoomOrder(R)) = {RoomOrder(R)[k] : k \in 1 .. u}
  BY <1>10 DEF Range
<1>13. \A k \in 0 .. u - 1 : k + 1 \in 1 .. u /\ (k + 1) - 1 = k
  BY <1>10
<1>14. \A k \in 1 .. u : k - 1 \in 0 .. u - 1
  BY <1>10
<1> HIDE DEF c
<1>15. Range(RoomOrder(R)) = Known(R)
  BY <1>8, <1>11, <1>12, <1>13, <1>14
<1> QED BY <1>10, <1>15

\* A room is emptied by the loop over its members.
LEMMA EmptiedIs == \A c : M!IsList(c) => M!IsList(Emptied(c)) /\ M!InUse(Emptied(c)) = {}
<1> SUFFICES ASSUME NEW c, M!IsList(c)
             PROVE  M!IsList(Emptied(c)) /\ M!InUse(Emptied(c)) = {}
  OBVIOUS
<1> DEFINE x == [chain |-> c, at |-> Members!NextBlock(c, None)]
           Turn(w) == IF w.at = None THEN w
                      ELSE [chain |-> Members!RemoveChain(
                                         [w.chain EXCEPT !.data[w.at] = NoSlot], w.at),
                            at    |-> Members!NextBlock(w.chain, w.at)]
           F(f) == [k \in 0 .. RoomCapacity |-> IF k = 0 THEN x ELSE LET w == f[k - 1] IN Turn(w)]
           walk == CHOOSE f : f = F(f)
<1>1. \A w : Turn(w) = M!Cleared(w, NoSlot)
  BY SameMembers, Zenon DEF M!Cleared
<1>2. x \in M!Fronts /\ x = [chain |-> c, at |-> M!NextBlock(c, M!None)]
  <2>1. c \in M!Chains /\ M!NextBlock(c, M!None) \in M!Blocks \cup {M!None}
    BY M!ListFields, M!FirstInUse, Bounds
  <2>2. x = [chain |-> c, at |-> M!NextBlock(c, M!None)]
    BY SameMembers
  <2> QED BY <2>1, <2>2 DEF M!Fronts
<1>3. \A w \in M!Fronts : M!Cleared(w, NoSlot) \in M!Fronts
  <2> SUFFICES ASSUME NEW w \in M!Fronts
               PROVE  M!Cleared(w, NoSlot) \in M!Fronts
    OBVIOUS
  <2>1. PICK o, u : M!ListOf(w.chain, o, u)
    BY DEF M!Fronts, M!IsList
  <2> QED BY <2>1, M!ClearedIs, Bounds
<1>4. \E f : f = F(f)
  <2> DEFINE h == [w \in M!Fronts |-> M!Cleared(w, NoSlot)]
  <2>1. h \in [M!Fronts -> M!Fronts]
    BY <1>3
  <2> HIDE DEF h, x
  <2>2. PICK f \in [0 .. RoomCapacity -> M!Fronts] :
           M!Iterates(f, RoomCapacity, x, h)
    <3>1. RoomCapacity \in Nat \ {0} /\ RoomCapacity \in Nat
      BY Bounds
    <3> QED BY <1>2, <2>1, <3>1, M!Iterated, Zenon
  <2> HIDE DEF Turn
  <2>3. \A k \in 0 .. RoomCapacity : f[k] = IF k = 0 THEN x ELSE Turn(f[k - 1])
    <3> SUFFICES ASSUME NEW k \in 0 .. RoomCapacity
                 PROVE  f[k] = IF k = 0 THEN x ELSE Turn(f[k - 1])
      OBVIOUS
    <3>1. k # 0 => f[k - 1] \in M!Fronts
      BY Bounds
    <3> QED BY <1>1, <2>2, <3>1 DEF h, M!Iterates
  <2>4. f = [k \in 0 .. RoomCapacity |-> f[k]]
    OBVIOUS
  <2> QED BY <2>3, <2>4
<1>5. walk = F(walk)
  <2> HIDE DEF F
  <2> QED BY <1>4, Zenon
<1>6. Emptied(c) = walk[RoomCapacity].chain
  BY Zenon DEF Emptied
<1> HIDE DEF walk
<1>7. M!Clears(walk, c, NoSlot)
  <2> SUFFICES ASSUME NEW k \in 0 .. RoomCapacity
               PROVE  walk[k] = IF k = 0 THEN [chain |-> c, at |-> M!NextBlock(c, M!None)]
                                ELSE M!Cleared(walk[k - 1], NoSlot)
    BY DEF M!Clears
  <2>1. walk[k] = IF k = 0 THEN x ELSE Turn(walk[k - 1])
    <3> HIDE DEF x, Turn
    <3> QED BY <1>5
  <2> HIDE DEF x, Turn
  <2> QED BY <1>1, <1>2, <2>1, Zenon
<1>8. M!IsList(walk[RoomCapacity].chain) /\ M!InUse(walk[RoomCapacity].chain) = {}
  BY <1>7, M!ClearedAll, Bounds
<1> QED BY <1>6, <1>8

-----------------------------------------------------------------------------
\* The fields of a router.
LEMMA RouterFields ==
    ASSUME NEW R \in Routers
    PROVE  /\ R.nodes \in Nodes!Chains /\ R.index \subseteq Nodes!Blocks /\ R.ids \subseteq Slots
           /\ R.rooms \in RoomTables /\ R.places \in PlaceTables
           /\ \A r \in Nodes!Blocks : R.rooms[r] \in [members : Members!Chains, over : BOOLEAN]
BY DEF Routers, RoomTables

\* A room with other members, and the other rooms as they were.
LEMMA NewMembers ==
    ASSUME NEW s \in RoomTables, NEW r \in Nodes!Blocks, NEW c \in Members!Chains
    PROVE  LET t == [s EXCEPT ![r].members = c]
           IN  /\ t \in RoomTables
               /\ t[r].members = c /\ t[r].over = s[r].over
               /\ \A q \in Nodes!Blocks : q # r => t[q] = s[q]
<1> DEFINE t == [s EXCEPT ![r].members = c]
           m == [s[r] EXCEPT !.members = c]
<1>1. t = [s EXCEPT ![r] = m]
  BY Zenon
<1>2. s[r] \in [members : Members!Chains, over : BOOLEAN]
  BY DEF RoomTables
<1>3. m \in [members : Members!Chains, over : BOOLEAN] /\ m.members = c /\ m.over = s[r].over
  BY <1>2
<1> HIDE DEF m, t
<1>4. /\ t \in RoomTables /\ t[r] = m
      /\ \A q \in Nodes!Blocks : q # r => t[q] = s[q]
  BY <1>1, <1>3 DEF RoomTables
<1> QED BY <1>3, <1>4 DEF t

\* qs_remove_packet_route_core: the room is not in use any more, and its members have no place.
LEMMA RemoveRoomIs ==
    ASSUME NEW R, Agree(R), NEW r \in Known(R)
    PROVE  /\ Agree(RemoveRoom(R, r))
           /\ \A i \in Slots : RemoveRoom(R, r).places[i] =
                                  IF R.places[i].room = r THEN NoPlace ELSE R.places[i]
<1> DEFINE e == Emptied(R.rooms[r].members)
           s == [R.rooms EXCEPT ![r].members = e]
           n == Nodes!RemoveChain(R.nodes, r)
           x == R.index \ {r}
           p == [i \in Slots |-> IF R.places[i].room = r THEN NoPlace ELSE R.places[i]]
           T == RemoveRoom(R, r)
<1>1. /\ R \in Routers /\ N!IsList(R.nodes) /\ R.index \subseteq Known(R)
      /\ \A q \in Nodes!Blocks : M!IsList(R.rooms[q].members)
  BY DEF Agree
<1>2. r \in Nodes!Blocks /\ Known(R) \subseteq Nodes!Blocks
  BY <1>1, NodesAre DEF Known
<1>3. /\ n \in Nodes!Chains /\ N!IsList(n) /\ N!InUse(n) = Known(R) \ {r}
  BY <1>1, NodesAre DEF Known
<1>4. e \in Members!Chains /\ M!IsList(e) /\ M!InUse(e) = {}
  BY <1>1, <1>2, EmptiedIs, MembersAre
<1>5. /\ s \in RoomTables
      /\ s[r].members = e /\ \A q \in Nodes!Blocks : q # r => s[q] = R.rooms[q]
  <2> HIDE DEF e
  <2> QED BY <1>1, <1>2, <1>4, NewMembers, RouterFields
<1>6. p \in PlaceTables /\ x \in SUBSET Nodes!Blocks
  <2>1. NoPlace \in [room : Int, block : Int]
    BY Bounds DEF NoPlace
  <2> QED BY <1>1, <2>1, RouterFields DEF PlaceTables
<1>7. T = [R EXCEPT !.nodes = n, !.rooms = s, !.index = x, !.places = p]
  BY Zenon DEF RemoveRoom
<1> HIDE DEF e, s, n, x, p, T
<1>8. T \in Routers /\ T.nodes = n /\ T.rooms = s /\ T.index = x /\ T.places = p
  BY <1>1, <1>3, <1>5, <1>6, <1>7 DEF Routers
<1>9. Known(T) = Known(R) \ {r} /\ T.index \subseteq Known(T)
  BY <1>1, <1>3, <1>8 DEF Known, x
<1>10. Held(T, r) = {} /\ \A q \in Nodes!Blocks : q # r => Held(T, q) = Held(R, q)
  BY <1>4, <1>5, <1>8 DEF Held
<1>11. \A i \in Slots : T.places[i] = IF R.places[i].room = r THEN NoPlace ELSE R.places[i]
  BY <1>8 DEF p
<1>12. \A q \in Nodes!Blocks : M!IsList(T.rooms[q].members)
  BY <1>1, <1>4, <1>5, <1>8
<1>13. ASSUME NEW i \in Slots, InRoom(T, i)
       PROVE  /\ T.places[i].room \in Known(T)
              /\ T.places[i].block \in Held(T, T.places[i].room)
              /\ T.rooms[T.places[i].room].members.data[T.places[i].block] = i
  <2>1. T.places[i] = R.places[i] /\ R.places[i].room # r /\ InRoom(R, i)
    BY <1>11, <1>13 DEF InRoom
  <2>2. /\ R.places[i].room \in Known(R) /\ R.places[i].block \in Held(R, R.places[i].room)
        /\ R.rooms[R.places[i].room].members.data[R.places[i].block] = i
    BY <2>1 DEF Agree
  <2> QED BY <1>2, <1>5, <1>8, <1>9, <1>10, <2>1, <2>2
<1>14. ASSUME NEW q \in Nodes!Blocks, NEW b \in Held(T, q)
       PROVE  /\ T.rooms[q].members.data[b] \in Slots
              /\ T.places[T.rooms[q].members.data[b]] = [room |-> q, block |-> b]
  <2>1. q # r /\ b \in Held(R, q) /\ T.rooms[q] = R.rooms[q]
    BY <1>5, <1>8, <1>10, <1>14
  <2>2. /\ R.rooms[q].members.data[b] \in Slots
        /\ R.places[R.rooms[q].members.data[b]] = [room |-> q, block |-> b]
    BY <2>1 DEF Agree
  <2>3. R.places[R.rooms[q].members.data[b]].room # r
    BY <2>1, <2>2
  <2> QED BY <1>11, <2>1, <2>2, <2>3
<1>15. Agree(T)
  BY <1>3, <1>8, <1>9, <1>12, <1>13, <1>14 DEF Agree
<1> QED BY <1>11, <1>15 DEF T

\* The first of some rooms is removed, if there is one.
LEMMA RemoveFirstIs == ASSUME NEW R, Agree(R), NEW S PROVE Agree(RemoveFirst(R, S))
<1> DEFINE order == RoomOrder(R)
           found == {k \in DOMAIN order : order[k] \in S}
           First1 == CHOOSE k \in found : \A j \in found : k <= j
<1>1. RemoveFirst(R, S) = IF found = {} THEN R ELSE RemoveRoom(R, order[First1])
  BY DEF RemoveFirst
<1>2. PICK n \in Nat : DOMAIN order = 1 .. n
  BY RoomOrderIs DEF Agree
<1>3. Range(order) = Known(R)
  BY RoomOrderIs DEF Agree
<1>4. ASSUME found # {}
      PROVE  First1 \in DOMAIN order
  <2>1. found \subseteq Nat
    BY <1>2
  <2>2. PICK m \in found : \A y \in found : <<y, m>> \notin OpToRel(<, Nat)
    BY <1>4, <2>1, NatLessThanWellFounded, WFMin
  <2> HIDE DEF found
  <2>3. \A j \in found : m <= j
    <3> SUFFICES ASSUME NEW j \in found
                 PROVE  m <= j
      OBVIOUS
    <3>1. j \in Nat /\ m \in Nat /\ <<j, m>> \notin OpToRel(<, Nat)
      BY <2>1, <2>2
    <3>2. ~(j < m)
      BY <3>1 DEF OpToRel
    <3>3. j \in Nat /\ m \in Nat
      BY <2>1, <2>2
    <3> QED BY <3>2, <3>3
  <2>4. First1 \in found
    BY <2>2, <2>3
  <2> QED BY <2>4 DEF found
<1>5. ASSUME found # {}
      PROVE  order[First1] \in Known(R)
  <2> HIDE DEF found
  <2> QED BY <1>3, <1>4, <1>5 DEF Range
<1> HIDE DEF found, order, First1
<1> QED BY <1>1, <1>5, RemoveRoomIs

\* qs_create_packet_route: a room that was not in use, with no members.
LEMMA CreateRoomIs == ASSUME NEW R, Agree(R), NEW lost PROVE Agree(CreateRoom(R, lost))
<1> DEFINE S == IF Nodes!FreeBlock(R.nodes) = None THEN Clean(R) ELSE R
           r == Nodes!FreeBlock(S.nodes)
           n == Nodes!AddChain(S.nodes, None)
           s == [S.rooms EXCEPT ![r].over = FALSE]
           x == (S.index \ lost) \cup {r}
           T == [S EXCEPT !.nodes = n, !.rooms = s, !.index = x]
<1>1. Agree(S)
  BY RemoveFirstIs DEF Clean
<1>2. CreateRoom(R, lost) = IF r = None THEN S ELSE T
  <2>1. CreateRoom(R, lost) =
          IF r = None THEN S
          ELSE [S EXCEPT !.nodes = Nodes!AddChain(@, None), !.rooms[r].over = FALSE,
                         !.index = (@ \ lost) \cup {r}]
    BY Zenon DEF CreateRoom
  <2> HIDE DEF S
  <2> QED BY <2>1, Zenon
<1> HIDE DEF S
<1>3. /\ S \in Routers /\ N!IsList(S.nodes) /\ S.index \subseteq Known(S)
      /\ \A q \in Nodes!Blocks : M!IsList(S.rooms[q].members)
  BY <1>1 DEF Agree
<1>4. ASSUME r # None
      PROVE  Agree(T)
  <2>1. /\ r \in Nodes!Blocks /\ n \in Nodes!Chains /\ N!IsList(n)
        /\ N!InUse(n) = Known(S) \cup {r} /\ Known(S) \subseteq Nodes!Blocks
    BY <1>3, <1>4, NodesAre DEF Known
  <2>2. /\ s \in RoomTables /\ \A q \in Nodes!Blocks : s[q].members = S.rooms[q].members
    <3> DEFINE m == [S.rooms[r] EXCEPT !.over = FALSE]
    <3>1. s = [S.rooms EXCEPT ![r] = m]
      BY Zenon
    <3>2. S.rooms[r] \in [members : Members!Chains, over : BOOLEAN] /\ S.rooms \in RoomTables
      BY <1>3, <2>1, RouterFields
    <3>3. m \in [members : Members!Chains, over : BOOLEAN] /\ m.members = S.rooms[r].members
      BY <3>2
    <3> HIDE DEF m, s
    <3> QED BY <2>1, <3>1, <3>2, <3>3 DEF RoomTables
  <2>3. x \in SUBSET Nodes!Blocks /\ x \subseteq Known(S) \cup {r}
    BY <1>3, <2>1
  <2> HIDE DEF r, n, s, x
  <2>4. /\ T \in Routers /\ T.nodes = n /\ T.rooms = s /\ T.index = x /\ T.places = S.places
    BY <1>3, <2>1, <2>2, <2>3 DEF Routers
  <2> HIDE DEF T
  <2>5. Known(T) = Known(S) \cup {r} /\ \A q \in Nodes!Blocks : Held(T, q) = Held(S, q)
    BY <2>1, <2>2, <2>4 DEF Known, Held
  <2>6. \A q \in Nodes!Blocks : T.rooms[q].members = S.rooms[q].members
    BY <2>2, <2>4
  <2>7. ASSUME NEW i \in Slots, InRoom(T, i)
        PROVE  /\ T.places[i].room \in Known(T)
               /\ T.places[i].block \in Held(T, T.places[i].room)
               /\ T.rooms[T.places[i].room].members.data[T.places[i].block] = i
    <3>1. /\ S.places[i].room \in Known(S) /\ S.places[i].block \in Held(S, S.places[i].room)
          /\ S.rooms[S.places[i].room].members.data[S.places[i].block] = i
      BY <1>1, <2>4, <2>7 DEF Agree, InRoom
    <3> QED BY <2>1, <2>4, <2>5, <2>6, <3>1
  <2>8. \A q \in Nodes!Blocks : \A b \in Held(T, q) :
          /\ T.rooms[q].members.data[b] \in Slots
          /\ T.places[T.rooms[q].members.data[b]] = [room |-> q, block |-> b]
    BY <1>1, <2>4, <2>5, <2>6 DEF Agree
  <2> QED BY <1>3, <2>1, <2>3, <2>4, <2>5, <2>6, <2>7, <2>8 DEF Agree
<1> HIDE DEF T, r
<1> QED BY <1>1, <1>2, <1>4

\* qs_add_packet_route_connection: a slot that was in no room has its place in this one.
LEMMA AddConnectionIs ==
    ASSUME NEW R, Agree(R), NEW r \in Known(R), NEW i \in Slots, ~InRoom(R, i),
           Members!FreeBlock(R.rooms[r].members) # None
    PROVE  Agree(AddConnection(R, r, i))
<1> DEFINE c == R.rooms[r].members
           b == Members!FreeBlock(c)
           a == Members!AddChain(c, i)
           s == [R.rooms EXCEPT ![r].members = a]
           h == [room |-> r, block |-> b]
           p == [R.places EXCEPT ![i] = h]
           T == AddConnection(R, r, i)
<1>1. /\ R \in Routers /\ N!IsList(R.nodes) /\ R.index \subseteq Known(R)
      /\ \A q \in Nodes!Blocks : M!IsList(R.rooms[q].members)
  BY DEF Agree
<1>2. r \in Nodes!Blocks /\ Known(R) \subseteq Nodes!Blocks
  BY <1>1, NodesAre DEF Known
<1>3. /\ b \in Members!Blocks \ Held(R, r) /\ a \in Members!Chains /\ M!IsList(a)
      /\ M!InUse(a) = Held(R, r) \cup {b} /\ a.data = [c.data EXCEPT ![b] = i]
  BY <1>1, <1>2, MembersAre DEF Held
<1>4. /\ s \in RoomTables
      /\ s[r].members = a /\ \A q \in Nodes!Blocks : q # r => s[q] = R.rooms[q]
  <2> HIDE DEF a
  <2> QED BY <1>1, <1>2, <1>3, NewMembers, RouterFields
<1>5. h \in [room : Int, block : Int] /\ h # NoPlace /\ h.room = r /\ h.block = b
  BY <1>2, <1>3, Bounds DEF NoPlace
<1>6. p \in PlaceTables /\ p[i] = h /\ \A j \in Slots : j # i => p[j] = R.places[j]
  <2> HIDE DEF h
  <2> QED BY <1>1, <1>5, RouterFields DEF PlaceTables
<1>7. T = [R EXCEPT !.rooms = s, !.places = p]
  BY Zenon DEF AddConnection
<1> HIDE DEF a, s, h, p, T
<1>8. /\ T \in Routers /\ T.nodes = R.nodes /\ T.rooms = s /\ T.index = R.index /\ T.places = p
  BY <1>1, <1>4, <1>6, <1>7 DEF Routers
<1>9. Known(T) = Known(R)
  BY <1>8 DEF Known
<1>10. Held(T, r) = Held(R, r) \cup {b} /\ \A q \in Nodes!Blocks : q # r => Held(T, q) = Held(R, q)
  BY <1>3, <1>4, <1>8 DEF Held
<1>11. \A q \in Nodes!Blocks : M!IsList(T.rooms[q].members)
  BY <1>1, <1>3, <1>4, <1>8
<1>12. c.data \in [Members!Blocks -> (Slots \cup {NoSlot}) \cup {First}]
  BY <1>1, <1>2, MembersAre DEF Members!Chains
<1>13. T.rooms[r].members.data[b] = i /\ \A d \in Members!Blocks : d # b => a.data[d] = c.data[d]
  <2> HIDE DEF c, b
  <2> QED BY <1>3, <1>4, <1>8, <1>12
<1>14. Held(R, r) \subseteq Members!Blocks
  BY <1>1, <1>2, MembersAre DEF Held
<1>15. ASSUME NEW q \in Nodes!Blocks, NEW d \in Held(R, q)
       PROVE  d \in Held(T, q) /\ T.rooms[q].members.data[d] = R.rooms[q].members.data[d]
  <2>1. CASE q = r
    <3>1. d # b /\ d \in Members!Blocks
      BY <1>3, <1>14, <1>15, <2>1
    <3> QED BY <1>4, <1>8, <1>10, <1>13, <1>15, <2>1, <3>1
  <2>2. CASE q # r
    BY <1>4, <1>8, <1>10, <1>15, <2>2
  <2> QED BY <2>1, <2>2
<1> HIDE DEF b, c
<1>16. ASSUME NEW j \in Slots, InRoom(T, j)
       PROVE  /\ T.places[j].room \in Known(T)
              /\ T.places[j].block \in Held(T, T.places[j].room)
              /\ T.rooms[T.places[j].room].members.data[T.places[j].block] = j
  <2>1. CASE j = i
    BY <1>5, <1>6, <1>8, <1>9, <1>10, <1>13, <2>1
  <2>2. CASE j # i
    <3>1. /\ T.places[j] = R.places[j]
          /\ R.places[j].room \in Known(R) /\ R.places[j].block \in Held(R, R.places[j].room)
          /\ R.rooms[R.places[j].room].members.data[R.places[j].block] = j
      BY <1>6, <1>8, <1>16, <2>2 DEF Agree, InRoom
    <3> QED BY <1>2, <1>9, <1>15, <3>1
  <2> QED BY <2>1, <2>2
<1>17. ASSUME NEW q \in Nodes!Blocks, NEW d \in Held(T, q)
       PROVE  /\ T.rooms[q].members.data[d] \in Slots
              /\ T.places[T.rooms[q].members.data[d]] = [room |-> q, block |-> d]
  <2>1. CASE d \in Held(R, q)
    <3>1. /\ R.rooms[q].members.data[d] \in Slots
          /\ R.places[R.rooms[q].members.data[d]] = [room |-> q, block |-> d]
      BY <2>1 DEF Agree
    <3>2. R.rooms[q].members.data[d] # i
      <4>1. [room |-> q, block |-> d] # NoPlace
        BY Bounds DEF NoPlace
      <4> QED BY <3>1, <4>1 DEF InRoom
    <3> QED BY <1>6, <1>8, <1>15, <2>1, <3>1, <3>2
  <2>2. CASE d \notin Held(R, q)
    <3>1. q = r /\ d = b
      BY <1>10, <1>17, <2>2
    <3> QED BY <1>6, <1>8, <1>13, <3>1 DEF h
  <2> QED BY <2>1, <2>2
<1>18. Agree(T)
  BY <1>1, <1>8, <1>9, <1>11, <1>16, <1>17 DEF Agree
<1> QED BY <1>18 DEF T

\* the members of a room without the block b, which is written over
Without(c, b) == [Members!RemoveChain(c, b) EXCEPT !.data[b] = NoSlot]

\* In T, the room that i had in R is nobody's any more, or it has lost the block of i.
Leaves(R, T, i) ==
    \/ \A j \in Slots : T.places[j].room # R.places[i].room
    \/ T.rooms[R.places[i].room].members = Without(R.rooms[R.places[i].room].members,
                                                   R.places[i].block)

\* qs_remove_packet_route_connection: the slot has no place any more, and nobody else's is lost,
\* though the room may go with its last member.
LEMMA RemoveConnectionIs ==
    ASSUME NEW R, Agree(R), NEW i \in Slots, InRoom(R, i)
    PROVE  /\ Agree(RemoveConnection(R, i))
           /\ RemoveConnection(R, i).places[i] = NoPlace
           /\ \A j \in Slots : j # i => RemoveConnection(R, i).places[j] = R.places[j]
           /\ Leaves(R, RemoveConnection(R, i), i)
<1> DEFINE r == R.places[i].room
           b == R.places[i].block
           c == Members!RemoveChain(R.rooms[r].members, b)
           d == [c EXCEPT !.data[b] = NoSlot]
           s == [R.rooms EXCEPT ![r].members = d]
           p == [R.places EXCEPT ![i] = NoPlace]
           S == [R EXCEPT !.rooms = s, !.places = p]
<1>1. /\ R \in Routers /\ N!IsList(R.nodes) /\ R.index \subseteq Known(R)
      /\ \A q \in Nodes!Blocks : M!IsList(R.rooms[q].members)
      /\ r \in Known(R) /\ b \in Held(R, r) /\ R.rooms[r].members.data[b] = i
  BY DEF Agree
<1>2. r \in Nodes!Blocks /\ Known(R) \subseteq Nodes!Blocks
  BY <1>1, NodesAre DEF Known
<1>3. RemoveConnection(R, i) =
        IF Vacant(S, r) /\ S.rooms[r].over THEN RemoveRoom(S, r) ELSE S
  <2>1. RemoveConnection(R, i) =
          LET U == [R EXCEPT !.rooms[r].members = [c EXCEPT !.data[b] = NoSlot],
                             !.places[i] = NoPlace]
          IN  IF Vacant(U, r) /\ U.rooms[r].over THEN RemoveRoom(U, r) ELSE U
    BY Zenon DEF RemoveConnection
  <2> QED BY <2>1, Zenon
<1> HIDE DEF r, b
<1>4. /\ M!IsList(c) /\ M!InUse(c) = Held(R, r) \ {b} /\ c.data = R.rooms[r].members.data
      /\ b \in Members!Blocks /\ Held(R, r) \subseteq Members!Blocks
  BY <1>1, <1>2, MembersAre DEF Held
<1>5. /\ M!IsList(d) /\ M!InUse(d) = Held(R, r) \ {b} /\ d \in Members!Chains
      /\ d.data = [R.rooms[r].members.data EXCEPT ![b] = NoSlot]
  <2> HIDE DEF c
  <2> QED BY <1>4, MembersAre
<1>6. /\ s \in RoomTables
      /\ s[r].members = d /\ \A q \in Nodes!Blocks : q # r => s[q] = R.rooms[q]
  <2> HIDE DEF d
  <2> QED BY <1>1, <1>2, <1>5, NewMembers, RouterFields
<1>7. p \in PlaceTables /\ p[i] = NoPlace /\ \A j \in Slots : j # i => p[j] = R.places[j]
  <2>1. NoPlace \in [room : Int, block : Int]
    BY Bounds DEF NoPlace
  <2> QED BY <1>1, <2>1, RouterFields DEF PlaceTables
<1> HIDE DEF c, d, s, p
<1>8. S \in Routers /\ S.nodes = R.nodes /\ S.rooms = s /\ S.index = R.index /\ S.places = p
  BY <1>1, <1>6, <1>7 DEF Routers
<1> HIDE DEF S
<1>9. Known(S) = Known(R)
  BY <1>8 DEF Known
<1>10. Held(S, r) = Held(R, r) \ {b} /\ \A q \in Nodes!Blocks : q # r => Held(S, q) = Held(R, q)
  BY <1>5, <1>6, <1>8 DEF Held
<1>11. \A q \in Nodes!Blocks : M!IsList(S.rooms[q].members)
  BY <1>1, <1>5, <1>6, <1>8
<1>12. ASSUME NEW q \in Nodes!Blocks, NEW x \in Held(S, q)
       PROVE  x \in Held(R, q) /\ S.rooms[q].members.data[x] = R.rooms[q].members.data[x]
  <2>1. CASE q = r
    <3>1. x # b /\ x \in Members!Blocks /\ x \in Held(R, r)
      BY <1>4, <1>10, <1>12, <2>1
    <3>2. R.rooms[r].members.data \in [Members!Blocks -> (Slots \cup {NoSlot}) \cup {First}]
      BY <1>1, <1>2, MembersAre DEF Members!Chains
    <3>3. d.data[x] = R.rooms[r].members.data[x]
      BY <1>4, <1>5, <3>1, <3>2
    <3> QED BY <1>6, <1>8, <2>1, <3>1, <3>3
  <2>2. CASE q # r
    BY <1>6, <1>8, <1>10, <1>12, <2>2
  <2> QED BY <2>1, <2>2
<1>13. ASSUME NEW q \in Nodes!Blocks, NEW x \in Held(S, q)
       PROVE  /\ S.rooms[q].members.data[x] \in Slots
              /\ S.places[S.rooms[q].members.data[x]] = [room |-> q, block |-> x]
  <2>1. /\ x \in Held(R, q) /\ S.rooms[q].members.data[x] = R.rooms[q].members.data[x]
        /\ R.rooms[q].members.data[x] \in Slots
        /\ R.places[R.rooms[q].members.data[x]] = [room |-> q, block |-> x]
    BY <1>12 DEF Agree
  <2>2. R.rooms[q].members.data[x] # i
    <3>1. R.places[i].room = r /\ R.places[i].block = b
      BY DEF r, b
    <3>2. ~(q = r /\ x = b)
      BY <1>10, <1>13
    <3> QED BY <2>1, <3>1, <3>2
  <2> QED BY <1>7, <1>8, <2>1, <2>2
<1>14. ASSUME NEW j \in Slots, InRoom(S, j)
       PROVE  /\ S.places[j].room \in Known(S)
              /\ S.places[j].block \in Held(S, S.places[j].room)
              /\ S.rooms[S.places[j].room].members.data[S.places[j].block] = j
  <2>1. j # i /\ S.places[j] = R.places[j] /\ InRoom(R, j)
    BY <1>7, <1>8, <1>14 DEF InRoom
  <2>2. /\ R.places[j].room \in Known(R) /\ R.places[j].block \in Held(R, R.places[j].room)
        /\ R.rooms[R.places[j].room].members.data[R.places[j].block] = j
    BY <2>1 DEF Agree
  <2>3. ~(R.places[j].room = r /\ R.places[j].block = b)
    BY <1>1, <2>1, <2>2
  <2>4. R.places[j].block \in Held(S, R.places[j].room)
    BY <1>2, <1>10, <2>2, <2>3
  <2> QED BY <1>2, <1>9, <1>12, <2>1, <2>2, <2>4
<1>15. Agree(S)
  BY <1>1, <1>8, <1>9, <1>11, <1>13, <1>14 DEF Agree
<1>16. ASSUME Vacant(S, r)
       PROVE  \A j \in Slots : S.places[j].room # r
  <2>1. Held(S, r) = {}
    BY <1>2, <1>11, <1>16, MembersAre DEF Vacant, Held
  <2>2. NoPlace.room # r
    BY <1>2, Bounds DEF NoPlace
  <2> QED BY <1>14, <2>1, <2>2 DEF InRoom
<1>17. CASE Vacant(S, r) /\ S.rooms[r].over
  <2>1. RemoveConnection(R, i) = RemoveRoom(S, r) /\ r \in Known(S)
    BY <1>1, <1>3, <1>9, <1>17
  <2>2. \A j \in Slots : RemoveRoom(S, r).places[j] = S.places[j]
    BY <1>15, <1>16, <1>17, <2>1, RemoveRoomIs
  <2>3. \A j \in Slots : RemoveRoom(S, r).places[j].room # R.places[i].room
    BY <1>16, <1>17, <2>2 DEF r
  <2>4. Leaves(R, RemoveRoom(S, r), i)
    BY <2>3 DEF Leaves
  <2> QED BY <1>7, <1>8, <1>15, <2>1, <2>2, <2>4, RemoveRoomIs
<1>18. CASE ~(Vacant(S, r) /\ S.rooms[r].over)
  <2>1. S.rooms[r].members = Without(R.rooms[r].members, b)
    BY <1>6, <1>8, Zenon DEF Without, c, d
  <2>2. Leaves(R, S, i)
    BY <2>1 DEF Leaves, r, b
  <2> QED BY <1>3, <1>7, <1>8, <1>15, <1>18, <2>2
<1> QED BY <1>17, <1>18

-----------------------------------------------------------------------------
\* the members of the room of slot i
Room(R, i) == R.rooms[R.places[i].room].members

\* In the list c, block b is behind the place "at" of a walk.
Ahead(c, at, b) ==
    \E o, u : /\ M!ListOf(c, o, u)
              /\ \E q \in 0 .. u - 1 :
                    o[q] = b /\ (at = None \/ \E p \in 0 .. q - 1 : at = o[p])

\* The connections and the calls under way have their types.
Connections == [open : BOOLEAN, alive : BOOLEAN, phase : {"http", "shaken", "ws"}]
Frames == [kind : {"http", "say", "join", "close"}, who : Slots, at : Members!Blocks \cup {None},
           heard : Seq(Slots), closed : BOOLEAN, due : SUBSET Slots, full : BOOLEAN]
Typed ==
    /\ conns \in [Slots -> Connections] /\ stack \in Seq(Frames) /\ crashed \in BOOLEAN

\* A close that was called from a walk is that of a member who speaks websocket and cannot be
\* reached, and not of the one whose close the walk is; above a message or a close there are
\* only closes.
Nested(C, S) ==
    \A m \in 1 .. Len(S) :
        /\ S[m].kind = "close" => ~C[S[m].who].alive
        /\ m > 1 => /\ S[m].kind \in {"join", "close"}
                    /\ S[m].kind = "close" => C[S[m].who].phase = "ws"
                    /\ S[m].kind = "close" /\ S[m - 1].kind = "close" =>
                          S[m].who # S[m - 1].who
        /\ \A l \in 1 .. m - 1 : S[l].kind # "http" => S[m].kind = "close"

\* The walk of the close that is under way stands in its room, which nothing has changed
\* since it began, if its slot can be sent to; and if it was called from the close of another
\* slot that can be sent to, that slot is a member of the room the walk has still to come to.
\* So this walk does not end.
Walks(R, C, S) ==
    LET t == Len(S)
        i == S[t].who
        j == S[t - 1].who
    IN  t > 0 /\ S[t].kind = "close" =>
          /\ C[i].phase = "ws" /\ S[t].at # None =>
                InRoom(R, i) /\ S[t].at \in M!InUse(Room(R, i))
          /\ t > 1 /\ S[t - 1].kind = "close" /\ C[j].phase = "ws" =>
                /\ InRoom(R, i) /\ InRoom(R, j) /\ R.places[i].room = R.places[j].room
                /\ Ahead(Room(R, i), S[t].at, R.places[j].block)

\* A close that has begun to walk has its place still.
Placed(R, S) ==
    \A m \in 1 .. Len(S) : S[m].kind = "close" /\ S[m].at # None => InRoom(R, S[m].who)

\* The inductive invariant.
IInv ==
    /\ Typed /\ Agree(router)
    /\ Nested(conns, stack) /\ Walks(router, conns, stack) /\ Placed(router, stack)

-----------------------------------------------------------------------------
\* A walk goes from a block in use to the next one.
LEMMA NextInUse ==
    ASSUME NEW c, M!IsList(c)
    PROVE  /\ \A at \in M!InUse(c) \cup {None} : Members!NextBlock(c, at) \in M!InUse(c) \cup {None}
           /\ \A at \in Members!Blocks \cup {None} :
                Members!NextBlock(c, at) \in Members!Blocks \cup {None}
           /\ None \notin M!InUse(c)
<1>1. PICK o, u : M!ListOf(c, o, u)
  BY DEF M!IsList
<1>2. /\ Members!NextBlock(c, None) = IF u = 0 THEN None ELSE o[0]
      /\ \A k \in 0 .. u - 1 : Members!NextBlock(c, o[k]) = IF k + 1 = u THEN None ELSE o[k + 1]
  BY <1>1, M!NextBlockIs, Bounds, SameMembers
<1>3. /\ M!InUse(c) = {o[k] : k \in 0 .. u - 1} /\ u \in Nat
      /\ \A b \in M!InUse(c) : \E k \in 0 .. u - 1 : o[k] = b
  BY <1>1, M!InUseIs, Bounds
<1>4. c \in Members!Chains /\ M!InUse(c) \subseteq Members!Blocks
  BY MembersAre
<1>5. \A at \in Members!Blocks \cup {None} : Members!NextBlock(c, at) \in Members!Blocks \cup {None}
  BY <1>4, Bounds DEF Members!Chains, Members!NextBlock, Members!None, None
<1>6. Members!NextBlock(c, None) \in M!InUse(c) \cup {None}
  <2>1. u # 0 => 0 \in 0 .. u - 1
    BY <1>3
  <2> QED BY <1>2, <1>3, <2>1
<1>7. ASSUME NEW b \in M!InUse(c)
      PROVE  Members!NextBlock(c, b) \in M!InUse(c) \cup {None}
  <2>1. PICK k \in 0 .. u - 1 : o[k] = b
    BY <1>3
  <2>2. k + 1 # u => k + 1 \in 0 .. u - 1
    BY <1>3
  <2> QED BY <1>2, <1>3, <2>1, <2>2
<1> QED BY <1>4, <1>5, <1>6, <1>7, Bounds

\* A walk that has a block ahead of it goes on, to that block or to one before it.
LEMMA AheadGoesOn ==
    ASSUME NEW c, NEW at, NEW b, Ahead(c, at, b)
    PROVE  /\ Members!NextBlock(c, at) # None
           /\ Members!NextBlock(c, at) # b => Ahead(c, Members!NextBlock(c, at), b)
<1>1. PICK o, u : /\ M!ListOf(c, o, u)
                  /\ \E q \in 0 .. u - 1 :
                        o[q] = b /\ (at = None \/ \E p \in 0 .. q - 1 : at = o[p])
  BY DEF Ahead
<1>2. PICK q \in 0 .. u - 1 : o[q] = b /\ (at = None \/ \E p \in 0 .. q - 1 : at = o[p])
  BY <1>1
<1>3. /\ Members!NextBlock(c, None) = IF u = 0 THEN None ELSE o[0]
      /\ \A k \in 0 .. u - 1 : Members!NextBlock(c, o[k]) = IF k + 1 = u THEN None ELSE o[k + 1]
  BY <1>1, M!NextBlockIs, Bounds, SameMembers
<1>4. /\ M!InUse(c) = {o[k] : k \in 0 .. u - 1} /\ u \in Nat /\ M!IsList(c)
  BY <1>1, M!InUseIs, Bounds DEF M!IsList
<1>5. ASSUME NEW k \in 0 .. q, Members!NextBlock(c, at) = o[k]
      PROVE  /\ Members!NextBlock(c, at) # None
             /\ Members!NextBlock(c, at) # b => Ahead(c, Members!NextBlock(c, at), b)
  <2>1. k \in 0 .. u - 1
    BY <1>2, <1>4
  <2>2. o[k] # None
    BY <1>4, <2>1, NextInUse
  <2>3. o[k] # b => k \in 0 .. q - 1
    BY <1>2, <1>4
  <2>4. o[k] # b => Ahead(c, o[k], b)
    BY <1>1, <1>2, <2>3 DEF Ahead
  <2> QED BY <1>5, <2>2, <2>4
<1>6. CASE at = None
  <2>1. 0 \in 0 .. q /\ u # 0
    BY <1>2, <1>4
  <2> QED BY <1>3, <1>5, <1>6, <2>1
<1>7. CASE at # None
  <2>1. PICK p \in 0 .. q - 1 : at = o[p]
    BY <1>2, <1>7
  <2>2. p + 1 \in 0 .. q /\ p + 1 # u /\ p \in 0 .. u - 1
    BY <1>2, <1>4, <2>1
  <2> QED BY <1>3, <1>5, <2>1, <2>2
<1> QED BY <1>6, <1>7

\* At the beginning of a walk every block in use is ahead.
LEMMA AheadAtFirst == \A c : M!IsList(c) => \A b \in M!InUse(c) : Ahead(c, None, b)
<1> SUFFICES ASSUME NEW c, M!IsList(c), NEW b \in M!InUse(c)
             PROVE  Ahead(c, None, b)
  OBVIOUS
<1>1. PICK o, u : M!ListOf(c, o, u)
  BY DEF M!IsList
<1>2. \E k \in 0 .. u - 1 : o[k] = b
  BY <1>1, M!InUseIs, Bounds
<1> QED BY <1>1, <1>2 DEF Ahead

\* The room of a slot that is in one, and the walk of its member.
LEMMA RoomIs ==
    ASSUME NEW R, Agree(R), NEW i \in Slots, InRoom(R, i)
    PROVE  /\ R.places[i].room \in Nodes!Blocks /\ M!IsList(Room(R, i))
           /\ R.places[i].block \in M!InUse(Room(R, i))
           /\ \A at : NextMember(R, i, at) = Members!NextBlock(Room(R, i), at)
           /\ \A b \in M!InUse(Room(R, i)) :
                /\ Room(R, i).data[b] \in Slots
                /\ R.places[Room(R, i).data[b]] = [room |-> R.places[i].room, block |-> b]
           /\ \A b \in Members!Blocks : Room(R, i).data[b] \in Slots \cup {NoSlot}
<1>1. /\ R.places[i].room \in Known(R) /\ R.places[i].block \in Held(R, R.places[i].room)
      /\ R.rooms[R.places[i].room].members.data[R.places[i].block] = i
      /\ N!IsList(R.nodes) /\ \A r \in Nodes!Blocks : M!IsList(R.rooms[r].members)
  BY DEF Agree
<1>2. R.places[i].room \in Nodes!Blocks /\ M!IsList(Room(R, i))
  BY <1>1, NodesAre DEF Known, Room
<1>3. \A at : NextMember(R, i, at) = Members!NextBlock(Room(R, i), at)
  BY <1>1 DEF NextMember, InRoom, Room
<1>4. \A b \in M!InUse(Room(R, i)) :
        /\ Room(R, i).data[b] \in Slots
        /\ R.places[Room(R, i).data[b]] = [room |-> R.places[i].room, block |-> b]
  BY <1>2 DEF Agree, Held, Room
<1>5. \A b \in Members!Blocks : Room(R, i).data[b] \in Slots \cup {NoSlot}
  BY <1>2, MembersAre, Bounds DEF Members!Chains
<1> QED BY <1>1, <1>2, <1>3, <1>4, <1>5 DEF Held, Room

\* Who is in a room with whom.
LEMMA MatesAre ==
    ASSUME NEW R, Agree(R), NEW i \in Slots
    PROVE  /\ RoomMates(R, i) \subseteq Slots /\ IsFiniteSet(RoomMates(R, i))
           /\ \A j \in Slots : InRoom(R, i) /\ InRoom(R, j) /\ R.places[i].room = R.places[j].room
                => j \in RoomMates(R, i)
<1>1. CASE ~InRoom(R, i)
  BY <1>1, FS_EmptySet DEF RoomMates
<1>2. CASE InRoom(R, i)
  <2>1. M!IsList(Room(R, i)) /\ \A b \in M!InUse(Room(R, i)) : Room(R, i).data[b] \in Slots
    BY <1>2, RoomIs
  <2>2. RoomMates(R, i) = {Room(R, i).data[b] : b \in M!InUse(Room(R, i))}
    BY <1>2, <2>1, UsedIs DEF RoomMates, Room
  <2>3. IsFiniteSet(M!InUse(Room(R, i)))
    <3>1. IsFiniteSet(Members!Blocks)
      BY Bounds, FS_Interval
    <3> QED BY <2>1, <3>1, MembersAre, FS_Subset
  <2>4. IsFiniteSet(RoomMates(R, i))
    <3> DEFINE f == [b \in M!InUse(Room(R, i)) |-> Room(R, i).data[b]]
    <3>1. f \in Surjection(M!InUse(Room(R, i)), RoomMates(R, i))
      BY <2>2 DEF Surjection
    <3> HIDE DEF f
    <3> QED BY <2>3, <3>1, FS_Surjection
  <2>5. ASSUME NEW j \in Slots, InRoom(R, j), R.places[i].room = R.places[j].room
        PROVE  j \in RoomMates(R, i)
    <3>1. R.places[j].block \in Held(R, R.places[i].room) /\ Room(R, i).data[R.places[j].block] = j
      BY <2>5 DEF Agree, Room
    <3> QED BY <2>2, <3>1 DEF Held, Room
  <2> QED BY <2>1, <2>2, <2>4, <2>5
<1> QED BY <1>1, <1>2

\* A new call has the type of one.
LEMMA CallIs ==
    ASSUME NEW R, Agree(R), NEW C, NEW i \in Slots, NEW k \in {"http", "say", "join", "close"}
    PROVE  /\ Call(k, i, R, C) \in Frames
           /\ Call(k, i, R, C).kind = k /\ Call(k, i, R, C).who = i /\ Call(k, i, R, C).at = None
<1> DEFINE d == {j \in RoomMates(R, i) : C[j].phase = "ws"} \ (IF k = "close" THEN {i} ELSE {})
           f == FullRoom(R, i)
<1>1. d \in SUBSET Slots /\ f \in BOOLEAN /\ << >> \in Seq(Slots)
  BY MatesAre DEF FullRoom, InRoom
<1>2. Call(k, i, R, C) = [kind |-> k, who |-> i, at |-> None, heard |-> << >>, closed |-> FALSE,
                          due |-> d, full |-> f]
  BY Zenon DEF Call
<1> HIDE DEF d, f
<1> QED BY <1>1, <1>2 DEF Frames

-----------------------------------------------------------------------------
\* Nothing is to be shown of no calls, or of one that has just begun.
LEMMA FirstCall ==
    ASSUME NEW R, NEW C
    PROVE  /\ Nested(C, << >>) /\ Walks(R, C, << >>) /\ Placed(R, << >>)
           /\ \A f \in Frames : f.at = None /\ (f.kind = "close" => ~C[f.who].alive) =>
                /\ << f >> \in Seq(Frames)
                /\ Nested(C, <<f>>) /\ Walks(R, C, <<f>>) /\ Placed(R, <<f>>)
<1>1. Nested(C, << >>) /\ Walks(R, C, << >>) /\ Placed(R, << >>)
  BY DEF Nested, Walks, Placed
<1>2. ASSUME NEW f \in Frames, f.at = None, f.kind = "close" => ~C[f.who].alive
      PROVE  /\ << f >> \in Seq(Frames)
             /\ Nested(C, <<f>>) /\ Walks(R, C, <<f>>) /\ Placed(R, <<f>>)
  <2>1. << f >> \in Seq(Frames) /\ Len(<<f>>) = 1 /\ <<f>>[1] = f
    OBVIOUS
  <2>2. \A m \in 1 .. 1 : m = 1 /\ 1 .. m - 1 = {}
    OBVIOUS
  <2>3. Nested(C, <<f>>)
    BY <1>2, <2>1, <2>2 DEF Nested
  <2>4. Walks(R, C, <<f>>) /\ Placed(R, <<f>>)
    BY <1>2, <2>1, <2>2 DEF Walks, Placed
  <2> QED BY <2>1, <2>3, <2>4
<1> QED BY <1>1, <1>2

\* The call on top of the stack, and those below it.
LEMMA TopIs ==
    ASSUME Typed, stack # << >>
    PROVE  /\ Len(stack) \in Nat \ {0} /\ Top = stack[Len(stack)]
           /\ Top \in Frames /\ Top.who \in Slots /\ Top.at \in Members!Blocks \cup {None}
           /\ \A m \in 1 .. Len(stack) : stack[m] \in Frames /\ stack[m].who \in Slots
           /\ Below \in Seq(Frames) /\ Len(Below) = Len(stack) - 1
           /\ \A m \in 1 .. Len(stack) - 1 : Below[m] = stack[m]
<1>1. stack \in Seq(Frames) /\ Len(stack) \in Nat \ {0} /\ Top = stack[Len(stack)]
  BY DEF Typed, Top
<1>2. \A m \in 1 .. Len(stack) : stack[m] \in Frames
  BY <1>1
<1>3. \A f \in Frames : f.who \in Slots /\ f.at \in Members!Blocks \cup {None}
  BY DEF Frames
<1>4. Below \in Seq(Frames) /\ Len(Below) = Len(stack) - 1
      /\ \A m \in 1 .. Len(stack) - 1 : Below[m] = stack[m]
  <2>1. PICK t \in Nat : t = Len(stack) - 1
    BY <1>1
  <2>2. Below = [m \in 1 .. t |-> stack[m]]
    BY <1>1, <2>1 DEF Below
  <2>3. \A m \in 1 .. t : stack[m] \in Frames
    BY <1>1, <1>2, <2>1
  <2> QED BY <2>1, <2>2, <2>3
<1>5. Top \in Frames
  BY <1>1, <1>2
<1> QED BY <1>1, <1>2, <1>3, <1>4, <1>5

\* Whom the walk on top comes to next: if it is the close of a slot that can be sent to, to a
\* member of the room.
LEMMA ReachedIs ==
    ASSUME IInv, stack # << >>, Reached # None
    PROVE  /\ InRoom(router, Top.who) /\ Reached \in Members!Blocks
           /\ Reached = Members!NextBlock(Room(router, Top.who), Top.at)
           /\ Member = Room(router, Top.who).data[Reached] /\ Member \in Slots \cup {NoSlot}
           /\ Top.kind = "close" /\ conns[Top.who].phase = "ws" =>
                /\ Reached \in M!InUse(Room(router, Top.who)) /\ Member \in Slots
                /\ router.places[Member] =
                     [room |-> router.places[Top.who].room, block |-> Reached]
<1>1. Top.who \in Slots /\ Top.at \in Members!Blocks \cup {None} /\ Agree(router)
  BY TopIs DEF IInv
<1>2. InRoom(router, Top.who)
  BY DEF Reached, NextMember, InRoom
<1>3. /\ M!IsList(Room(router, Top.who))
      /\ Reached = Members!NextBlock(Room(router, Top.who), Top.at)
      /\ \A b \in M!InUse(Room(router, Top.who)) :
           /\ Room(router, Top.who).data[b] \in Slots
           /\ router.places[Room(router, Top.who).data[b]] =
                [room |-> router.places[Top.who].room, block |-> b]
      /\ \A b \in Members!Blocks : Room(router, Top.who).data[b] \in Slots \cup {NoSlot}
  BY <1>1, <1>2, RoomIs DEF Reached
<1>4. Reached \in Members!Blocks
  BY <1>1, <1>3, NextInUse
<1>5. Member = Room(router, Top.who).data[Reached]
  BY DEF Member, Room
<1>6. ASSUME Top.kind = "close", conns[Top.who].phase = "ws"
      PROVE  Reached \in M!InUse(Room(router, Top.who))
  <2>1. Walks(router, conns, stack) /\ Top = stack[Len(stack)] /\ Len(stack) > 0
    BY TopIs DEF IInv
  <2>2. Top.at \in M!InUse(Room(router, Top.who)) \cup {None}
    BY <1>6, <2>1 DEF Walks
  <2> QED BY <1>3, <2>2, NextInUse
<1> QED BY <1>2, <1>3, <1>4, <1>5, <1>6

\* The walk on top goes on, past a member that is passed over or is alive: what is still
\* ahead of a close that was called from another stays ahead.
LEMMA Moved ==
    ASSUME IInv, Walking, NEW g \in Frames,
           g.kind = Top.kind, g.who = Top.who, g.at = Reached
    PROVE  LET S == [stack EXCEPT ![Len(stack)] = g]
           IN  /\ S \in Seq(Frames) /\ Len(S) = Len(stack) /\ S[Len(S)] = g
               /\ Nested(conns, S) /\ Placed(router, S)
               /\ PassedOver \/ conns[Member].alive => Walks(router, conns, S)
<1> DEFINE t == Len(stack)
           S == [stack EXCEPT ![t] = g]
           i == Top.who
           j == stack[t - 1].who
<1>1. /\ t \in Nat \ {0} /\ Top = stack[t] /\ Reached # None /\ stack \in Seq(Frames)
      /\ Nested(conns, stack) /\ Walks(router, conns, stack) /\ Placed(router, stack)
  BY TopIs DEF IInv, Walking, Typed
<1>2. /\ S \in Seq(Frames) /\ Len(S) = t /\ S[t] = g
      /\ \A m \in 1 .. t : m # t => S[m] = stack[m]
  <2> HIDE DEF Frames
  <2> QED BY <1>1
<1> HIDE DEF S
<1>3. \A m \in 1 .. t : S[m].kind = stack[m].kind /\ S[m].who = stack[m].who
  BY <1>1, <1>2
<1>4. Nested(conns, S)
  <2> SUFFICES ASSUME NEW m \in 1 .. t
               PROVE  /\ S[m].kind = "close" => ~conns[S[m].who].alive
                      /\ m > 1 => /\ S[m].kind \in {"join", "close"}
                                  /\ S[m].kind = "close" => conns[S[m].who].phase = "ws"
                                  /\ S[m].kind = "close" /\ S[m - 1].kind = "close" =>
                                        S[m].who # S[m - 1].who
                      /\ \A l \in 1 .. m - 1 : S[l].kind # "http" => S[m].kind = "close"
    BY <1>2 DEF Nested
  <2>1. (m > 1 => m - 1 \in 1 .. t) /\ 1 .. m - 1 \subseteq 1 .. t
    BY <1>1
  <2>2. /\ stack[m].kind = "close" => ~conns[stack[m].who].alive
        /\ m > 1 => /\ stack[m].kind \in {"join", "close"}
                    /\ stack[m].kind = "close" => conns[stack[m].who].phase = "ws"
                    /\ stack[m].kind = "close" /\ stack[m - 1].kind = "close" =>
                          stack[m].who # stack[m - 1].who
        /\ \A l \in 1 .. m - 1 : stack[l].kind # "http" => stack[m].kind = "close"
    BY <1>1 DEF Nested
  <2> QED BY <1>3, <2>1, <2>2
<1>5. InRoom(router, i)
  BY <1>1, ReachedIs DEF Walking
<1>6. Placed(router, S)
  BY <1>1, <1>2, <1>3, <1>5 DEF Placed
<1>7. ASSUME PassedOver \/ conns[Member].alive
      PROVE  Walks(router, conns, S)
  <2>1. SUFFICES ASSUME Top.kind = "close"
                 PROVE  /\ conns[i].phase = "ws" => Reached \in M!InUse(Room(router, i))
                        /\ t > 1 /\ stack[t - 1].kind = "close" /\ conns[j].phase = "ws" =>
                             /\ InRoom(router, i) /\ InRoom(router, j)
                             /\ router.places[i].room = router.places[j].room
                             /\ Ahead(Room(router, i), Reached, router.places[j].block)
    <3>1. t > 1 => S[t - 1] = stack[t - 1]
      BY <1>1, <1>2
    <3> QED BY <1>1, <1>2, <1>5, <3>1 DEF Walks
  <2>2. conns[i].phase = "ws" => Reached \in M!InUse(Room(router, i))
    BY <1>1, <2>1, ReachedIs DEF Walking
  <2>3. ASSUME t > 1, stack[t - 1].kind = "close", conns[j].phase = "ws"
        PROVE  /\ InRoom(router, i) /\ InRoom(router, j)
               /\ router.places[i].room = router.places[j].room
               /\ Ahead(Room(router, i), Reached, router.places[j].block)
    <3>1. /\ InRoom(router, i) /\ InRoom(router, j)
          /\ router.places[i].room = router.places[j].room
          /\ Ahead(Room(router, i), Top.at, router.places[j].block)
      BY <1>1, <2>1, <2>3 DEF Walks
    <3>2. j # i /\ ~conns[j].alive
      <4>1. t - 1 \in 1 .. t /\ t \in 1 .. t
        BY <1>1, <2>3
      <4> QED BY <1>1, <2>1, <2>3, <4>1 DEF Nested
    <3>3. /\ Reached = Members!NextBlock(Room(router, i), Top.at)
          /\ Member = Room(router, i).data[Reached]
      BY <1>1, ReachedIs DEF Walking
    <3>4. ASSUME Reached = router.places[j].block
          PROVE  FALSE
      <4>1. j \in Slots /\ Agree(router)
        BY <1>1, <2>3, TopIs DEF IInv
      <4>2. Member = j
        BY <3>1, <3>3, <3>4, <4>1 DEF Agree, Room
      <4> QED BY <1>7, <2>3, <3>2, <4>2 DEF PassedOver
    <3> QED BY <3>1, <3>3, <3>4, AheadGoesOn
  <2> QED BY <2>2, <2>3
<1> QED BY <1>2, <1>4, <1>6, <1>7 DEF S

\* A step that leaves the router and the crash alone preserves what it says of the calls.
LEMMA CallsOnly ==
    ASSUME IInv, router' = router, crashed' \in BOOLEAN, conns' \in [Slots -> Connections],
           stack' \in Seq(Frames), Nested(conns', stack'), Walks(router, conns', stack'),
           Placed(router, stack')
    PROVE  IInv'
BY DEF IInv, Typed, Walks, Placed, Nested

\* Pass and Send.
LEMMA PassInv == ASSUME IInv, Pass PROVE IInv'
<1> DEFINE g == [Top EXCEPT !.at = Reached]
<1>1. Walking /\ Reached \in Members!Blocks /\ Top \in Frames
  BY TopIs, ReachedIs DEF Pass, IInv, Walking
<1>2. g \in Frames /\ g.kind = Top.kind /\ g.who = Top.who /\ g.at = Reached
  BY <1>1 DEF Frames
<1>3. stack' = [stack EXCEPT ![Len(stack)] = g]
  BY Zenon DEF Pass, Top
<1> HIDE DEF g
<1>4. /\ stack' \in Seq(Frames) /\ Nested(conns, stack') /\ Placed(router, stack')
      /\ Walks(router, conns, stack')
  BY <1>1, <1>2, <1>3, Moved DEF Pass
<1>5. conns' = conns /\ router' = router /\ crashed' = crashed
  BY DEF Pass
<1> QED BY <1>4, <1>5, CallsOnly DEF IInv, Typed

\* NoConnection: only the crash.
LEMMA NoConnectionInv == ASSUME IInv, NoConnection PROVE IInv'
<1>1. conns' = conns /\ router' = router /\ stack' = stack /\ crashed' = TRUE
  BY DEF NoConnection
<1> QED BY <1>1, CallsOnly DEF IInv, Typed

\* Send: only who has been reached changes, and the place of the walk.
LEMMA SendInv == ASSUME IInv, Send PROVE IInv'
<1> DEFINE g == [Top EXCEPT !.at = Reached, !.heard = Append(@, Member)]
<1>1. Walking /\ Reached \in Members!Blocks /\ Top \in Frames /\ Member \in Slots
  BY TopIs, ReachedIs DEF Send, IInv, Walking, PassedOver
<1>2. g \in Frames /\ g.kind = Top.kind /\ g.who = Top.who /\ g.at = Reached
  <2>1. Append(Top.heard, Member) \in Seq(Slots)
    BY <1>1 DEF Frames
  <2> QED BY <1>1, <2>1 DEF Frames
<1>3. stack' = [stack EXCEPT ![Len(stack)] = g]
  BY Zenon DEF Send, Top
<1> HIDE DEF g
<1>4. /\ stack' \in Seq(Frames) /\ Nested(conns, stack') /\ Placed(router, stack')
      /\ Walks(router, conns, stack')
  BY <1>1, <1>2, <1>3, Moved DEF Send
<1>5. conns' = conns /\ router' = router /\ crashed' = crashed
  BY DEF Send
<1> QED BY <1>4, <1>5, CallsOnly DEF IInv, Typed

\* SendFails: the close of the member that cannot be reached begins, or the stack is used up.
\* If the walk is itself a close, its caller's member is in the room, and ahead.
LEMMA SendFailsInv == ASSUME IInv, SendFails PROVE IInv'
<1> DEFINE t == Len(stack)
           g == [Top EXCEPT !.at = Reached, !.closed = TRUE]
           S == [stack EXCEPT ![t] = g]
           f == Call("close", Member, router, conns)
           Q == S \o <<f>>
           i == Top.who
           j == Member
<1>1. /\ Walking /\ Reached \in Members!Blocks /\ Top \in Frames /\ i \in Slots /\ Reached # None
      /\ j \in Slots /\ conns[j].phase = "ws" /\ ~conns[j].alive
      /\ Top.kind = "close" => j # i
  BY TopIs, ReachedIs DEF SendFails, IInv, Walking, PassedOver
<1>2. g \in Frames /\ g.kind = Top.kind /\ g.who = i /\ g.at = Reached
  BY <1>1 DEF Frames
<1>3. conns' = conns /\ router' = router /\ (Len(stack) < MaxDepth => stack' = Q /\ crashed' = crashed)
      /\ (~(Len(stack) < MaxDepth) => stack' = stack /\ crashed' = TRUE)
  BY Zenon DEF SendFails, Top
<1>4. /\ f \in Frames /\ f.kind = "close" /\ f.who = j /\ f.at = None
  BY <1>1, CallIs DEF IInv
<1>5. t \in Nat \ {0} /\ Agree(router)
  BY <1>1, TopIs DEF IInv, Walking
<1> HIDE DEF g, f
<1>6. /\ S \in Seq(Frames) /\ Len(S) = t /\ S[t] = g
      /\ Nested(conns, S) /\ Placed(router, S)
  BY <1>1, <1>2, Moved DEF IInv
<1> HIDE DEF S, t
<1>7. /\ Q \in Seq(Frames) /\ Len(Q) = t + 1 /\ Q[t + 1] = f
      /\ \A m \in 1 .. t : Q[m] = S[m]
  <2> HIDE DEF Frames
  <2> QED BY <1>4, <1>5, <1>6
<1> HIDE DEF Q
<1>8. Nested(conns, Q)
  <2> SUFFICES ASSUME NEW m \in 1 .. t + 1
               PROVE  /\ Q[m].kind = "close" => ~conns[Q[m].who].alive
                      /\ m > 1 => /\ Q[m].kind \in {"join", "close"}
                                  /\ Q[m].kind = "close" => conns[Q[m].who].phase = "ws"
                                  /\ Q[m].kind = "close" /\ Q[m - 1].kind = "close" =>
                                        Q[m].who # Q[m - 1].who
                      /\ \A l \in 1 .. m - 1 : Q[l].kind # "http" => Q[m].kind = "close"
    BY <1>7 DEF Nested
  <2>1. CASE m = t + 1
    <3>1. m - 1 = t /\ t \in 1 .. t
      BY <1>5, <2>1
    <3> QED BY <1>1, <1>2, <1>4, <1>6, <1>7, <2>1, <3>1
  <2>2. CASE m # t + 1
    <3>1. m \in 1 .. t /\ (m > 1 => m - 1 \in 1 .. t) /\ 1 .. m - 1 \subseteq 1 .. t
      BY <1>5, <2>2
    <3>2. /\ S[m].kind = "close" => ~conns[S[m].who].alive
          /\ m > 1 => /\ S[m].kind \in {"join", "close"}
                      /\ S[m].kind = "close" => conns[S[m].who].phase = "ws"
                      /\ S[m].kind = "close" /\ S[m - 1].kind = "close" =>
                            S[m].who # S[m - 1].who
          /\ \A l \in 1 .. m - 1 : S[l].kind # "http" => S[m].kind = "close"
      BY <1>6, <3>1 DEF Nested
    <3> QED BY <1>7, <3>1, <3>2
  <2> QED BY <2>1, <2>2
<1>9. Placed(router, Q)
  <2> SUFFICES ASSUME NEW m \in 1 .. t + 1, Q[m].kind = "close", Q[m].at # None
               PROVE  InRoom(router, Q[m].who)
    BY <1>7 DEF Placed
  <2>1. m \in 1 .. t
    BY <1>4, <1>5, <1>7
  <2> QED BY <1>6, <1>7, <2>1 DEF Placed
<1>10. Walks(router, conns, Q)
  <2>1. SUFFICES ASSUME Top.kind = "close", conns[i].phase = "ws"
                 PROVE  /\ InRoom(router, j) /\ InRoom(router, i)
                        /\ router.places[j].room = router.places[i].room
                        /\ Ahead(Room(router, j), None, router.places[i].block)
    <3>1. (t + 1) - 1 = t /\ t \in 1 .. t
      BY <1>5
    <3> QED BY <1>2, <1>4, <1>6, <1>7, <3>1 DEF Walks
  <2>2. /\ InRoom(router, i)
        /\ router.places[j] = [room |-> router.places[i].room, block |-> Reached]
    BY <1>1, <2>1, ReachedIs DEF Walking
  <2>3. InRoom(router, j) /\ router.places[j].room = router.places[i].room
    BY <1>1, <2>2 DEF InRoom, NoPlace
  <2>4. Room(router, j) = Room(router, i)
    BY <2>3 DEF Room
  <2>5. M!IsList(Room(router, i)) /\ router.places[i].block \in M!InUse(Room(router, i))
    BY <1>1, <1>5, <2>2, RoomIs
  <2> QED BY <2>2, <2>3, <2>4, <2>5, AheadAtFirst
<1>11. CASE Len(stack) < MaxDepth
  BY <1>3, <1>7, <1>8, <1>9, <1>10, <1>11, CallsOnly DEF IInv, Typed
<1>12. CASE ~(Len(stack) < MaxDepth)
  BY <1>3, <1>12, CallsOnly DEF IInv, Typed
<1> QED BY <1>11, <1>12

\* Finish: a message was walked for by the first call, or by the second, above the answer to
\* its request.
LEMMA FinishInv == ASSUME IInv, Finish PROVE IInv'
<1> DEFINE t == Len(stack)
<1>1. /\ t \in Nat \ {0} /\ Top = stack[t] /\ Below \in Seq(Frames) /\ Len(Below) = t - 1
      /\ \A m \in 1 .. t - 1 : Below[m] = stack[m]
      /\ Nested(conns, stack) /\ Placed(router, stack)
  BY TopIs DEF Finish, IInv
<1>2. \A m \in 1 .. t - 1 : stack[m].kind = "http"
  <2>1. t \in 1 .. t /\ stack[t].kind # "close"
    BY <1>1 DEF Finish
  <2> QED BY <1>1, <2>1 DEF Nested
<1>3. \A m \in 1 .. t - 1 : Below[m].kind = "http"
  BY <1>1, <1>2
<1>4. Nested(conns, Below)
  <2> SUFFICES ASSUME NEW m \in 1 .. t - 1
               PROVE  /\ m > 1 => Below[m].kind \in {"join", "close"}
                      /\ \A l \in 1 .. m - 1 : Below[l].kind = "http"
    BY <1>1, <1>3 DEF Nested
  <2>1. m \in 1 .. t /\ 1 .. m - 1 \subseteq 1 .. t - 1
    BY <1>1
  <2>2. m > 1 => stack[m].kind \in {"join", "close"}
    BY <1>1, <2>1 DEF Nested
  <2> QED BY <1>1, <1>3, <2>1, <2>2
<1>5. Walks(router, conns, Below) /\ Placed(router, Below)
  <2>1. t - 1 > 0 => t - 1 \in 1 .. t - 1
    BY <1>1
  <2> QED BY <1>1, <1>3, <2>1 DEF Walks, Placed
<1>6. stack' = Below /\ conns' = conns /\ router' = router /\ crashed' = crashed
  BY DEF Finish
<1> QED BY <1>1, <1>4, <1>5, <1>6, CallsOnly DEF IInv, Typed

\* A connection that is hung up cannot be sent to, and is otherwise as it was.
LEMMA HungUpIs ==
    ASSUME NEW C \in [Slots -> Connections], NEW i \in Slots
    PROVE  /\ HungUp(C, i) \in [Slots -> Connections] /\ ~HungUp(C, i)[i].alive
           /\ \A j \in Slots : HungUp(C, i)[j].phase = C[j].phase
<1> DEFINE x == [C[i] EXCEPT !.open = FALSE, !.alive = FALSE]
<1>1. HungUp(C, i) = [C EXCEPT ![i] = x]
  BY Zenon DEF HungUp
<1>2. x \in Connections /\ ~x.alive /\ x.phase = C[i].phase
  <2>1. C[i] \in Connections
    OBVIOUS
  <2> QED BY <2>1 DEF Connections
<1> HIDE DEF x
<1> QED BY <1>1, <1>2

\* Answered: only the close of the connection is under way.
LEMMA AnsweredInv == ASSUME IInv, Answered PROVE IInv'
<1>1. Top.who \in Slots /\ Agree(router) /\ conns \in [Slots -> Connections]
  BY TopIs DEF Answered, IInv, Typed
<1>2. conns' = HungUp(conns, Top.who) /\ router' = router /\ crashed' = crashed
      /\ stack' = <<Call("close", Top.who, router, conns)>>
  BY DEF Answered
<1>3. conns' \in [Slots -> Connections] /\ ~conns'[Top.who].alive
  BY <1>1, <1>2, HungUpIs
<1>4. /\ Call("close", Top.who, router, conns) \in Frames
      /\ Call("close", Top.who, router, conns).who = Top.who
      /\ Call("close", Top.who, router, conns).at = None
  BY <1>1, CallIs
<1>5. /\ stack' \in Seq(Frames)
      /\ Nested(conns', stack') /\ Walks(router, conns', stack') /\ Placed(router, stack')
  BY <1>2, <1>3, <1>4, FirstCall
<1> QED BY <1>2, <1>3, <1>5, CallsOnly DEF IInv, Typed

\* A close ends only if no close of another slot that can be sent to called it, for then the
\* walk would go on; so at most the first call is below it, but for the answer to a request.
LEMMA LastClose ==
    ASSUME IInv, FinishClose
    PROVE  LET t == Len(stack)
           IN  /\ t > 1 /\ stack[t - 1].kind = "close" => conns[stack[t - 1].who].phase # "ws"
               /\ \A m \in 1 .. t - 1 : stack[m].kind = "close" => m = 1 /\ t = 2
               /\ \A m \in 1 .. t - 2 : stack[m].kind = "http"
<1> DEFINE t == Len(stack)
           i == Top.who
<1>1. /\ t \in Nat \ {0} /\ Top = stack[t] /\ i \in Slots
      /\ Nested(conns, stack) /\ Walks(router, conns, stack) /\ Agree(router)
      /\ Top.kind = "close" /\ Reached = None
  BY TopIs DEF FinishClose, IInv
<1>2. ASSUME t > 1, stack[t - 1].kind = "close"
      PROVE  conns[stack[t - 1].who].phase # "ws"
  <2>1. SUFFICES ASSUME conns[stack[t - 1].who].phase = "ws"
                 PROVE  FALSE
    OBVIOUS
  <2>2. /\ InRoom(router, i)
        /\ Ahead(Room(router, i), Top.at, router.places[stack[t - 1].who].block)
    BY <1>1, <1>2, <2>1 DEF Walks
  <2>3. Reached = Members!NextBlock(Room(router, i), Top.at)
    BY <1>1, <2>2, RoomIs DEF Reached
  <2> QED BY <1>1, <2>2, <2>3, AheadGoesOn
<1>3. ASSUME NEW m \in 1 .. t - 1, stack[m].kind = "close"
      PROVE  m = 1 /\ t = 2
  <2>1. t - 1 \in 1 .. t - 1 /\ t - 1 \in 1 .. t /\ m \in 1 .. t
    BY <1>1
  <2>2. stack[t - 1].kind = "close"
    <3>1. m = t - 1 \/ m \in 1 .. (t - 1) - 1
      BY <1>1
    <3> QED BY <1>1, <1>3, <2>1, <3>1 DEF Nested
  <2>3. t - 1 > 1 => conns[stack[t - 1].who].phase = "ws"
    BY <1>1, <2>1, <2>2 DEF Nested
  <2>4. t \in Nat /\ t > 1 /\ m \in 1 .. t - 1
    BY <1>1, <1>3
  <2>5. ~(t - 1 > 1)
    BY <1>2, <2>2, <2>3, <2>4
  <2> HIDE DEF t
  <2> QED BY <2>4, <2>5
<1>4. ASSUME NEW m \in 1 .. t - 2, stack[m].kind # "http"
      PROVE  FALSE
  <2>1. t - 1 \in 1 .. t /\ m \in 1 .. (t - 1) - 1 /\ t - 1 \in 1 .. t - 1 /\ t # 2
    BY <1>1
  <2>2. stack[t - 1].kind = "close"
    BY <1>1, <1>4, <2>1 DEF Nested
  <2> QED BY <1>3, <2>1, <2>2
<1> QED BY <1>2, <1>3, <1>4

\* FinishClose: the place given up is not that of the close below, if there is one.
LEMMA FinishCloseInv == ASSUME IInv, FinishClose PROVE IInv'
<1> DEFINE t == Len(stack)
           i == Top.who
<1>1. /\ t \in Nat \ {0} /\ Top = stack[t] /\ i \in Slots
      /\ Below \in Seq(Frames) /\ Len(Below) = t - 1
      /\ \A m \in 1 .. t - 1 : Below[m] = stack[m]
      /\ \A m \in 1 .. t : stack[m] \in Frames /\ stack[m].who \in Slots
      /\ Nested(conns, stack) /\ Walks(router, conns, stack) /\ Placed(router, stack)
      /\ Agree(router) /\ conns \in [Slots -> Connections]
      /\ Top.kind = "close" /\ Reached = None
  BY TopIs DEF FinishClose, IInv, Typed
<1>2. /\ router' = Left(i) /\ stack' = Below /\ crashed' = crashed
      /\ conns' = [conns EXCEPT ![i].phase = "http"]
  BY Zenon DEF FinishClose
<1>3. /\ conns' \in [Slots -> Connections]
      /\ \A j \in Slots : /\ conns'[j].alive = conns[j].alive
                          /\ conns'[j].phase = "ws" => conns[j].phase = "ws"
  <2> DEFINE x == [conns[i] EXCEPT !.phase = "http"]
  <2>1. conns' = [conns EXCEPT ![i] = x]
    BY <1>2, Zenon
  <2>2. x \in Connections /\ x.alive = conns[i].alive /\ x.phase = "http"
    <3>1. conns[i] \in Connections
      BY <1>1
    <3> QED BY <3>1 DEF Connections
  <2> HIDE DEF x
  <2> QED BY <1>1, <2>1, <2>2
<1>4. /\ Agree(router')
      /\ \A j \in Slots : j # i => router'.places[j] = router.places[j]
  <2>1. CASE InRoom(router, i)
    BY <1>1, <1>2, <2>1, RemoveConnectionIs DEF Left
  <2>2. CASE ~InRoom(router, i)
    BY <1>1, <1>2, <2>2 DEF Left
  <2> QED BY <2>1, <2>2
<1>5. t > 1 /\ stack[t - 1].kind = "close" => conns[stack[t - 1].who].phase # "ws"
  BY LastClose
<1>6. \A m \in 1 .. t - 1 : stack[m].kind = "close" => m = 1 /\ t = 2
  BY LastClose
<1>7. Nested(conns', Below)
  <2> SUFFICES ASSUME NEW m \in 1 .. t - 1
               PROVE  /\ Below[m].kind = "close" => ~conns'[Below[m].who].alive
                      /\ m > 1 => /\ Below[m].kind \in {"join", "close"}
                                  /\ Below[m].kind = "close" =>
                                        conns'[Below[m].who].phase = "ws"
                                  /\ Below[m].kind = "close" /\ Below[m - 1].kind = "close" =>
                                        Below[m].who # Below[m - 1].who
                      /\ \A l \in 1 .. m - 1 : Below[l].kind # "http" => Below[m].kind = "close"
    BY <1>1 DEF Nested
  <2>1. m \in 1 .. t /\ 1 .. m - 1 \subseteq 1 .. t - 1
    BY <1>1
  <2>2. /\ stack[m].kind = "close" => ~conns[stack[m].who].alive
        /\ m > 1 => stack[m].kind \in {"join", "close"}
        /\ \A l \in 1 .. m - 1 : stack[l].kind # "http" => stack[m].kind = "close"
    BY <1>1, <2>1 DEF Nested
  <2>3. m > 1 => stack[m].kind # "close"
    BY <1>6
  <2> QED BY <1>1, <1>3, <2>1, <2>2, <2>3
<1>8. Walks(router', conns', Below)
  <2> SUFFICES ASSUME t - 1 > 0, Below[t - 1].kind = "close"
               PROVE  conns'[Below[t - 1].who].phase # "ws" /\ ~(t - 1 > 1)
    BY <1>1 DEF Walks
  <2>1. t - 1 \in 1 .. t - 1 /\ stack[t - 1].kind = "close" /\ Below[t - 1] = stack[t - 1]
    BY <1>1
  <2>2. t = 2 /\ conns[stack[t - 1].who].phase # "ws"
    BY <1>5, <1>6, <2>1
  <2>3. stack[t - 1].who \in Slots
    BY <1>1, <2>1
  <2> QED BY <1>3, <2>1, <2>2, <2>3
<1>9. Placed(router', Below)
  <2> SUFFICES ASSUME NEW m \in 1 .. t - 1, Below[m].kind = "close", Below[m].at # None
               PROVE  InRoom(router', Below[m].who)
    BY <1>1 DEF Placed
  <2>1. m \in 1 .. t /\ stack[m].kind = "close" /\ stack[m].at # None /\ Below[m] = stack[m]
    BY <1>1
  <2>2. m = 1 /\ t = 2 /\ t \in 1 .. t /\ t - 1 = m
    BY <1>6, <2>1
  <2>3. stack[m].who # i
    BY <1>1, <2>1, <2>2 DEF Nested
  <2>4. InRoom(router, stack[m].who) /\ stack[m].who \in Slots
    BY <1>1, <2>1 DEF Placed
  <2> QED BY <1>4, <2>1, <2>3, <2>4 DEF InRoom
<1> HIDE DEF t
<1> QED BY <1>1, <1>2, <1>3, <1>4, <1>7, <1>8, <1>9 DEF IInv, Typed

\* Die: nothing depends on who is alive.
LEMMA DieInv == ASSUME IInv, NEW i \in Slots, Die(i) PROVE IInv'
<1>1. conns \in [Slots -> Connections] /\ stack \in Seq(Frames) /\ crashed' = crashed
      /\ router' = router /\ stack' = stack /\ conns' = [conns EXCEPT ![i].alive = FALSE]
  BY Zenon DEF Die, IInv, Typed
<1>2. /\ conns' \in [Slots -> Connections]
      /\ \A j \in Slots : /\ ~conns[j].alive => ~conns'[j].alive
                          /\ conns'[j].phase = conns[j].phase
  <2> DEFINE x == [conns[i] EXCEPT !.alive = FALSE]
  <2>1. conns' = [conns EXCEPT ![i] = x]
    BY <1>1, Zenon
  <2>2. x \in Connections /\ ~x.alive /\ x.phase = conns[i].phase
    <3>1. conns[i] \in Connections
      BY <1>1
    <3> QED BY <3>1 DEF Connections
  <2> HIDE DEF x
  <2> QED BY <1>1, <2>1, <2>2
<1>3. \A m \in 1 .. Len(stack) : stack[m].who \in Slots
  <2>1. \A f \in Frames : f.who \in Slots
    BY DEF Frames
  <2> QED BY <1>1, <2>1
<1>4. Nested(conns', stack)
  <2>1. Nested(conns, stack)
    BY DEF IInv
  <2> QED BY <1>2, <1>3, <2>1 DEF Nested
<1>5. Walks(router, conns', stack)
  <2>1. Walks(router, conns, stack)
    BY DEF IInv
  <2>2. Len(stack) > 0 => Len(stack) \in 1 .. Len(stack)
    BY <1>1
  <2>3. Len(stack) > 1 => Len(stack) - 1 \in 1 .. Len(stack)
    BY <1>1
  <2> QED BY <1>2, <1>3, <2>1, <2>2, <2>3 DEF Walks
<1> QED BY <1>1, <1>2, <1>4, <1>5, CallsOnly DEF IInv, Typed

-----------------------------------------------------------------------------
\* A step that begins with no call under way, and ends with none or with those that have
\* just begun.
LEMMA FromIdle ==
    ASSUME IInv, Agree(router'), crashed' \in BOOLEAN, conns' \in [Slots -> Connections],
           \/ stack' = << >>
           \/ \E f \in Frames : /\ f.at = None /\ (f.kind = "close" => ~conns'[f.who].alive)
                                /\ stack' = <<f>>
    PROVE  IInv'
<1>1. stack' \in Seq(Frames)
  <2>1. << >> \in Seq(Frames)
    OBVIOUS
  <2> QED BY <2>1, FirstCall
<1>2. /\ Nested(conns', stack') /\ Walks(router', conns', stack') /\ Placed(router', stack')
  BY FirstCall
<1> QED BY <1>1, <1>2 DEF IInv, Typed

\* the connections after a field of one of them has changed
LEMMA NewPhase ==
    ASSUME Typed, NEW i \in Slots, NEW p \in {"http", "shaken", "ws"}
    PROVE  [conns EXCEPT ![i].phase = p] \in [Slots -> Connections]
<1> DEFINE x == [conns[i] EXCEPT !.phase = p]
<1>1. [conns EXCEPT ![i].phase = p] = [conns EXCEPT ![i] = x]
  BY Zenon
<1>2. x \in Connections
  <2>1. conns[i] \in Connections
    BY DEF Typed
  <2> QED BY <2>1 DEF Connections
<1> HIDE DEF x
<1> QED BY <1>1, <1>2 DEF Typed

\* What is sound of a router does not depend on its ids, nor on which rooms are over.
LEMMA SameAgree ==
    ASSUME NEW R, Agree(R), NEW S \in Routers,
           S.nodes = R.nodes, S.index = R.index, S.places = R.places,
           \A q \in Nodes!Blocks : S.rooms[q].members = R.rooms[q].members
    PROVE  Agree(S)
<1>1. /\ N!IsList(R.nodes) /\ \A q \in Nodes!Blocks : M!IsList(R.rooms[q].members)
      /\ R.index \subseteq Known(R)
  BY DEF Agree
<1>2. /\ Known(S) = Known(R) /\ Known(R) \subseteq Nodes!Blocks
      /\ \A q \in Nodes!Blocks : Held(S, q) = Held(R, q)
  BY <1>1, NodesAre DEF Known, Held
<1>3. ASSUME NEW i \in Slots, InRoom(S, i)
      PROVE  /\ S.places[i].room \in Known(S)
             /\ S.places[i].block \in Held(S, S.places[i].room)
             /\ S.rooms[S.places[i].room].members.data[S.places[i].block] = i
  <2>1. /\ R.places[i].room \in Known(R) /\ R.places[i].block \in Held(R, R.places[i].room)
        /\ R.rooms[R.places[i].room].members.data[R.places[i].block] = i
    BY <1>3 DEF Agree, InRoom
  <2> QED BY <1>2, <2>1
<1>4. ASSUME NEW r \in Nodes!Blocks, NEW b \in Held(S, r)
      PROVE  /\ S.rooms[r].members.data[b] \in Slots
             /\ S.places[S.rooms[r].members.data[b]] = [room |-> r, block |-> b]
  <2>1. /\ R.rooms[r].members.data[b] \in Slots
        /\ R.places[R.rooms[r].members.data[b]] = [room |-> r, block |-> b]
    BY <1>2, <1>4 DEF Agree
  <2> QED BY <2>1
<1> QED BY <1>1, <1>2, <1>3, <1>4 DEF Agree

\* Connect: the slot has a client.
LEMMA ConnectInv == ASSUME IInv, NEW i \in Slots, Connect(i) PROVE IInv'
<1> DEFINE x == [open |-> TRUE, alive |-> TRUE, phase |-> "http"]
<1>1. conns' = [conns EXCEPT ![i] = x] /\ x \in Connections /\ conns \in [Slots -> Connections]
  BY DEF Connect, IInv, Typed, Connections
<1> HIDE DEF x
<1>2. conns' \in [Slots -> Connections]
  BY <1>1
<1>3. router' = router /\ crashed' = crashed /\ stack' = << >>
  BY DEF Connect, Idle
<1> QED BY <1>2, <1>3, FromIdle DEF IInv, Typed

\* Handshake: the slot gets an id.
LEMMA HandshakeInv == ASSUME IInv, NEW i \in Slots, Handshake(i) PROVE IInv'
<1>1. conns' = [conns EXCEPT ![i].phase = "shaken"] /\ crashed' = crashed /\ stack' = << >>
      /\ router' = [router EXCEPT !.ids = router.ids \cup {i}]
  BY Zenon DEF Handshake, Idle
<1>2. conns' \in [Slots -> Connections]
  BY <1>1, NewPhase DEF IInv
<1>3. Agree(router')
  <2>1. router \in Routers /\ router.ids \cup {i} \in SUBSET Slots
    BY DEF IInv, Agree, Routers
  <2>2. /\ router' \in Routers /\ router'.nodes = router.nodes /\ router'.rooms = router.rooms
        /\ router'.index = router.index /\ router'.places = router.places
    BY <1>1, <2>1 DEF Routers
  <2>3. Agree(router)
    BY DEF IInv
  <2> QED BY <2>2, <2>3, SameAgree
<1> QED BY <1>1, <1>2, <1>3, FromIdle DEF IInv, Typed

\* Say: a walk for the message begins, if the slot is in a room.
LEMMA SayInv == ASSUME IInv, NEW i \in Slots, Say(i) PROVE IInv'
<1>1. conns' = [conns EXCEPT ![i].phase = "ws"] /\ crashed' = crashed /\ router' = router
      /\ stack' \in {<<Call("say", i, router, conns')>>, << >>}
  BY Zenon DEF Say
<1>2. conns' \in [Slots -> Connections] /\ Agree(router)
  BY <1>1, NewPhase DEF IInv
<1>3. /\ Call("say", i, router, conns') \in Frames
      /\ Call("say", i, router, conns').kind = "say" /\ Call("say", i, router, conns').at = None
  BY <1>2, CallIs
<1> QED BY <1>1, <1>2, <1>3, FromIdle DEF IInv, Typed

\* Gone: the close of the connection begins.
LEMMA GoneInv == ASSUME IInv, NEW i \in Slots, Gone(i) PROVE IInv'
<1>1. conns' = HungUp(conns, i) /\ crashed' = crashed /\ router' = router
      /\ stack' = <<Call("close", i, router, conns)>>
  BY DEF Gone
<1>2. conns' \in [Slots -> Connections] /\ ~conns'[i].alive /\ Agree(router)
  BY <1>1, HungUpIs DEF IInv, Typed
<1>3. /\ Call("close", i, router, conns) \in Frames
      /\ Call("close", i, router, conns).who = i /\ Call("close", i, router, conns).at = None
  BY <1>2, CallIs
<1> QED BY <1>1, <1>2, <1>3, FromIdle DEF IInv, Typed

\* RoomCreate: the connection is closed once the room is there.
LEMMA RoomCreateInv == ASSUME IInv, NEW i \in Slots, NEW lost, RoomCreate(i, lost) PROVE IInv'
<1>1. conns' = HungUp(conns, i) /\ crashed' = crashed /\ router' = CreateRoom(router, lost)
      /\ stack' = <<Call("close", i, router', conns)>>
  BY DEF RoomCreate
<1>2. conns' \in [Slots -> Connections] /\ ~conns'[i].alive /\ Agree(router')
  BY <1>1, HungUpIs, CreateRoomIs DEF IInv, Typed
<1>3. /\ Call("close", i, router', conns) \in Frames
      /\ Call("close", i, router', conns).who = i /\ Call("close", i, router', conns).at = None
  BY <1>2, CallIs
<1> QED BY <1>1, <1>2, <1>3, FromIdle DEF IInv, Typed

\* Expire: a room is over, and stays.
LEMMA ExpireInv == ASSUME IInv, NEW r \in Nodes!Blocks, Expire(r) PROVE IInv'
<1> DEFINE x == [router.rooms[r] EXCEPT !.over = TRUE]
           s == [router.rooms EXCEPT ![r] = x]
<1>1. conns' = conns /\ crashed' = crashed /\ stack' = << >>
      /\ router' = [router EXCEPT !.rooms = s]
  BY Zenon DEF Expire, Idle
<1>2. Agree(router) /\ router \in Routers /\ router.rooms \in RoomTables
      /\ router.rooms[r] \in [members : Members!Chains, over : BOOLEAN]
  BY RouterFields DEF IInv, Agree
<1>3. x \in [members : Members!Chains, over : BOOLEAN] /\ x.members = router.rooms[r].members
  BY <1>2
<1> HIDE DEF x
<1>4. s \in RoomTables /\ \A q \in Nodes!Blocks : s[q].members = router.rooms[q].members
  BY <1>2, <1>3 DEF RoomTables
<1> HIDE DEF s
<1>5. /\ router' \in Routers /\ router'.nodes = router.nodes /\ router'.rooms = s
      /\ router'.index = router.index /\ router'.places = router.places
  BY <1>1, <1>2, <1>4 DEF Routers
<1>6. Agree(router')
  BY <1>2, <1>4, <1>5, SameAgree
<1> QED BY <1>1, <1>6, FromIdle DEF IInv, Typed

\* Update: a room that is over may be removed.
LEMMA UpdateInv == ASSUME IInv, Update PROVE IInv'
<1>1. conns' = conns /\ crashed' = crashed /\ stack' = << >> /\ router' = UpdateRouter(router)
  BY DEF Update, Idle
<1>2. Agree(router')
  BY <1>1, RemoveFirstIs DEF IInv, UpdateRouter
<1> QED BY <1>1, <1>2, FromIdle DEF IInv, Typed

\* RoomJoin: the walk for the message begins above the answer to the request.
LEMMA RoomJoinInv ==
    ASSUME IInv, NEW i \in Slots, NEW j \in Slots, NEW r \in Nodes!Blocks, RoomJoin(i, j, r)
    PROVE  IInv'
<1> DEFINE f == Call("http", i, router', conns)
           g == Call("join", j, router', conns)
<1>1. /\ conns' = conns /\ crashed' = crashed /\ router' = AddConnection(router, r, j)
      /\ stack' = <<f, g>>
  BY DEF RoomJoin
<1>2. Agree(router')
  <2>1. Agree(router) /\ ~InRoom(router, j) /\ r \in router.index
        /\ Members!FreeBlock(router.rooms[r].members) # None
    BY DEF IInv, RoomJoin, Joinable
  <2>2. r \in Known(router)
    BY <2>1 DEF Agree
  <2> QED BY <1>1, <2>1, <2>2, AddConnectionIs
<1>3. /\ f \in Frames /\ f.kind = "http" /\ f.at = None
      /\ g \in Frames /\ g.kind = "join" /\ g.at = None
  BY <1>2, CallIs
<1> HIDE DEF f, g
<1>4. /\ stack' \in Seq(Frames) /\ Len(stack') = 2 /\ stack'[1] = f /\ stack'[2] = g
  <2> HIDE DEF Frames
  <2> QED BY <1>1, <1>3
<1>5. \A m \in 1 .. 2 : /\ m = 1 \/ m = 2
                        /\ m = 1 => 1 .. m - 1 = {}
                        /\ \A l \in 1 .. m - 1 : l = 1
  OBVIOUS
<1>6. Nested(conns', stack') /\ Walks(router', conns', stack') /\ Placed(router', stack')
  BY <1>3, <1>4, <1>5 DEF Nested, Walks, Placed
<1> QED BY <1>1, <1>2, <1>4, <1>6 DEF IInv, Typed

\* qs_init_packet_route: no room is in use, and no slot is in one.
LEMMA InitInv == ASSUME Init PROVE IInv
<1> DEFINE s == [r \in Nodes!Blocks |-> [members |-> Members!NewChain, over |-> FALSE]]
           p == [i \in Slots |-> NoPlace]
<1>1. conns = [i \in Slots |-> Closed] /\ stack = << >> /\ crashed = FALSE
      /\ router = [nodes |-> Nodes!NewChain, rooms |-> s, index |-> {}, places |-> p, ids |-> {}]
  BY DEF Init
<1>2. conns \in [Slots -> Connections]
  BY <1>1 DEF Closed, Connections
<1>3. /\ N!IsList(Nodes!NewChain) /\ N!InUse(Nodes!NewChain) = {} /\ Nodes!NewChain \in Nodes!Chains
      /\ M!IsList(Members!NewChain) /\ M!InUse(Members!NewChain) = {}
      /\ Members!NewChain \in Members!Chains
  BY NodesAre, MembersAre
<1>4. s \in RoomTables /\ \A r \in Nodes!Blocks : s[r].members = Members!NewChain
  BY <1>3 DEF RoomTables
<1>5. p \in PlaceTables /\ \A i \in Slots : p[i] = NoPlace
  BY Bounds DEF PlaceTables, NoPlace
<1> HIDE DEF s, p
<1>6. /\ router \in Routers /\ router.nodes = Nodes!NewChain /\ router.rooms = s
      /\ router.index = {} /\ router.places = p
  BY <1>1, <1>3, <1>4, <1>5 DEF Routers
<1>7. Agree(router)
  BY <1>3, <1>4, <1>5, <1>6 DEF Agree, Known, Held, InRoom
<1>8. stack \in Seq(Frames)
  BY <1>1
<1> QED BY <1>1, <1>2, <1>7, <1>8, FirstCall DEF IInv, Typed

\* Every action preserves the invariant.
LEMMA NextInv == ASSUME IInv, [Next]_vars PROVE IInv'
<1>1. CASE Next
  <2>1. ASSUME NEW i \in Slots,
               \/ Connect(i) \/ Die(i) \/ Handshake(i) \/ Gone(i) \/ Say(i)
               \/ \E lost \in SUBSET router.index : RoomCreate(i, lost)
               \/ \E j \in Slots, r \in Nodes!Blocks : RoomJoin(i, j, r)
        PROVE  IInv'
    BY <2>1, ConnectInv, DieInv, HandshakeInv, GoneInv, SayInv, RoomCreateInv, RoomJoinInv
  <2>2. ASSUME NEW r \in Nodes!Blocks, Expire(r)
        PROVE  IInv'
    BY <2>2, ExpireInv
  <2> QED BY <1>1, <2>1, <2>2, UpdateInv, PassInv, NoConnectionInv, SendInv, SendFailsInv, FinishInv,
             AnsweredInv, FinishCloseInv DEF Next
<1>2. CASE UNCHANGED vars
  BY <1>2 DEF vars, IInv, Typed, Agree, Nested, Walks, Placed, Routers, Known, Held
<1> QED BY <1>1, <1>2

\* The invariant holds, for every number of slots, rooms and members.
THEOREM Invariance == Spec => []IInv
<1>1. Init => IInv
  BY InitInv
<1>2. IInv /\ [Next]_vars => IInv'
  BY NextInv
<1> QED BY <1>1, <1>2, PTL DEF Spec

-----------------------------------------------------------------------------
\* What the invariant says of the memberships.
LEMMA MembersAgreeThen == ASSUME IInv PROVE MembersAgree
<1> DEFINE inUse == Range(RoomOrder(router))
           held  == {[room |-> r, block |-> b] : r \in inUse, b \in Members!Blocks}
<1>1. /\ Agree(router) /\ router \in Routers /\ N!IsList(router.nodes)
      /\ \A r \in Nodes!Blocks : M!IsList(router.rooms[r].members)
      /\ router.index \subseteq Known(router) /\ Placed(router, stack)
  BY DEF IInv, Agree
<1>2. inUse = Known(router) /\ Known(router) \subseteq Nodes!Blocks
  BY <1>1, RoomOrderIs, NodesAre DEF Known
<1> HIDE DEF inUse
<1>3. \A r \in Nodes!Blocks : Used(router.rooms[r].members) = Held(router, r)
  BY <1>1, UsedIs DEF Held
<1>4. ASSUME NEW i \in Slots, InRoom(router, i)
      PROVE  /\ router.places[i] \in held
             /\ router.places[i].block \in Used(router.rooms[router.places[i].room].members)
  <2>1. /\ router.places[i].room \in Known(router)
        /\ router.places[i].block \in Held(router, router.places[i].room)
    BY <1>1, <1>4 DEF Agree
  <2>2. router.places[i].block \in Members!Blocks
    BY <1>1, <1>2, <2>1, MembersAre DEF Held
  <2>3. router.places[i] \in [room : Int, block : Int]
    BY <1>1, RouterFields DEF PlaceTables
  <2>4. router.places[i] = [room |-> router.places[i].room, block |-> router.places[i].block]
    BY <2>3
  <2> QED BY <1>2, <1>3, <2>1, <2>2, <2>4
<1>5. \A r \in Nodes!Blocks : \A b \in Used(router.rooms[r].members) :
        /\ router.rooms[r].members.data[b] \in Slots
        /\ router.places[router.rooms[r].members.data[b]] = [room |-> r, block |-> b]
  BY <1>1, <1>3 DEF Agree
<1>6. \A k \in DOMAIN stack :
         stack[k].kind = "close" /\ stack[k].at # None => InRoom(router, stack[k].who)
  <2>1. DOMAIN stack = 1 .. Len(stack)
    BY DEF IInv, Typed
  <2> QED BY <1>1, <2>1 DEF Placed
<1> QED BY <1>1, <1>2, <1>4, <1>5, <1>6 DEF MembersAgree, inUse

\* Through evictions, nested closes and joins with the ids of clients who have gone, a slot's
\* place and the blocks of the rooms agree, and a close that walks has its place still.
THEOREM MembersAgreeAlways == Spec => []MembersAgree
<1>1. IInv => MembersAgree
  BY MembersAgreeThen
<1> QED BY <1>1, Invariance, PTL

-----------------------------------------------------------------------------
\* Two members of a room who cannot be reached are two.
LEMMA TwoGone ==
    ASSUME IInv, NEW i \in Slots, NEW j \in Slots, i # j, ~conns[i].alive, ~conns[j].alive,
           InRoom(router, i), InRoom(router, j), router.places[i].room = router.places[j].room
    PROVE  Cardinality(Unreachable(i)) > 1
<1>1. /\ IsFiniteSet(RoomMates(router, i)) /\ i \in RoomMates(router, i)
      /\ j \in RoomMates(router, i)
  BY MatesAre DEF IInv
<1>2. Unreachable(i) \subseteq RoomMates(router, i) /\ {i} \cup {j} \subseteq Unreachable(i)
  BY <1>1 DEF Unreachable
<1>3. IsFiniteSet(Unreachable(i))
  BY <1>1, <1>2, FS_Subset
<1>4. Cardinality(Unreachable(i)) \in Nat
  BY <1>3, FS_CardinalityType
<1>5. IsFiniteSet({i}) /\ Cardinality({i}) = 1
  BY FS_Singleton
<1>6. IsFiniteSet({i} \cup {j}) /\ Cardinality({i} \cup {j}) = 2
  <2>1. PICK A : A = {i} /\ IsFiniteSet(A) /\ Cardinality(A) = 1 /\ j \notin A
    BY <1>5
  <2>2. /\ IsFiniteSet(A \cup {j})
        /\ Cardinality(A \cup {j}) = IF j \in A THEN Cardinality(A) ELSE Cardinality(A) + 1
    BY <2>1, FS_AddElement, Zenon
  <2>3. Cardinality(A \cup {j}) = 2
    BY <2>1, <2>2
  <2> QED BY <2>1, <2>2, <2>3
<1>7. Cardinality({i} \cup {j}) <= Cardinality(Unreachable(i))
  BY <1>2, <1>3, FS_Subset
<1> QED BY <1>4, <1>6, <1>7

\* From the third call on the calls are closes of members who speak websocket.
LEMMA Third ==
    ASSUME IInv, Len(stack) > 2
    PROVE  Top.kind = "close" /\ conns[Top.who].phase = "ws" /\ ~conns[Top.who].alive
<1>1. Len(stack) \in Nat \ {0} /\ Top = stack[Len(stack)] /\ Nested(conns, stack)
  BY TopIs DEF IInv
<1>2. /\ Len(stack) \in 1 .. Len(stack) /\ Len(stack) - 1 \in 1 .. Len(stack)
      /\ Len(stack) - 1 \in 1 .. Len(stack) - 1 /\ Len(stack) - 1 > 1 /\ Len(stack) > 1
  BY <1>1
<1>3. stack[Len(stack) - 1].kind \in {"join", "close"}
  BY <1>1, <1>2 DEF Nested
<1>4. stack[Len(stack)].kind = "close"
  BY <1>1, <1>2, <1>3 DEF Nested
<1> QED BY <1>1, <1>2, <1>4 DEF Nested

\* A close that is called again while it is under way.
LEMMA ReenteredThen ==
    ASSUME IInv, Reentered
    PROVE  Cardinality(Unreachable(Top.who)) > 1
<1> DEFINE t == Len(stack)
           i == Top.who
           j == stack[t - 1].who
<1>1. DOMAIN stack = 1 .. t /\ t \in Nat /\ Nested(conns, stack) /\ Walks(router, conns, stack)
  BY DEF IInv, Typed
<1>2. PICK k \in 1 .. t, l \in 1 .. t :
         k < l /\ stack[k].kind = "close" /\ stack[l].kind = "close" /\ stack[k].who = stack[l].who
  BY <1>1 DEF Reentered
<1>3. k # l - 1
  BY <1>1, <1>2 DEF Nested
<1>4. t > 2 /\ t \in 1 .. t /\ t - 1 \in 1 .. t /\ k \in 1 .. (t - 1) - 1
  BY <1>1, <1>2, <1>3
<1>5. /\ stack[t].kind = "close" /\ ~conns[i].alive
      /\ i \in Slots /\ j \in Slots /\ Top = stack[t]
  BY <1>4, Third, TopIs DEF IInv
<1>6. stack[t - 1].kind = "close"
  BY <1>1, <1>2, <1>4 DEF Nested
<1>7. t - 1 > 1 /\ t > 1 /\ t > 0
  BY <1>4
<1>8. conns[j].phase = "ws" /\ ~conns[j].alive
  BY <1>1, <1>4, <1>6, <1>7 DEF Nested
<1>9. i # j
  BY <1>1, <1>4, <1>5, <1>6, <1>7 DEF Nested
<1>10. InRoom(router, i) /\ InRoom(router, j) /\ router.places[i].room = router.places[j].room
  BY <1>1, <1>5, <1>6, <1>7, <1>8 DEF Walks
<1> QED BY <1>5, <1>8, <1>9, <1>10, TwoGone

-----------------------------------------------------------------------------
\* A walk for f has come to its place in the list c, and has reached those before it whom it is
\* to reach.
Walked(c, f) ==
    \E o, u : /\ M!ListOf(c, o, u)
              /\ \E n \in 0 .. u : /\ f.at = IF n = 0 THEN None ELSE o[n - 1]
                                   /\ Range(f.heard) = {c.data[o[k]] : k \in 0 .. n - 1} \cap f.due

\* Nobody has been reached twice, or who was not to be.
Once(f) == Range(f.heard) \subseteq f.due /\ Len(f.heard) = Cardinality(Range(f.heard))

\* A walk in which nobody was closed yet: its room is as it was when the walk began.
Undisturbed(R, C, f) ==
    /\ f.due = {j \in RoomMates(R, f.who) : C[j].phase = "ws"}
                  \ (IF f.kind = "close" THEN {f.who} ELSE {})
    /\ f.full = FullRoom(R, f.who) /\ Once(f)
    /\ IF InRoom(R, f.who) THEN Walked(Room(R, f.who), f) ELSE f.heard = << >>

\* The walk of f waits, in a room that is not full, for the close g of the member it stands at.
Waiting(R, f, g) ==
    /\ Once(f) /\ InRoom(R, f.who) /\ ~FullRoom(R, f.who)
    /\ R.places[g.who] = [room |-> R.places[f.who].room, block |-> f.at]

\* A walk in which somebody was closed: it does not go on.
Ended(R, f) == Once(f) /\ NextMember(R, f.who, f.at) = None

\* Whom the walks under way have reached, unless their room was full and somebody was closed.
Hears(R, C, S) ==
    \A m \in 1 .. Len(S) : S[m].kind # "http" =>
        /\ m = Len(S) /\ ~S[m].closed => Undisturbed(R, C, S[m])
        /\ m = Len(S) /\ S[m].closed /\ ~S[m].full => Ended(R, S[m])
        /\ m < Len(S) => S[m].closed /\ (~S[m].full => Waiting(R, S[m], S[m + 1]))

\* A room without its member i has no member behind the block of i, if it was not full.
LEMMA RemovedEnds ==
    ASSUME NEW R, Agree(R), NEW i \in Slots, NEW j \in Slots, InRoom(R, i), InRoom(R, j),
           R.places[i].room = R.places[j].room, ~FullRoom(R, i)
    PROVE  NextMember(RemoveConnection(R, i), j, R.places[i].block) = None
<1> DEFINE T == RemoveConnection(R, i)
           r == R.places[i].room
           c == R.rooms[r].members
           b == R.places[i].block
           d == Members!RemoveChain(c, b)
<1>1. /\ Agree(T) /\ T.places[i] = NoPlace /\ \A k \in Slots : k # i => T.places[k] = R.places[k]
      /\ Leaves(R, T, i)
  BY RemoveConnectionIs
<1> HIDE DEF T
<1>2. CASE ~InRoom(T, j)
  BY <1>2 DEF NextMember, InRoom, T
<1>3. CASE InRoom(T, j)
  <2>1. T.places[j].room = r
    BY <1>1, <1>3 DEF InRoom
  <2>2. T.rooms[r].members = Without(c, b)
    BY <1>1, <2>1 DEF Leaves
  <2>3. NextMember(T, j, b) = Members!NextBlock(Room(T, j), b)
    BY <1>1, <1>3, RoomIs
  <2>4. Room(T, j) = Without(c, b)
    BY <2>1, <2>2 DEF Room
  <2>5. M!IsList(c) /\ b \in M!InUse(c) /\ Members!FreeBlock(c) # None
    BY RoomIs DEF Room, FullRoom
  <2>6. d \in Members!Chains
    <3>1. M!IsList(d)
      BY <2>5, MembersAre
    <3> QED BY <3>1, MembersAre
  <2>7. Members!NextBlock(Without(c, b), b) = Members!NextBlock(d, b)
    <3>1. Without(c, b) = [d EXCEPT !.data = [d.data EXCEPT ![b] = NoSlot]]
      BY Zenon DEF Without
    <3> DEFINE e == [d.data EXCEPT ![b] = NoSlot]
    <3> HIDE DEF d, b, c, e
    <3> QED BY <2>6, <3>1 DEF Members!NextBlock, Members!Chains
  <2>8. Members!NextBlock(d, b) = None
    <3>1. M!FreeBlock(c) # M!None
      BY <2>5, SameMembers
    <3>2. M!NextBlock(M!RemoveChain(c, b), b) = M!None
      BY <2>5, <3>1, M!RemovedIsLast, Bounds
    <3> QED BY <3>2, SameMembers
  <2> HIDE DEF c, b, d
  <2> QED BY <2>3, <2>4, <2>7, <2>8 DEF T, b
<1> QED BY <1>2, <1>3

\* A walk that has just begun.
LEMMA CallFresh ==
    ASSUME NEW R, Agree(R), NEW C, NEW i \in Slots, NEW k \in {"http", "say", "join", "close"}
    PROVE  Undisturbed(R, C, Call(k, i, R, C)) /\ ~Call(k, i, R, C).closed
<1> DEFINE f == Call(k, i, R, C)
<1>1. /\ f.kind = k /\ f.who = i /\ f.at = None /\ f.heard = << >> /\ f.closed = FALSE
      /\ f.full = FullRoom(R, i)
      /\ f.due = {j \in RoomMates(R, i) : C[j].phase = "ws"} \ (IF k = "close" THEN {i} ELSE {})
  BY DEF Call
<1>2. Range(f.heard) = {} /\ Len(f.heard) = 0
  BY <1>1 DEF Range
<1>3. Cardinality({}) = 0
  BY FS_EmptySet
<1> HIDE DEF f
<1>4. Once(f)
  BY <1>2, <1>3 DEF Once
<1>5. ASSUME InRoom(R, i)
      PROVE  Walked(Room(R, i), f)
  <2>1. PICK o, u : M!ListOf(Room(R, i), o, u)
    BY <1>5, RoomIs DEF M!IsList
  <2>2. u \in Nat
    BY <2>1, M!InUseIs, Bounds
  <2>3. PICK n \in 0 .. u : n = 0 /\ 0 .. n - 1 = {}
    BY <2>2
  <2>4. Range(f.heard) = {Room(R, i).data[o[x]] : x \in 0 .. n - 1} \cap f.due
    BY <1>2, <2>3
  <2> QED BY <1>1, <2>1, <2>3, <2>4 DEF Walked
<1>6. Undisturbed(R, C, f)
  BY <1>1, <1>4, <1>5 DEF Undisturbed
<1> QED BY <1>1, <1>6 DEF f

\* Who is alive does not matter to whom a message is to reach.
LEMMA SamePhases ==
    ASSUME NEW R, Agree(R), NEW C, NEW D, \A j \in Slots : C[j].phase = D[j].phase,
           NEW S \in Seq(Frames), Hears(R, C, S)
    PROVE  Hears(R, D, S)
<1>1. ASSUME NEW f \in Frames, Undisturbed(R, C, f)
      PROVE  Undisturbed(R, D, f)
  <2>1. f.who \in Slots
    BY DEF Frames
  <2>2. RoomMates(R, f.who) \subseteq Slots
    BY <2>1, MatesAre
  <2>3. {j \in RoomMates(R, f.who) : C[j].phase = "ws"} = {j \in RoomMates(R, f.who) : D[j].phase = "ws"}
    BY <2>2
  <2> QED BY <1>1, <2>3 DEF Undisturbed
<1>2. \A m \in 1 .. Len(S) : S[m] \in Frames
  OBVIOUS
<1> QED BY <1>1, <1>2 DEF Hears

\* the walk of g is that of f, which has come to the block b of x
Further(f, g, b, x) ==
    g.at = b /\ g.due = f.due /\ Range(g.heard) = Range(f.heard) \cup ({x} \cap f.due)

\* Where a walk stands in which nobody was closed: the member it comes to is in the room, in
\* use, and was not reached before.
LEMMA WalkedOn ==
    ASSUME NEW R, Agree(R), NEW C, NEW f \in Frames, Undisturbed(R, C, f),
           NEW b, b = NextMember(R, f.who, f.at), b # None,
           NEW x, x = Room(R, f.who).data[b]
    PROVE  /\ InRoom(R, f.who) /\ x \in RoomMates(R, f.who) /\ x \in Slots /\ x \notin Range(f.heard)
           /\ R.places[x] = [room |-> R.places[f.who].room, block |-> b]
           /\ \A g : Further(f, g, b, x) => Walked(Room(R, f.who), g)
<1> DEFINE c == Room(R, f.who)
<1>1. InRoom(R, f.who) /\ f.who \in Slots
  BY DEF NextMember, InRoom, Frames
<1>2. /\ M!IsList(c) /\ b = Members!NextBlock(c, f.at)
      /\ \A y \in M!InUse(c) : /\ c.data[y] \in Slots
                               /\ R.places[c.data[y]] = [room |-> R.places[f.who].room, block |-> y]
  BY <1>1, RoomIs
<1>3. PICK o, u : /\ M!ListOf(c, o, u)
                  /\ \E n \in 0 .. u :
                        /\ f.at = IF n = 0 THEN None ELSE o[n - 1]
                        /\ Range(f.heard) = {c.data[o[k]] : k \in 0 .. n - 1} \cap f.due
  BY <1>1, Zenon DEF Undisturbed, Walked
<1>4. PICK n \in 0 .. u : /\ f.at = IF n = 0 THEN None ELSE o[n - 1]
                          /\ Range(f.heard) = {c.data[o[k]] : k \in 0 .. n - 1} \cap f.due
  BY <1>3
<1>5. /\ Members!NextBlock(c, None) = IF u = 0 THEN None ELSE o[0]
      /\ \A k \in 0 .. u - 1 : Members!NextBlock(c, o[k]) = IF k + 1 = u THEN None ELSE o[k + 1]
  BY <1>3, M!NextBlockIs, Bounds, SameMembers
<1>6. /\ M!InUse(c) = {o[k] : k \in 0 .. u - 1} /\ u \in Nat
  BY <1>3, M!InUseIs, Bounds
<1> HIDE DEF c
<1>7. n \in 0 .. u - 1 /\ b = o[n]
  <2>1. CASE n = 0
    <3>1. u # 0
      BY <1>2, <1>4, <1>5, <2>1
    <3> QED BY <1>2, <1>4, <1>5, <1>6, <2>1, <3>1
  <2>2. CASE n # 0
    <3>1. n - 1 \in 0 .. u - 1 /\ (n - 1) + 1 = n
      BY <1>6, <2>2
    <3>2. b = IF n = u THEN None ELSE o[n]
      BY <1>2, <1>4, <1>5, <2>2, <3>1
    <3> QED BY <1>6, <3>2
  <2> QED BY <2>1, <2>2
<1>8. b \in M!InUse(c) /\ x = c.data[b]
  BY <1>6, <1>7 DEF c
<1>9. x \in Slots /\ R.places[x] = [room |-> R.places[f.who].room, block |-> b]
  BY <1>2, <1>8
<1>10. x \in RoomMates(R, f.who)
  <2>1. RoomMates(R, f.who) = {c.data[y] : y \in Used(c)}
    BY <1>1 DEF RoomMates, c, Room
  <2>2. Used(c) = M!InUse(c)
    BY <1>2, UsedIs
  <2> QED BY <1>8, <2>1, <2>2
<1>11. x \notin Range(f.heard)
  <2> SUFFICES ASSUME NEW k \in 0 .. n - 1, c.data[o[k]] = x
               PROVE  FALSE
    BY <1>4
  <2>1. k \in 0 .. u - 1 /\ k # n
    BY <1>6, <1>7
  <2>2. o[k] \in M!InUse(c)
    BY <1>6, <2>1
  <2>3. o[k] = b
    <3>1. R.places[x] = [room |-> R.places[f.who].room, block |-> o[k]]
      BY <1>2, <2>2
    <3> QED BY <1>9, <3>1
  <2>4. \A p, q \in 0 .. u - 1 : o[p] = o[q] => p = q
    <3>1. \A p, q \in M!Blocks : o[p] = o[q] => p = q
      BY <1>3 DEF c, M!ListOf, M!Links
    <3>2. u \in Members!Blocks
      BY <1>3, SameMembers DEF M!ListOf, c
    <3>3. 0 .. u - 1 \subseteq M!Blocks
      BY <3>2, Bounds, SameMembers
    <3> QED BY <3>1, <3>3
  <2> QED BY <1>7, <2>1, <2>3, <2>4
<1>12. ASSUME NEW g, Further(f, g, b, x)
       PROVE  Walked(c, g)
  <2>1. PICK m \in 0 .. u : m = n + 1
    BY <1>6, <1>7
  <2>2. m # 0 /\ m - 1 = n /\ 0 .. m - 1 = (0 .. n - 1) \cup {n}
    BY <1>6, <1>7, <2>1
  <2>3. Range(g.heard) = {c.data[o[k]] : k \in 0 .. m - 1} \cap g.due
    BY <1>4, <1>7, <1>8, <1>12, <2>2 DEF Further
  <2> QED BY <1>3, <1>7, <1>12, <2>2, <2>3 DEF Walked, Further, c
<1> QED BY <1>1, <1>9, <1>10, <1>11, <1>12 DEF c

\* The invariant about whom the walks reach.
HInv == Hears(router, conns, stack)

\* The walk on top, between two steps of its own.
LEMMA TopHears ==
    ASSUME IInv, HInv, stack # << >>, Top.kind # "http"
    PROVE  /\ ~Top.closed => Undisturbed(router, conns, Top)
           /\ Top.closed /\ ~Top.full => Once(Top) /\ Reached = None
<1>1. Len(stack) \in 1 .. Len(stack) /\ Top = stack[Len(stack)]
  BY TopIs DEF IInv
<1> QED BY <1>1 DEF HInv, Hears, Ended, Reached

\* Only the walk on top moves.
LEMMA MovedHears ==
    ASSUME IInv, HInv, Walking, NEW g \in Frames,
           g.kind = Top.kind, g.who = Top.who, g.closed = Top.closed, g.full = Top.full,
           ~Top.closed => Undisturbed(router, conns, g),
           stack' = [stack EXCEPT ![Len(stack)] = g], router' = router, conns' = conns
    PROVE  HInv'
<1> DEFINE t == Len(stack)
           S == [stack EXCEPT ![t] = g]
<1>1. t \in Nat \ {0} /\ Top = stack[t] /\ stack \in Seq(Frames) /\ Reached # None
      /\ Top.kind # "http" /\ stack # << >>
  BY TopIs DEF IInv, Typed, Walking
<1>2. /\ Len(S) = t /\ S[t] = g /\ \A m \in 1 .. t : m # t => S[m] = stack[m]
  <2> HIDE DEF Frames
  <2> QED BY <1>1
<1>3. ~(Top.closed /\ ~Top.full)
  BY <1>1, TopHears
<1> HIDE DEF S
<1>4. ASSUME NEW m \in 1 .. t, S[m].kind # "http"
      PROVE  /\ m = t /\ ~S[m].closed => Undisturbed(router, conns, S[m])
             /\ m = t /\ S[m].closed /\ ~S[m].full => Ended(router, S[m])
             /\ m < t => S[m].closed /\ (~S[m].full => Waiting(router, S[m], S[m + 1]))
  <2>1. CASE m = t
    BY <1>1, <1>2, <1>3, <2>1
  <2>2. CASE m # t
    <3>1. m < t /\ m + 1 \in 1 .. t /\ S[m] = stack[m]
      BY <1>1, <1>2, <2>2
    <3>2. S[m + 1].who = stack[m + 1].who
      BY <1>1, <1>2, <3>1
    <3>3. stack[m].closed /\ (~stack[m].full => Waiting(router, stack[m], stack[m + 1]))
      BY <1>4, <3>1 DEF HInv, Hears
    <3> QED BY <2>2, <3>1, <3>2, <3>3 DEF Waiting
  <2> QED BY <2>1, <2>2
<1>5. Hears(router, conns, S)
  BY <1>2, <1>4 DEF Hears
<1> QED BY <1>5 DEF HInv, S

\* Pass: whom a walk passes over was not to be reached.
LEMMA PassHears == ASSUME IInv, HInv, Pass PROVE HInv'
<1> DEFINE g == [Top EXCEPT !.at = Reached]
<1>1. Walking /\ Reached \in Members!Blocks /\ Top \in Frames /\ Reached # None /\ stack # << >>
      /\ Top.kind # "http" /\ Member = Room(router, Top.who).data[Reached] /\ Agree(router)
  BY TopIs, ReachedIs DEF Pass, IInv, Walking
<1>2. /\ g \in Frames /\ g.kind = Top.kind /\ g.who = Top.who /\ g.at = Reached
      /\ g.closed = Top.closed /\ g.full = Top.full /\ g.due = Top.due /\ g.heard = Top.heard
  BY <1>1 DEF Frames
<1>3. stack' = [stack EXCEPT ![Len(stack)] = g] /\ router' = router /\ conns' = conns
  BY Zenon DEF Pass, Top
<1> HIDE DEF g
<1>4. ASSUME ~Top.closed
      PROVE  Undisturbed(router, conns, g)
  <2>1. Undisturbed(router, conns, Top)
    BY <1>1, <1>4, TopHears
  <2>2. /\ InRoom(router, Top.who) /\ Member \in Slots
        /\ \A h : Further(Top, h, Reached, Member) => Walked(Room(router, Top.who), h)
    <3>1. Reached = NextMember(router, Top.who, Top.at)
      BY DEF Reached
    <3> QED BY <1>1, <2>1, <3>1, WalkedOn
  <2>3. Member \notin Top.due
    BY <2>1 DEF Pass, PassedOver, Undisturbed
  <2>4. Walked(Room(router, Top.who), g)
    BY <1>2, <2>2, <2>3 DEF Further
  <2> QED BY <1>2, <2>1, <2>2, <2>4 DEF Undisturbed, Once
<1> QED BY <1>1, <1>2, <1>3, <1>4, MovedHears

\* Send: whom the walk comes to was to be reached, and had not been.
LEMMA SendHears == ASSUME IInv, HInv, Send PROVE HInv'
<1> DEFINE h == Append(Top.heard, Member)
           g == [Top EXCEPT !.at = Reached, !.heard = h]
<1>1. Walking /\ Reached \in Members!Blocks /\ Top \in Frames /\ Reached # None /\ stack # << >>
      /\ Top.kind # "http" /\ Member = Room(router, Top.who).data[Reached] /\ Agree(router)
      /\ Member \in Slots /\ Top.who \in Slots
  BY TopIs, ReachedIs DEF Send, IInv, Walking, PassedOver
<1>2. h \in Seq(Slots) /\ Range(h) = Range(Top.heard) \cup {Member} /\ Len(h) = Len(Top.heard) + 1
  <2>1. Top.heard \in Seq(Slots)
    BY <1>1 DEF Frames
  <2>2. PICK s \in Seq(Slots), n \in Nat : s = Top.heard /\ n = Len(s) /\ DOMAIN s = 1 .. n
    BY <2>1
  <2>3. /\ DOMAIN h = 1 .. n + 1 /\ h[n + 1] = Member /\ \A k \in 1 .. n : h[k] = s[k]
        /\ Len(h) = n + 1 /\ h \in Seq(Slots)
    BY <1>1, <2>2
  <2>4. 1 .. n + 1 = (1 .. n) \cup {n + 1}
    BY <2>2
  <2> HIDE DEF h
  <2> QED BY <2>2, <2>3, <2>4 DEF Range
<1> HIDE DEF h
<1>3. /\ g \in Frames /\ g.kind = Top.kind /\ g.who = Top.who /\ g.at = Reached
      /\ g.closed = Top.closed /\ g.full = Top.full /\ g.due = Top.due /\ g.heard = h
  BY <1>1, <1>2 DEF Frames
<1>4. stack' = [stack EXCEPT ![Len(stack)] = g] /\ router' = router /\ conns' = conns
  BY Zenon DEF Send, Top, h
<1> HIDE DEF g
<1>5. ASSUME ~Top.closed
      PROVE  Undisturbed(router, conns, g)
  <2>1. Undisturbed(router, conns, Top)
    BY <1>1, <1>5, TopHears
  <2>2. /\ InRoom(router, Top.who) /\ Member \in RoomMates(router, Top.who)
        /\ Member \notin Range(Top.heard)
        /\ \A f : Further(Top, f, Reached, Member) => Walked(Room(router, Top.who), f)
    <3>1. Reached = NextMember(router, Top.who, Top.at)
      BY DEF Reached
    <3> QED BY <1>1, <2>1, <3>1, WalkedOn
  <2>3. Member \in Top.due
    BY <1>1, <2>1, <2>2 DEF Send, PassedOver, Undisturbed
  <2>4. Walked(Room(router, Top.who), g)
    BY <1>2, <1>3, <2>2, <2>3 DEF Further
  <2>5. IsFiniteSet(Range(Top.heard))
    <3>1. Range(Top.heard) \subseteq RoomMates(router, Top.who)
      BY <2>1 DEF Undisturbed, Once
    <3>2. IsFiniteSet(RoomMates(router, Top.who))
      BY <1>1, MatesAre
    <3> QED BY <3>1, <3>2, FS_Subset
  <2>6. Cardinality(Range(Top.heard) \cup {Member}) =
           IF Member \in Range(Top.heard) THEN Cardinality(Range(Top.heard))
           ELSE Cardinality(Range(Top.heard)) + 1
    BY <2>5, FS_AddElement, Zenon
  <2>7. Once(g)
    BY <1>2, <1>3, <2>1, <2>2, <2>3, <2>6 DEF Once, Undisturbed
  <2> QED BY <1>3, <2>1, <2>2, <2>4, <2>7 DEF Undisturbed
<1> QED BY <1>1, <1>3, <1>4, <1>5, MovedHears

\* SendFails: the walk waits for the close of the member it stands at.
LEMMA SendFailsHears == ASSUME IInv, HInv, SendFails PROVE HInv'
<1> DEFINE t == Len(stack)
           g == [Top EXCEPT !.at = Reached, !.closed = TRUE]
           S == [stack EXCEPT ![t] = g]
           f == Call("close", Member, router, conns)
           Q == S \o <<f>>
<1>1. /\ Walking /\ Reached \in Members!Blocks /\ Top \in Frames /\ Top.who \in Slots
      /\ Reached # None /\ stack # << >> /\ Top.kind # "http" /\ Member \in Slots
      /\ Member = Room(router, Top.who).data[Reached] /\ Agree(router)
      /\ t \in Nat \ {0} /\ Top = stack[t] /\ stack \in Seq(Frames)
  BY TopIs, ReachedIs DEF SendFails, IInv, Typed, Walking, PassedOver
<1>2. /\ g \in Frames /\ g.kind = Top.kind /\ g.who = Top.who /\ g.at = Reached /\ g.closed = TRUE
      /\ g.full = Top.full /\ g.due = Top.due /\ g.heard = Top.heard
  BY <1>1 DEF Frames
<1>3. conns' = conns /\ router' = router /\ (Len(stack) < MaxDepth => stack' = Q)
      /\ (~(Len(stack) < MaxDepth) => stack' = stack)
  BY Zenon DEF SendFails, Top
<1>4. f \in Frames /\ f.who = Member /\ Undisturbed(router, conns, f) /\ ~f.closed
  BY <1>1, CallIs, CallFresh
<1> HIDE DEF g, f
<1>5. S \in Seq(Frames) /\ Len(S) = t /\ S[t] = g /\ \A m \in 1 .. t : m # t => S[m] = stack[m]
  <2> HIDE DEF Frames
  <2> QED BY <1>1, <1>2
<1> HIDE DEF S, t
<1>6. /\ Len(Q) = t + 1 /\ Q[t + 1] = f /\ Q[t] = g
      /\ \A m \in 1 .. t : m # t => Q[m] = stack[m]
  <2> HIDE DEF Frames
  <2> QED BY <1>1, <1>4, <1>5
<1> HIDE DEF Q
<1>7. ASSUME ~Top.full
      PROVE  Waiting(router, g, f)
  <2>1. Undisturbed(router, conns, Top)
    BY <1>1, <1>7, TopHears DEF Frames
  <2>2. /\ InRoom(router, Top.who)
        /\ router.places[Member] = [room |-> router.places[Top.who].room, block |-> Reached]
    <3>1. Reached = NextMember(router, Top.who, Top.at)
      BY DEF Reached
    <3> QED BY <1>1, <2>1, <3>1, WalkedOn
  <2> QED BY <1>2, <1>4, <1>7, <2>1, <2>2 DEF Waiting, Undisturbed, Once
<1>8. ASSUME NEW m \in 1 .. t + 1, Q[m].kind # "http"
      PROVE  /\ m = t + 1 /\ ~Q[m].closed => Undisturbed(router, conns, Q[m])
             /\ m = t + 1 /\ Q[m].closed /\ ~Q[m].full => Ended(router, Q[m])
             /\ m < t + 1 => Q[m].closed /\ (~Q[m].full => Waiting(router, Q[m], Q[m + 1]))
  <2>1. CASE m = t + 1
    BY <1>4, <1>6, <2>1
  <2>2. CASE m = t
    <3>1. ~(m = t + 1)
      BY <1>1, <2>2
    <3> QED BY <1>2, <1>6, <1>7, <2>2, <3>1
  <2>3. CASE m # t /\ m # t + 1
    <3>1. m \in 1 .. t /\ m < t /\ m + 1 \in 1 .. t /\ Q[m] = stack[m]
      BY <1>1, <1>6, <2>3
    <3>2. Q[m + 1].who = stack[m + 1].who
      BY <1>1, <1>2, <1>6, <3>1
    <3>3. stack[m].closed /\ (~stack[m].full => Waiting(router, stack[m], stack[m + 1]))
      BY <1>8, <3>1 DEF HInv, Hears, t
    <3> QED BY <2>3, <3>1, <3>2, <3>3 DEF Waiting
  <2> QED BY <2>1, <2>2, <2>3
<1>9. Hears(router, conns, Q)
  BY <1>6, <1>8 DEF Hears
<1>10. CASE Len(stack) < MaxDepth
  BY <1>3, <1>9, <1>10 DEF HInv
<1>11. CASE ~(Len(stack) < MaxDepth)
  BY <1>3, <1>11 DEF HInv
<1> QED BY <1>10, <1>11

\* Finish: below are answers to requests only.
LEMMA FinishHears == ASSUME IInv, HInv, Finish PROVE HInv'
<1> DEFINE t == Len(stack)
<1>1. /\ t \in Nat \ {0} /\ Top = stack[t] /\ Len(Below) = t - 1
      /\ \A m \in 1 .. t - 1 : Below[m] = stack[m]
      /\ Nested(conns, stack) /\ stack' = Below
  BY TopIs DEF Finish, IInv
<1>2. \A m \in 1 .. t - 1 : stack[m].kind = "http"
  <2>1. t \in 1 .. t /\ stack[t].kind # "close"
    BY <1>1 DEF Finish
  <2> QED BY <1>1, <2>1 DEF Nested
<1> QED BY <1>1, <1>2 DEF HInv, Hears

\* FinishClose: the walk that waited for it is at its end, if its room was not full.
LEMMA FinishCloseHears == ASSUME IInv, HInv, FinishClose PROVE HInv'
<1> DEFINE t == Len(stack)
           i == Top.who
           f == stack[t - 1]
<1>1. /\ t \in Nat \ {0} /\ Top = stack[t] /\ i \in Slots /\ Agree(router)
      /\ Len(Below) = t - 1 /\ \A m \in 1 .. t - 1 : Below[m] = stack[m]
      /\ \A m \in 1 .. t : stack[m].who \in Slots
      /\ stack' = Below /\ router' = Left(i)
  BY TopIs DEF FinishClose, IInv
<1>2. \A m \in 1 .. t - 2 : stack[m].kind = "http"
  BY LastClose
<1>3. ASSUME t > 1, f.kind # "http"
      PROVE  f.closed /\ (~f.full => Ended(router', f))
  <2>1. t - 1 \in 1 .. t /\ t - 1 < t /\ (t - 1) + 1 = t
    BY <1>1, <1>3
  <2>2. f.closed /\ (~f.full => Waiting(router, f, Top))
    BY <1>1, <1>3, <2>1 DEF HInv, Hears
  <2>3. ASSUME ~f.full
        PROVE  Ended(router', f)
    <3>1. /\ Once(f) /\ InRoom(router, f.who) /\ ~FullRoom(router, f.who) /\ f.who \in Slots
          /\ router.places[i] = [room |-> router.places[f.who].room, block |-> f.at]
      BY <1>1, <2>1, <2>2, <2>3 DEF Waiting
    <3>2. router.places[f.who].room # None
      BY <1>1, <3>1, RoomIs, Bounds
    <3>3. InRoom(router, i) /\ router.places[i].room = router.places[f.who].room
          /\ router.places[i].block = f.at
      BY <3>1, <3>2 DEF InRoom, NoPlace
    <3>4. ~FullRoom(router, i)
      BY <3>1, <3>3 DEF FullRoom
    <3>5. router' = RemoveConnection(router, i)
      BY <1>1, <3>3 DEF Left
    <3>6. NextMember(RemoveConnection(router, i), f.who, router.places[i].block) = None
      BY <1>1, <3>1, <3>3, <3>4, RemovedEnds
    <3> QED BY <3>1, <3>3, <3>5, <3>6 DEF Ended
  <2> QED BY <2>2, <2>3
<1>4. ASSUME NEW m \in 1 .. t - 1, stack[m].kind # "http"
      PROVE  m = t - 1 /\ t > 1
  <2>1. m \in 1 .. t - 2 \/ (m = t - 1 /\ t > 1)
    BY <1>1
  <2> QED BY <1>2, <1>4, <2>1
<1>5. \A m \in 1 .. Len(stack') : stack'[m].kind # "http" =>
         m = Len(stack') /\ stack'[m].closed /\ (~stack'[m].full => Ended(router', stack'[m]))
  BY <1>1, <1>3, <1>4
<1>6. \A m \in 1 .. Len(stack') : ~(m = Len(stack') /\ m < Len(stack'))
  BY <1>1
<1> QED BY <1>5, <1>6 DEF HInv, Hears

\* A single call that has just begun, and no call.
LEMMA FirstHears ==
    ASSUME NEW R, NEW C
    PROVE  /\ Hears(R, C, << >>)
           /\ \A f : Undisturbed(R, C, f) /\ ~f.closed => Hears(R, C, <<f>>)
<1>1. Hears(R, C, << >>)
  BY DEF Hears
<1>2. ASSUME NEW f, Undisturbed(R, C, f), ~f.closed
      PROVE  Hears(R, C, <<f>>)
  <2>1. Len(<<f>>) = 1 /\ <<f>>[1] = f /\ \A m \in 1 .. 1 : m = 1
    OBVIOUS
  <2> QED BY <1>2, <2>1 DEF Hears
<1> QED BY <1>1, <1>2

\* The close of a connection begins, with the phases as they are.
LEMMA CloseHears ==
    ASSUME Agree(router'), NEW i \in Slots, conns \in [Slots -> Connections],
           conns' = HungUp(conns, i), stack' = <<Call("close", i, router', conns)>>
    PROVE  HInv'
<1> DEFINE f == Call("close", i, router', conns)
<1>1. f \in Frames /\ Undisturbed(router', conns, f) /\ ~f.closed
  BY CallIs, CallFresh
<1>2. \A j \in Slots : conns[j].phase = conns'[j].phase
  BY HungUpIs
<1> HIDE DEF f
<1>3. <<f>> \in Seq(Frames) /\ Hears(router', conns, <<f>>)
  <2>1. Hears(router', conns, <<f>>)
    BY <1>1, FirstHears, Zenon
  <2>2. <<f>> \in Seq(Frames)
    <3> HIDE DEF Frames
    <3> QED BY <1>1
  <2> QED BY <2>1, <2>2
<1>4. Hears(router', conns', <<f>>)
  BY <1>2, <1>3, SamePhases
<1> QED BY <1>4 DEF HInv, f

\* Say: a walk for the message begins, if the slot is in a room.
LEMMA SayHears == ASSUME IInv, NEW i \in Slots, Say(i) PROVE HInv'
<1>1. /\ router' = router /\ Agree(router)
      /\ stack' \in {<<Call("say", i, router, conns')>>, << >>}
  BY DEF Say, IInv
<1>2. Undisturbed(router, conns', Call("say", i, router, conns'))
      /\ ~Call("say", i, router, conns').closed
  BY <1>1, CallFresh
<1>3. Hears(router, conns', stack')
  BY <1>1, <1>2, FirstHears
<1> QED BY <1>1, <1>3 DEF HInv

\* RoomJoin: the walk for the newcomer begins above the answer to the request.
LEMMA RoomJoinHears ==
    ASSUME IInv, NEW i \in Slots, NEW j \in Slots, NEW r \in Nodes!Blocks, RoomJoin(i, j, r)
    PROVE  HInv'
<1> DEFINE f == Call("http", i, router', conns)
           g == Call("join", j, router', conns)
<1>1. conns' = conns /\ stack' = <<f, g>> /\ Agree(router')
  BY RoomJoinInv DEF RoomJoin, IInv
<1>2. f.kind = "http" /\ Undisturbed(router', conns, g) /\ ~g.closed
  BY <1>1, CallIs, CallFresh
<1> HIDE DEF f, g
<1>3. /\ Len(<<f, g>>) = 2 /\ <<f, g>>[1] = f /\ <<f, g>>[2] = g
      /\ \A m \in 1 .. 2 : m = 1 \/ (m = 2 /\ ~(m < 2))
  OBVIOUS
<1>4. Hears(router', conns, <<f, g>>)
  BY <1>2, <1>3 DEF Hears
<1> QED BY <1>1, <1>4 DEF HInv

\* Every action preserves the invariant about whom the walks reach.
LEMMA NextHears == ASSUME IInv, HInv, [Next]_vars PROVE HInv'
<1>1. Agree(router) /\ Agree(router') /\ conns \in [Slots -> Connections] /\ stack \in Seq(Frames)
  BY NextInv DEF IInv, Typed
<1>2. ASSUME stack' = << >>
      PROVE  HInv'
  BY <1>2, FirstHears DEF HInv
<1>3. ASSUME NEW i \in Slots, Connect(i) \/ Handshake(i)
      PROVE  HInv'
  BY <1>2, <1>3 DEF Connect, Handshake, Idle
<1>4. ASSUME NEW i \in Slots, Die(i)
      PROVE  HInv'
  <2>1. \A j \in Slots : conns'[j].phase = conns[j].phase
    <3> DEFINE x == [conns[i] EXCEPT !.alive = FALSE]
    <3>1. conns' = [conns EXCEPT ![i] = x]
      BY <1>4, Zenon DEF Die
    <3>2. x.phase = conns[i].phase
      <4>1. conns[i] \in Connections
        BY <1>1
      <4> QED BY <4>1 DEF Connections
    <3> HIDE DEF x
    <3> QED BY <1>1, <3>1, <3>2
  <2>2. Hears(router, conns', stack)
    <3>1. Hears(router, conns, stack)
      BY DEF HInv
    <3> QED BY <1>1, <2>1, <3>1, SamePhases
  <2> QED BY <1>4, <2>2 DEF HInv, Die
<1>5. ASSUME NEW i \in Slots, Gone(i)
      PROVE  HInv'
  BY <1>1, <1>5, CloseHears DEF Gone
<1>6. ASSUME NEW i \in Slots, NEW lost, RoomCreate(i, lost)
      PROVE  HInv'
  BY <1>1, <1>6, CloseHears DEF RoomCreate
<1>7. ASSUME Answered
      PROVE  HInv'
  <2>1. Top.who \in Slots /\ router' = router
    BY <1>7, TopIs DEF Answered, IInv
  <2> QED BY <1>1, <1>7, <2>1, CloseHears DEF Answered
<1>8. ASSUME (\E r \in Nodes!Blocks : Expire(r)) \/ Update
      PROVE  HInv'
  BY <1>2, <1>8 DEF Expire, Update, Idle
<1>9. CASE Next
  <2>1. ASSUME NEW i \in Slots,
               \/ Connect(i) \/ Die(i) \/ Handshake(i) \/ Gone(i) \/ Say(i)
               \/ \E lost \in SUBSET router.index : RoomCreate(i, lost)
               \/ \E j \in Slots, r \in Nodes!Blocks : RoomJoin(i, j, r)
        PROVE  HInv'
    BY <1>3, <1>4, <1>5, <1>6, <2>1, SayHears, RoomJoinHears
  <2>2. ASSUME NoConnection
        PROVE  HInv'
    BY <2>2 DEF NoConnection, HInv
  <2> QED BY <1>7, <1>8, <1>9, <2>1, <2>2, PassHears, SendHears, SendFailsHears, FinishHears,
             FinishCloseHears DEF Next
<1>10. CASE UNCHANGED vars
  BY <1>10 DEF vars, HInv, Hears, Undisturbed, Ended, Waiting
<1> QED BY <1>9, <1>10

\* A walk in which nobody was closed has reached, at its end, whom it was to reach.
LEMMA WalkEnds ==
    ASSUME NEW R, Agree(R), NEW C, NEW f \in Frames, Undisturbed(R, C, f),
           NextMember(R, f.who, f.at) = None
    PROVE  Range(f.heard) = f.due
<1>1. f.who \in Slots
  BY DEF Frames
<1>2. CASE ~InRoom(R, f.who)
  BY <1>2 DEF Undisturbed, RoomMates, Once
<1>3. CASE InRoom(R, f.who)
  <2> DEFINE c == Room(R, f.who)
  <2>1. /\ M!IsList(c) /\ Members!NextBlock(c, f.at) = None
        /\ \A y \in M!InUse(c) : c.data[y] \in Slots
    <3> DEFINE i == f.who
               at == f.at
    <3>1. i \in Slots /\ InRoom(R, i)
      BY <1>1, <1>3
    <3> HIDE DEF i, at
    <3>2. /\ M!IsList(Room(R, i)) /\ \A p : NextMember(R, i, p) = Members!NextBlock(Room(R, i), p)
          /\ \A y \in M!InUse(Room(R, i)) : Room(R, i).data[y] \in Slots
      BY <3>1, RoomIs, Zenon
    <3> QED BY <3>2 DEF i, at
  <2>2. PICK o, u : /\ M!ListOf(c, o, u)
                    /\ \E n \in 0 .. u :
                          /\ f.at = IF n = 0 THEN None ELSE o[n - 1]
                          /\ Range(f.heard) = {c.data[o[k]] : k \in 0 .. n - 1} \cap f.due
    BY <1>3, Zenon DEF Undisturbed, Walked
  <2>3. PICK n \in 0 .. u : /\ f.at = IF n = 0 THEN None ELSE o[n - 1]
                            /\ Range(f.heard) = {c.data[o[k]] : k \in 0 .. n - 1} \cap f.due
    BY <2>2
  <2>4. /\ Members!NextBlock(c, None) = IF u = 0 THEN None ELSE o[0]
        /\ \A k \in 0 .. u - 1 : Members!NextBlock(c, o[k]) = IF k + 1 = u THEN None ELSE o[k + 1]
    BY <2>2, M!NextBlockIs, Bounds, SameMembers
  <2>5. M!InUse(c) = {o[k] : k \in 0 .. u - 1} /\ u \in Nat
    BY <2>2, M!InUseIs, Bounds
  <2>6. RoomMates(R, f.who) = {c.data[y] : y \in M!InUse(c)}
    <3>1. Used(c) = M!InUse(c)
      BY <2>1, UsedIs
    <3> QED BY <1>3, <3>1 DEF RoomMates, Room
  <2>7. \A k \in 0 .. u - 1 : o[k] # None
    <3>1. M!InUse(c) \subseteq Members!Blocks
      BY <2>1, MembersAre
    <3> QED BY <2>5, <3>1, Bounds
  <2> HIDE DEF c
  <2>8. n = u
    <3>1. CASE n = 0
      <4>1. u = 0 \/ 0 \in 0 .. u - 1
        BY <2>5
      <4> QED BY <2>1, <2>3, <2>4, <2>7, <3>1, <4>1
    <3>2. CASE n # 0 /\ n # u
      <4>1. n - 1 \in 0 .. u - 1 /\ (n - 1) + 1 = n /\ n \in 0 .. u - 1
        BY <2>5, <3>2
      <4> QED BY <2>1, <2>3, <2>4, <2>7, <3>2, <4>1
    <3> QED BY <3>1, <3>2
  <2>9. RoomMates(R, f.who) = {c.data[o[k]] : k \in 0 .. u - 1}
    BY <2>5, <2>6
  <2>10. f.due \subseteq RoomMates(R, f.who)
    BY DEF Undisturbed
  <2> QED BY <2>3, <2>8, <2>9, <2>10
<1> QED BY <1>2, <1>3

\* Only the end of a walk takes a call away.
LEMMA Shorter ==
    ASSUME IInv, HInv, Next, Len(stack') < Len(stack), Top.kind # "http"
    PROVE  stack # << >> /\ Reached = None
<1>1. ASSUME Idle
      PROVE  FALSE
  <2>1. Len(stack) = 0 /\ stack' \in Seq(Frames)
    BY <1>1, NextInv DEF Idle, IInv, Typed
  <2>2. Len(stack') \in Nat
    BY <2>1
  <2> QED BY <2>1, <2>2
<1>2. ASSUME Walking, Pass \/ NoConnection \/ Send \/ SendFails
      PROVE  FALSE
  <2>1. Len(stack) \in Nat \ {0} /\ stack \in Seq(Frames) /\ stack # << >>
    BY <1>2, TopIs DEF Walking, IInv, Typed
  <2>2. \A g : /\ Len([stack EXCEPT ![Len(stack)] = g]) = Len(stack)
               /\ \A f : Len([stack EXCEPT ![Len(stack)] = g] \o <<f>>) = Len(stack) + 1
    <3> TAKE g
    <3> DEFINE S == [stack EXCEPT ![Len(stack)] = g]
    <3>1. S \in Seq(Frames \cup {g}) /\ Len(S) = Len(stack)
      <4> HIDE DEF Frames
      <4> QED BY <2>1
    <3> HIDE DEF S
    <3>2. \A f : Len(S \o <<f>>) = Len(stack) + 1
      <4> HIDE DEF Frames
      <4> QED BY <2>1, <3>1
    <3> QED BY <3>1, <3>2 DEF S
  <2>3. \/ stack' = [stack EXCEPT ![Len(stack)] = [Top EXCEPT !.at = Reached]]
        \/ stack' = [stack EXCEPT ![Len(stack)] =
                        [Top EXCEPT !.at = Reached, !.heard = Append(Top.heard, Member)]]
        \/ stack' = [stack EXCEPT ![Len(stack)] = [Top EXCEPT !.at = Reached, !.closed = TRUE]]
                        \o <<Call("close", Member, router, conns)>>
        \/ stack' = stack
    BY <1>2, Zenon DEF Pass, NoConnection, Send, SendFails, Top
  <2> QED BY <2>1, <2>2, <2>3
<1>3. Pass \/ NoConnection \/ Send \/ SendFails => Walking
  BY DEF Pass, NoConnection, Send, SendFails
<1>4. \A i \in Slots : ~Die(i)
  BY DEF Die
<1>5. Finish \/ FinishClose
  BY <1>1, <1>2, <1>3, <1>4
     DEF Next, Connect, Expire, Handshake, Gone, RoomCreate, RoomJoin, Say, Update, Answered
<1> QED BY <1>5 DEF Finish, FinishClose

\* A message reaches everybody in the room who can be reached, once, and nobody else, unless a
\* member turned out to be gone on the way; and then only in a room that was full does the walk
\* go on.
THEOREM HearsTheRoomAlways == Spec => HearsTheRoom
<1>1. Init => HInv
  BY FirstHears DEF Init, HInv
<1>2. IInv /\ HInv /\ [Next]_vars => HInv'
  BY NextHears
<1>3. ASSUME IInv, HInv, Next, Len(stack') < Len(stack), Top.kind # "http"
      PROVE  /\ ~Top.closed => Range(Top.heard) = Top.due
             /\ ~Top.full => Range(Top.heard) \subseteq Top.due
             /\ (Top.closed /\ Top.full) \/ Len(Top.heard) = Cardinality(Range(Top.heard))
  <2>1. stack # << >> /\ NextMember(router, Top.who, Top.at) = None
    BY <1>3, Shorter DEF Reached
  <2>2. Top \in Frames /\ Agree(router)
    BY <1>3, <2>1, TopIs DEF IInv
  <2>3. /\ ~Top.closed => Undisturbed(router, conns, Top) /\ Once(Top)
        /\ Top.closed /\ ~Top.full => Once(Top)
    BY <1>3, <2>1, TopHears DEF Undisturbed
  <2>4. ~Top.closed => Range(Top.heard) = Top.due
    BY <2>1, <2>2, <2>3, WalkEnds
  <2> QED BY <2>3, <2>4 DEF Once
<1>4. IInv /\ HInv /\ [Next]_vars =>
        [Len(stack') < Len(stack) /\ Top.kind # "http" =>
            /\ ~Top.closed => Range(Top.heard) = Top.due
            /\ ~Top.full => Range(Top.heard) \subseteq Top.due
            /\ (Top.closed /\ Top.full) \/ Len(Top.heard) = Cardinality(Range(Top.heard))]_vars
  BY <1>3
<1> QED BY <1>1, <1>2, <1>4, Invariance, PTL DEF Spec, HearsTheRoom

-----------------------------------------------------------------------------
\* After a crash nothing happens any more.
Crash == crashed => IF Member = NoSlot THEN Top.closed /\ Top.full
                    ELSE Cardinality(Unreachable(Top.who)) > 1

\* What the crash is said of.
Fallen == <<Member, Top, Unreachable(Top.who)>>

\* The step that uses up the stack is that of a close which comes to another member who
\* cannot be reached.
LEMMA StackUsedUp ==
    ASSUME MaxDepth > 2, IInv, SendFails, crashed' # crashed
    PROVE  Member # NoSlot /\ Cardinality(Unreachable(Top.who)) > 1
<1>1. /\ Walking /\ Member # NoSlot /\ ~PassedOver /\ ~conns[Member].alive
      /\ ~(Len(stack) < MaxDepth)
  BY DEF SendFails
<1>2. Len(stack) > 2
  <2>1. Len(stack) \in Nat /\ MaxDepth \in Nat
    BY RoomsAssumption DEF IInv, Typed
  <2> QED BY <1>1, <2>1
<1>3. /\ Top.kind = "close" /\ conns[Top.who].phase = "ws" /\ ~conns[Top.who].alive
      /\ stack # << >> /\ Reached # None /\ Top.who \in Slots
  BY <1>1, <1>2, Third, TopIs DEF Walking, IInv
<1>4. /\ InRoom(router, Top.who) /\ Member \in Slots
      /\ router.places[Member] = [room |-> router.places[Top.who].room, block |-> Reached]
  BY <1>3, ReachedIs
<1>5. InRoom(router, Member) /\ router.places[Top.who].room = router.places[Member].room
  BY <1>3, <1>4 DEF InRoom, NoPlace
<1>6. Member # Top.who
  BY <1>1, <1>3 DEF PassedOver
<1> QED BY <1>1, <1>3, <1>4, <1>5, <1>6, TwoGone

\* A walk in which nobody was closed, and one in a room that was not full, come to members only.
LEMMA NullReached ==
    ASSUME IInv, HInv, Walking, Member = NoSlot
    PROVE  Top.closed /\ Top.full
<1>1. /\ Top \in Frames /\ Reached # None /\ stack # << >> /\ Top.kind # "http" /\ Agree(router)
      /\ Reached \in Members!Blocks /\ Member = Room(router, Top.who).data[Reached]
  BY TopIs, ReachedIs DEF IInv, Walking
<1>2. ASSUME ~Top.closed
      PROVE  FALSE
  <2>1. Undisturbed(router, conns, Top)
    BY <1>1, <1>2, TopHears
  <2>2. /\ InRoom(router, Top.who) /\ Member \in Slots
        /\ \A h : Further(Top, h, Reached, Member) => Walked(Room(router, Top.who), h)
    <3>1. Reached = NextMember(router, Top.who, Top.at)
      BY DEF Reached
    <3> QED BY ONLY <1>1, <2>1, <3>1, WalkedOn
  <2> QED BY <2>2, Bounds
<1>3. Top.closed /\ ~Top.full => FALSE
  BY <1>1, TopHears
<1>4. Top.closed \in BOOLEAN /\ Top.full \in BOOLEAN
  BY <1>1 DEF Frames
<1> QED BY <1>2, <1>3, <1>4

\* Nothing but these two steps brings the crash, and neither changes anything else.
LEMMA CrashInv == ASSUME MaxDepth > 2, IInv, HInv, Crash, [Next]_vars PROVE Crash'
<1>1. ASSUME conns' = conns, router' = router, stack' = stack
      PROVE  Fallen' = Fallen
  BY <1>1 DEF Fallen, Member, Reached, NextMember, Unreachable, RoomMates, InRoom, Top
<1>2. CASE crashed /\ Next
  <2>1. FALSE
    BY <1>2 DEF Next, Connect, Die, Handshake, Gone, Say, RoomCreate, RoomJoin, Expire, Update,
                Pass, NoConnection, Send, SendFails, Finish, Answered, FinishClose, Idle, Walking
  <2> QED BY <2>1
<1>3. CASE UNCHANGED vars
  BY <1>1, <1>3 DEF Crash, vars, Fallen
<1>4. CASE SendFails /\ crashed' # crashed
  <2>1. conns' = conns /\ router' = router /\ stack' = stack
    BY <1>4 DEF SendFails
  <2> QED BY <1>1, <1>4, <2>1, StackUsedUp DEF Crash, Fallen
<1>5. CASE NoConnection
  <2>1. conns' = conns /\ router' = router /\ stack' = stack /\ Walking /\ Member = NoSlot
    BY <1>5 DEF NoConnection
  <2> QED BY <1>1, <2>1, NullReached DEF Crash, Fallen
<1>6. CASE ~crashed /\ Next /\ ~NoConnection /\ ~(SendFails /\ crashed' # crashed)
  <2>1. crashed' = crashed
    BY <1>6 DEF Next, Connect, Die, Handshake, Gone, Say, RoomCreate, RoomJoin, Expire,
                Update, Pass, Send, Finish, Answered, FinishClose
  <2> QED BY <1>6, <2>1 DEF Crash
<1> QED BY <1>2, <1>3, <1>4, <1>5, <1>6

\* A close callback is called again while it is under way, and a stack that holds more than two
\* calls is used up, only when two members of a room cannot be reached; NULL is read only by a
\* walk that closed somebody in a room that was full.
THEOREM LossSurvivedAlways ==
    ASSUME MaxDepth > 2
    PROVE  Spec => []LossSurvived
<1>1. Init => HInv /\ Crash
  BY FirstHears DEF Init, HInv, Crash
<1>2. IInv /\ HInv /\ Crash /\ [Next]_vars => HInv' /\ Crash'
  BY NextHears, CrashInv
<1>3. IInv /\ Crash => LossSurvived
  BY ReenteredThen DEF LossSurvived, Crash
<1> QED BY <1>1, <1>2, <1>3, Invariance, PTL DEF Spec

=============================================================================
