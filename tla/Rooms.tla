-------------------------------- MODULE Rooms --------------------------------
(***************************************************************************)
(* The rooms of the API server: qs_packet_route.c, the callbacks of         *)
(* qs_api.c that send to a room, and the requests that make and join one.   *)
(*                                                                          *)
(* The router keeps the rooms in a chain, oldest first, and the members of  *)
(* a room in a chain of connection indices; for every slot of the           *)
(* connection table it keeps the member's place and an id, by which a       *)
(* client is joined to a room.  A message goes to the members one by one;   *)
(* a member that cannot be reached is closed, and the close callback walks  *)
(* the same room while the outer walk stands in it.  The calls under way    *)
(* are a stack of frames.                                                   *)
(*                                                                          *)
(* The name index of the rooms is a cache (KeyValueCache): here a set from  *)
(* which a put may lose names.  The slots are settled as in ConnectionTable *)
(* and are here open or closed.                                             *)
(***************************************************************************)
EXTENDS Integers, Sequences, FiniteSets, Functions, TLC

CONSTANTS
    Slots,         \* the slots of the connection table
    First,         \* the slot whose index is 0
    NoSlot,        \* the index -1
    MaxRooms, RoomCapacity,
    MaxRequests,   \* bounds of the model: the requests for rooms,
    MaxDepth       \* and the calls that the machine's stack can hold

ASSUME RoomsAssumption ==
    /\ First \in Slots /\ NoSlot \notin Slots
    /\ {MaxRooms, RoomCapacity} \subseteq Nat \ {0} /\ {MaxRequests, MaxDepth} \subseteq Nat

None == -1

Nodes   == INSTANCE Chain WITH Capacity <- MaxRooms, Values <- {None}, NoValue <- None
Members == INSTANCE Chain WITH Capacity <- RoomCapacity,
                               Values <- Slots \cup {NoSlot}, NoValue <- First

VARIABLES
    conns,    \* the connections: open, able to be sent to, and how far the protocol is
    router,   \* the rooms, their order and names, the places and ids of the slots
    stack,    \* the calls under way
    crashed,  \* the program has stopped: its stack was used up, or it read through NULL
    requests  \* the requests that made or joined a room

vars == <<conns, router, stack, crashed, requests>>

NoPlace == [room |-> None, block |-> None]
Closed  == [open |-> FALSE, alive |-> FALSE, phase |-> "http"]

\* qs_init_packet_route
Init ==
    /\ conns = [i \in Slots |-> Closed]
    /\ router = [nodes   |-> Nodes!NewChain,
                 rooms   |-> [r \in Nodes!Blocks |-> [members |-> Members!NewChain, over |-> FALSE]],
                 index   |-> {},
                 places  |-> [i \in Slots |-> NoPlace],
                 ids     |-> {}]
    /\ stack = << >> /\ crashed = FALSE /\ requests = 0

-----------------------------------------------------------------------------
\* the rooms in use, oldest first
RoomOrder(R) ==
    LET after[k \in Nodes!Blocks] ==
            Nodes!NextBlock(R.nodes, IF k = 0 THEN None ELSE after[k - 1])
        count == CHOOSE k \in Nodes!Blocks :
                    after[k] = None /\ \A j \in 0 .. k - 1 : after[j] # None
    IN  [k \in 1 .. count |-> after[k - 1]]

\* the members taken out one after the other, each once the next is known
Emptied(c) ==
    LET walk[k \in 0 .. RoomCapacity] ==
            IF k = 0 THEN [chain |-> c, at |-> Members!NextBlock(c, None)]
            ELSE LET w == walk[k - 1]
                 IN  IF w.at = None THEN w
                     ELSE [chain |-> Members!RemoveChain([w.chain EXCEPT !.data[w.at] = NoSlot], w.at),
                           at    |-> Members!NextBlock(w.chain, w.at)]
    IN  walk[RoomCapacity].chain

\* the places of its members kept
RemoveRoom_KeepPlaces(R, r) ==
    [R EXCEPT !.rooms[r].members = Emptied(@), !.index = @ \ {r},
              !.nodes = Nodes!RemoveChain(@, r)]

\* qs_remove_packet_route_core
RemoveRoom(R, r) ==
    [R EXCEPT !.rooms[r].members = Emptied(@), !.index = @ \ {r},
              !.nodes  = Nodes!RemoveChain(@, r),
              !.places = [i \in Slots |-> IF @[i].room = r THEN NoPlace ELSE @[i]]]

\* the first room of the chain that is among S, if there is one
RemoveFirst(R, S) ==
    LET found == {k \in DOMAIN RoomOrder(R) : RoomOrder(R)[k] \in S}
    IN  IF found = {} THEN R
        ELSE RemoveRoom(R, RoomOrder(R)[CHOOSE k \in found : \A j \in found : k <= j])

Vacant(R, r) == Members!NextBlock(R.rooms[r].members, None) = None

\* qs_clean_packet_route: members or not
Clean(R) == RemoveFirst(R, {r \in DOMAIN R.rooms : R.rooms[r].over})

\* qs_update_packet_route
UpdateRouter(R) == RemoveFirst(R, {r \in DOMAIN R.rooms : R.rooms[r].over /\ Vacant(R, r)})

\* qs_create_packet_route; the index may lose other names
CreateRoom(R, lost) ==
    LET S == IF Nodes!FreeBlock(R.nodes) = None THEN Clean(R) ELSE R
        r == Nodes!FreeBlock(S.nodes)
    IN  IF r = None THEN S
        ELSE [S EXCEPT !.nodes = Nodes!AddChain(@, None), !.rooms[r].over = FALSE,
                       !.index = (@ \ lost) \cup {r}]

\* qs_add_packet_route_connection
AddConnection(R, r, i) ==
    LET c == R.rooms[r].members
    IN  [R EXCEPT !.rooms[r].members = Members!AddChain(c, i),
                  !.places[i] = [room |-> r, block |-> Members!FreeBlock(c)]]

\* qs_remove_packet_route_connection; a room that is over goes with its last member
RemoveConnection(R, i) ==
    LET p == R.places[i]
        c == Members!RemoveChain(R.rooms[p.room].members, p.block)
        S == [R EXCEPT !.rooms[p.room].members = [c EXCEPT !.data[p.block] = NoSlot],
                       !.places[i] = NoPlace]
    IN  IF Vacant(S, p.room) /\ S.rooms[p.room].over THEN RemoveRoom(S, p.room) ELSE S

\* qs_foreach_packet_route_connection_chain, for the member i
NextMember(R, i, block) ==
    LET c == R.rooms[R.places[i].room].members
    IN  IF R.places[i] = NoPlace THEN None
        ELSE IF c.data[R.places[i].block] # i THEN None
        ELSE Members!NextBlock(c, block)

-----------------------------------------------------------------------------
Used(c) ==
    LET after[k \in Members!Blocks] == Members!NextBlock(c, IF k = 0 THEN None ELSE after[k - 1])
    IN  {after[k] : k \in {j \in Members!Blocks : \A l \in 0 .. j : after[l] # None}}

InRoom(R, i) == R.places[i] # NoPlace
RoomMates(R, i) ==
    IF InRoom(R, i)
    THEN LET c == R.rooms[R.places[i].room].members IN {c.data[b] : b \in Used(c)}
    ELSE {}
FullRoom(R, i) ==
    InRoom(R, i) /\ Members!FreeBlock(R.rooms[R.places[i].room].members) = None

\* A call under way: whose room it walks, where it stands, and for the properties whom it
\* is to reach, whom it has reached, whether it closed somebody and whether the room was full.
Call(kind, i, R, C) ==
    [kind |-> kind, who |-> i, at |-> None, heard |-> << >>, closed |-> FALSE,
     due  |-> {j \in RoomMates(R, i) : C[j].phase = "ws"} \ (IF kind = "close" THEN {i} ELSE {}),
     full |-> FullRoom(R, i)]

HungUp(C, i) == [C EXCEPT ![i].open = FALSE, ![i].alive = FALSE]
Idle == stack = << >> /\ ~crashed
Top  == stack[Len(stack)]
Below == SubSeq(stack, 1, Len(stack) - 1)

-----------------------------------------------------------------------------
\* qs_accept gives the slot to a client: whatever the router has for the slot stays
Connect(i) ==
    /\ Idle /\ ~conns[i].open
    /\ conns' = [conns EXCEPT ![i] = [open |-> TRUE, alive |-> TRUE, phase |-> "http"]]
    /\ UNCHANGED <<router, stack, crashed, requests>>

\* The peer is gone, and from now on sends fail; it may be in the middle of a walk.  Nothing
\* is sent to a client who does not speak websocket yet: that one is gone when it is read.
Die(i) ==
    /\ ~crashed /\ conns[i].open /\ conns[i].alive /\ conns[i].phase = "ws"
    /\ conns' = [conns EXCEPT ![i].alive = FALSE]
    /\ UNCHANGED <<router, stack, crashed, requests>>

\* The life time of a room ends: the oldest is first, and nothing puts it off.
Expire(r) ==
    /\ Idle
    /\ LET left == SelectSeq(RoomOrder(router), LAMBDA x : ~router.rooms[x].over)
       IN  left # << >> /\ r = Head(left)
    /\ router' = [router EXCEPT !.rooms[r].over = TRUE]
    /\ UNCHANGED <<conns, stack, crashed, requests>>

\* the handshake, after which qs_change_packet_route_connection_id gives the slot a new id
Handshake(i) ==
    /\ Idle /\ conns[i].open /\ conns[i].alive /\ conns[i].phase = "http"
    /\ conns' = [conns EXCEPT ![i].phase = "shaken"]
    /\ router' = [router EXCEPT !.ids = @ \cup {i}]
    /\ UNCHANGED <<stack, crashed, requests>>

\* The connection is ended: by the client, after a request that changes no room has been
\* answered, or for what it sent.  The slot is freed, then its close callback is called.
Gone(i) ==
    /\ Idle /\ conns[i].open
    /\ conns' = HungUp(conns, i)
    /\ stack' = <<Call("close", i, router, conns)>>
    /\ UNCHANGED <<router, crashed, requests>>

\* room/create
RoomCreate(i, lost) ==
    /\ Idle /\ conns[i].open /\ conns[i].phase = "http"
    /\ requests < MaxRequests /\ requests' = requests + 1
    /\ router' = CreateRoom(router, lost)
    /\ conns' = HungUp(conns, i)
    /\ stack' = <<Call("close", i, router', conns)>>
    /\ UNCHANGED crashed

\* anybody may be joined again
Joinable_Always(j, r) ==
    /\ j \in router.ids /\ r \in router.index
    /\ Members!FreeBlock(router.rooms[r].members) # None

\* what api_qs_room_join asks for: an id that was given to a slot, though its client may
\* have gone, no room yet, a name that is known, and a free block
Joinable(j, r) ==
    /\ j \in router.ids /\ ~InRoom(router, j) /\ r \in router.index
    /\ Members!FreeBlock(router.rooms[r].members) # None

\* room/join: the request of i names the id of j
RoomJoin(i, j, r) ==
    /\ Idle /\ conns[i].open /\ conns[i].phase = "http"
    /\ Joinable(j, r) /\ requests < MaxRequests
    /\ router' = AddConnection(router, r, j)
    /\ stack' = <<Call("http", i, router', conns), Call("join", j, router', conns)>>
    /\ requests' = requests + 1
    /\ UNCHANGED <<conns, crashed>>

\* api_qs_send_ws_message_common; out of a room the message goes back to the sender only
Say(i) ==
    /\ Idle /\ conns[i].open /\ conns[i].phase # "http"
    /\ conns' = [conns EXCEPT ![i].phase = "ws"]
    /\ stack' = IF InRoom(router, i) THEN <<Call("say", i, router, conns')>> ELSE << >>
    /\ UNCHANGED <<router, crashed, requests>>

\* api_qs_update, every minute
Update ==
    /\ Idle /\ UpdateRouter(router) # router
    /\ router' = UpdateRouter(router)
    /\ UNCHANGED <<conns, stack, crashed, requests>>

-----------------------------------------------------------------------------
Reached == NextMember(router, Top.who, Top.at)
Member  == router.rooms[router.places[Top.who].room].members.data[Reached]

Walking == stack # << >> /\ ~crashed /\ Top.kind # "http" /\ Reached # None

\* a close sends to its own slot too
PassedOver_Self == Member \in Slots /\ conns[Member].phase # "ws"

\* a message is sent whatever the client speaks
PassedOver_NoPhase == Top.kind = "close" /\ Member = Top.who

\* a close passes over its own slot, and every walk over those who do not speak websocket
PassedOver ==
    \/ Top.kind = "close" /\ Member = Top.who
    \/ Member \in Slots /\ conns[Member].phase # "ws"

\* For the index -1 qs_offsetpointer answers NULL, as the product with the length of an
\* entry wraps beyond the table; the walk reads acc there without a look.
NoConnection ==
    /\ Walking /\ Member = NoSlot
    /\ crashed' = TRUE
    /\ UNCHANGED <<conns, router, stack, requests>>

Pass ==
    /\ Walking /\ PassedOver
    /\ stack' = [stack EXCEPT ![Len(stack)].at = Reached]
    /\ UNCHANGED <<conns, router, crashed, requests>>

Send ==
    /\ Walking /\ Member # NoSlot /\ ~PassedOver /\ conns[Member].alive
    /\ stack' = [stack EXCEPT ![Len(stack)] =
                    [@ EXCEPT !.at = Reached, !.heard = Append(Top.heard, Member)]]
    /\ UNCHANGED <<conns, router, crashed, requests>>

\* the member is closed within the walk, or the machine's stack is used up
SendFails ==
    /\ Walking /\ Member # NoSlot /\ ~PassedOver /\ ~conns[Member].alive
    /\ IF Len(stack) < MaxDepth
       THEN /\ stack' = [stack EXCEPT ![Len(stack)] = [@ EXCEPT !.at = Reached, !.closed = TRUE]]
                            \o <<Call("close", Member, router, conns)>>
            /\ UNCHANGED crashed
       ELSE crashed' = TRUE /\ UNCHANGED stack
    /\ UNCHANGED <<conns, router, requests>>

\* the end of a walk for a message
Finish ==
    /\ stack # << >> /\ ~crashed /\ Top.kind \in {"say", "join"} /\ Reached = None
    /\ stack' = Below
    /\ UNCHANGED <<conns, router, crashed, requests>>

\* the request has been answered: the connection is closed
Answered ==
    /\ stack # << >> /\ ~crashed /\ Top.kind = "http"
    /\ conns' = HungUp(conns, Top.who)
    /\ stack' = <<Call("close", Top.who, router, conns)>>
    /\ UNCHANGED <<router, crashed, requests>>

\* the end of api_qs_core_on_close: out of the room that was found when it began, where
\* the slot has its place still (MembersAgree)
Left(i) == IF InRoom(router, i) THEN RemoveConnection(router, i) ELSE router

\* the end of qs_close_socket_common
FinishClose ==
    /\ stack # << >> /\ ~crashed /\ Top.kind = "close" /\ Reached = None
    /\ router' = Left(Top.who)
    /\ conns' = [conns EXCEPT ![Top.who].phase = "http"]
    /\ stack' = Below
    /\ UNCHANGED <<crashed, requests>>

Next ==
    \/ \E i \in Slots :
        \/ Connect(i) \/ Die(i) \/ Handshake(i) \/ Gone(i) \/ Say(i)
        \/ \E lost \in SUBSET router.index : RoomCreate(i, lost)
        \/ \E j \in Slots, r \in Nodes!Blocks : RoomJoin(i, j, r)
    \/ \E r \in Nodes!Blocks : Expire(r)
    \/ Update \/ Pass \/ NoConnection \/ Send \/ SendFails \/ Finish \/ Answered \/ FinishClose

Spec == Init /\ [][Next]_vars

\* the slots whose index is not 0 are alike
Symmetry == Permutations(Slots \ {First})

-----------------------------------------------------------------------------
\* The two halves of a membership agree, through evictions, nested closes and joins with the
\* ids of clients who have gone: a slot's place is the block in use of a room in use that
\* holds the slot, and every block in use is somebody's place.  So nobody is in two rooms,
\* a name leads to a room in use, and a close callback that walks a room still has its own
\* place when it comes to give it up without a look (qs_remove_packet_route_connection).
MembersAgree ==
    LET inUse == Range(RoomOrder(router))
        held  == {[room |-> r, block |-> b] : r \in inUse, b \in Members!Blocks}
    IN  /\ \A i \in Slots : InRoom(router, i) =>
                /\ router.places[i] \in held
                /\ router.places[i].block \in Used(router.rooms[router.places[i].room].members)
        /\ \A r \in Nodes!Blocks : \A b \in Used(router.rooms[r].members) :
                LET i == router.rooms[r].members.data[b]
                IN  i \in Slots /\ router.places[i] = [room |-> r, block |-> b]
        /\ router.index \subseteq inUse
        /\ \A k \in DOMAIN stack :
                stack[k].kind = "close" /\ stack[k].at # None => InRoom(router, stack[k].who)

\* A message reaches everybody in the room who can be reached, once, and nobody else, unless
\* a member turned out to be gone on the way: then the walk may end early, and only in a
\* room that was full does it go on, to a block that is nobody's and may hold the index 0.
HearsTheRoom ==
    [][Len(stack') < Len(stack) /\ Top.kind # "http" =>
        /\ ~Top.closed => Range(Top.heard) = Top.due
        /\ ~Top.full => Range(Top.heard) \subseteq Top.due
        /\ (Top.closed /\ Top.full) \/ Len(Top.heard) = Cardinality(Range(Top.heard))]_vars

\* The loss of one member is survived.  The close callback of a slot is called again while
\* it is under way, and with that the stack is used up in the end, only when two members of
\* a room cannot be reached.  NULL is read only by a walk that closed somebody in a room
\* that was full: there the loss of one is enough, if the block behind the last member was
\* somebody's before.
Reentered ==
    \E k, l \in DOMAIN stack : k < l /\ stack[k].kind = "close" /\ stack[l].kind = "close"
                               /\ stack[k].who = stack[l].who
Unreachable(i) == {j \in RoomMates(router, i) : ~conns[j].alive}
LossSurvived ==
    /\ Reentered => Cardinality(Unreachable(Top.who)) > 1
    /\ crashed => IF Member = NoSlot THEN Top.closed /\ Top.full
                  ELSE Cardinality(Unreachable(Top.who)) > 1
=============================================================================
