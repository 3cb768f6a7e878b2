# network.library, modelled in TLA+

The repository is a C library for small network programs: a pool allocator, containers that
live in a pool, a single-threaded TCP/UDP server and client, a message framing, HTTP and
WebSocket, rooms, a key-value cache and a little script language. There are no tests in it;
the samples under `src/sample` show how it is called. Paths below are relative to
`src/core/src` unless they say otherwise.

This directory holds TLA+ modules that follow the code, TLC configurations that check them,
and TLAPS proofs. Sections 1 to 3 are the inventory and the plan, 4 to 8 say what is modelled,
checked and proved, 9 what is not.

## 1. Inventory

| Component | State it keeps | Operations | Talks to |
|---|---|---|---|
| Memory pool (`qs_memory_allocator.c`) | one arena; `top`, `bottom`, table of unit records (place, size, status, links), tail, error code | create pool, create block / fixed block, free, clean, realloc | `malloc`/`realloc`; every other component keeps its data here, by id |
| Mini and mapped pools (same file) | a pool inside a block; a pool in a file | clone, copy, resize; `mmap`, sync, reopen | file system |
| Message queue (`qs_queue.c`) | ring of buffers, `top`, `tail`, `status`; optional mutex | create, enqueue, safe enqueue, dequeue, length | pool; threads of the application |
| Chain array (`qs_chain_array.c`) | blocks doubly linked by index; start, tail, end | add, get next, remove, (resize, unused) | pool; server (free slots), rooms, cache |
| Server (`qs_socket.c`) | connection table, accept pool of free indices, sockets, receive buffers, ages and counters | accept, receive loop, timeout, send and broadcast, disconnect | kernel; callbacks of the application; pool, chain array |
| Client (`qs_socket.c`) | one connection | connect, wait, update | as the server |
| Framing (`qs_socket.c`) | receive buffer, saved part of a header, position of the next message | parse header and body, make a message | server and client |
| Hash, array (`qs_hash.c`, `qs_array.c`) | buckets with holes; growing vectors | add, look up, remove, resize | pool |
| Key-value cache (`qs_variable.c`) | two pages, a chain of keys | add, get, remove, swap of the pages | hash, chain array, pool |
| Rooms (`qs_packet_route.c`) | chain of rooms, chain of members of each, life times | create, join, leave, remove, clean, broadcast | chain array, cache, server |
| API server, HTTP, WebSocket (`qs_api.c`, `qs_protocol.c`) | phase of each connection | routing, handshake, frames, close callback | server, rooms, cache |
| Script, tokens, JSON, CSV, strings, base64, SHA-1 | syntax trees and strings in a pool | parse, run, convert | pool |
| Files, random, log, system | little | thin wrappers; a scheduler | operating system |

**What is hard in it.** The program is C with ids instead of pointers, so mistakes are not
crashes at the place where they are made: a record lost from the pool's table, a byte given
out twice, a link not mended, a slot entered twice in the pool of free slots all show many
calls later. The server is one thread, so its races are between its own steps and the network:
a client that goes in the pass in which its time is up, a send that fails inside a callback, a
descriptor that the kernel gives out again. The queue is the one place that is meant for
threads. `PROJECT.json` lists each hazard at its line with the properties that watch it.

**What makes each component correct.** The pool: blocks apart, table apart from data, no byte
lost, failure leaves the rest alone. The queue: first in, first out, drops its oldest only.
The chain: a bounded list; no block lost; a walk may remove what it leaves. The server: a slot
owns its socket; a client is refused only when the table is full; a closed connection is
announced before its slot is used again; a silent client goes, and not before its time. The
framing: the messages found do not depend on how the bytes were cut into reads. The cache: keys
are not mixed up and a value put is answered. Rooms: a member is in one room and can always be
removed; a message reaches the room. HTTP and WebSocket: the handlers get what was sent, however it was
cut. Scripts: a script means what it says, and leaves nothing behind for the next.

Where the code falls short of such a sentence, the property is stated with the exceptions the code
makes, each of them by name, so that it is as strong as the code allows; section 6 lists them.

## 2. Plan

In this order; item 10 is still to come.

1. `MemoryPool` with `Allocator` as its abstract specification, proved. Everything stands on it.
2. `MessageQueue` with `DropOldestQueue`, proved; `MessageQueueThreads` for its use by threads.
3. `Chain` (operators) and `ChainArray` with `BoundedList`.
4. `ConnectionTable`, which takes `Chain` by INSTANCE for the accept pool.
5. `MessageFraming`: `get_parse_header`, `qs_parse_socket_binary` and the loop of `qs_recv_event`, shown
   to implement `MessageChannel`, liveness included.
6. `Hash` (operators) and `KeyValueCache`: buckets, pages, swap, chain of keys.
7. `Rooms`, which composes two kinds of `Chain` with the connections and the callbacks that send.
8. The script engine: `ScriptParser`, `ScriptMeaning` (the reference), `Script`, `ScriptPrograms`.
9. `HttpConnection` over `HttpRequest` and `WebSocketFrames`, with `HttpRequests`.
10. A file-backed pool with sync, crash and reopen; UDP; the scheduler.
11. Proofs, in the order of the modules: pool, queue, queue of threads, chain, server, framing, rooms and cache
    are done (section 7). Section 8 says why HTTP and the scripts are left to TLC.

## 3. How the modules are put together

```
Allocator <-- MemoryPool <-- MemoryPoolProofs
DropOldestQueue <-- MessageQueue <-- MessageQueueProofs
MessageQueueThreads <-- MessageQueueThreadsProofs
Chain <-- ChainArray --> BoundedList
ChainArray <-- ChainProofs                        (of Chain and of ChainArray)
Chain <-- ConnectionTable <-- ConnectionTableProofs --> ChainProofs
Chain <-- Rooms <-- RoomsProofs --> ChainProofs   (rooms of the router, members of a room)
MessageChannel <-- MessageFraming <-- MessageFramingProofs
Hash <-- KeyValueCache <-- KeyValueCacheProofs
ScriptParser <-- ScriptMeaning <-- Script <-- ScriptPrograms
HttpRequest, WebSocketFrames <-- HttpConnection <-- HttpRequests
```

`ScriptPrograms` and `HttpRequests` only define what their runs are fed with.

A module's C functions are operators from a record (pool, chain, table) to the record after
the call when functions call each other or fail half way, and actions at the top. Definitions
named `X_Something` are the definition `X` with a plausible mistake; each is there to show that
a property of a run notices it, and no specification uses one.

## 4. The modules and the code

**`MemoryPool`.** `pool` is QS_MEMORY_POOL with its table; `units[i]` is QS_MEMORY_UNIT `i`, one
record for each id. `Create`, `CreateFix`, `Free`, `Clean` are `qs_create_munit`,
`qs_create_fixmunit`, `qs_free_memory_unit` and `qs_memory_clean`; below them `FindUnit`
(`qs_find_freemunit`), `Malloc`, `ResizeGarbage`, `Grow` (`qs_realloc_memory`) do what the C
functions do, with their early returns and what a failure leaves behind. `heap` is the longest arena that
`realloc` gives during a call, any of `HeapSizes`, so a growth below `max_size` may fail as well. Left out: the bytes in
the blocks, `id` ranges beyond the table, `qs_free` (the end of a pool), the accessors.
`fault` marks the three places where the C code would go on with a broken table. From
there on the program's behaviour is undefined, and the model has no step.

**`MessageQueue`.** `slots`, `top`, `tail`, `status` are QS_MSGQUEUE and its QS_MSG_INFOs; `made`
is "the handle is not -1". `lent` and `taken` remember the buffer the last dequeue answered.
`CreateHandle` is the creation up to its loop and `CreateSlot` one turn of it, in which either allocation may fail;
`making` is the slot the loop is at. Other calls come when it has ended with the handle set (`Ready`).

**`MessageQueueThreads`.** One step for each access to shared memory, in the order of the
statements; a buffer is written and read in two parts. Producers call `qs_safe_enqueue` (mutex);
the consumer calls `qs_dequeue`, which has no safe form and takes no lock, at any time. `Clash` says which overlaps of
the two spoil the ring, and the history variable `clashed` whether one has happened; no action looks at it.

**`Chain`, `ChainArray`.** `Chain` has the functions of `qs_chain_array.c` on a record with `start`,
`tail`, `end` and the links. `ChainArray` is its user: adds, removes, and walks that may remove the
block they have left (the loop of `qs_remove_packet_route_core`, `qs_packet_route.c:350-362`).

**`ConnectionTable`.** `table.conns[i]` is QS_SERVER_CONNECTION_INFO `i` (`id`, `sockparam.acc`,
`c_status` as default or other, `recv_counter` as zero or not, seconds since `create_time` as
`age`); `table.pool` is the accept pool; `table.open` the kernel's open descriptors; `table.session[i]`
whether the application was last told of a new connection or of a close. `at` is the place in
`qs_server_update`: idle, accept loop, slot `i` to receive, slot `i` in the loop over its messages. The
actions are the branches of `qs_server_update` and `qs_recv_event`: `NoClient`, `AcceptClient`,
`Skip`, `NoData`, `Gone`, `Data`, `BadMessage`, `PartMessage`, `Message`, and around them `Update`,
`Tick` (a second passes) and `Broadcast` (the application sends between updates or from the callback of a new
connection). Accepting always takes the lowest free descriptor, as the kernel does, so a
closed descriptor comes back at once. The history variable `silent`, at which no action looks, holds the slots whose client has
sent nothing; a client that gets a slot by the second half of `qs_accept` counts as the slot's client before it did.

**`MessageFraming`, `MessageChannel`.** `param` is the part of QS_SOCKPARAM that `qs_parse_socket_binary`
uses; `event` is the read `qs_recv_event` is at. A byte is its place in the stream, so a header is right when it
is taken from a place where one begins, and a message delivered is a place and a length. `Read` and
`Hangup` are the branches of `qs_client_update`; `FirstPart`, `NextPart`, `PartHeader`, `TooLong`, `Lose` those of
one turn of the loop. `Lose` is a header taken from where there is none: the model stops there, as the
code would go on with a length made of any bytes. `MessageChannel` delivers every message sent,
once and in order, until an end or until `broken`; `spoilt` is what it is mapped from.

**`Hash`, `KeyValueCache`.** A page is a QS_HASH: a bucket is a sequence of slots with holes, a value a
block of the page's pool. `Cache` and `CacheSwap` are `qs_cache_int` and `qs_cache_string`/`qs_cache_binary`,
which differ in how they take a full page; the swap copies keys in the order of the chain until the new
page is three quarters full. `truth` is the last value put for each key. Of the pool of a page the model has what the hash
can tell: new memory first, a record lost to a request that is too large for the rest, and released blocks, the newest first,
when no record is left. The details of the pool itself are in `MemoryPool`.

**`Rooms`.** `router` has the chain of rooms, the members of each, the name index (a set from which
`KeyValueCache` says a put may lose names), and for each slot its place and whether its id is known.
`stack` holds the C calls under way, a message to a room, a request, a close callback, each with the place
of its walk, because a walk over the members closes those it cannot reach and their close callbacks walk
the same chain. `Pass`, `Send`, `SendFails` and `NoConnection` are one turn of a walk, `Finish` and `FinishClose` its end.
`NoConnection` is a walk that comes to a block with connection index -1: `qs_offsetpointer` answers NULL and the program
stops, as it does when a failed send finds the machine's stack used up (`crashed`).

**`ScriptParser`, `ScriptMeaning`, `Script`.** The parser's functions from a sequence of tokens to a tree,
with the same recursion; the interpreter on a machine with the shared stack, the variables and the blocks that
values live in; and, apart from both, what the script says. `Turn` is one statement of `qs_exec_core`.
`ScriptPrograms` has 22,176 scripts: a function, an assignment, one statement of every kind with every
expression of a small set, one that reads what that left. The outcomes were also compared with the
compiled library on these scripts; they agree.

**`HttpRequest`, `WebSocketFrames`, `HttpConnection`.** `buf` is the receive buffer, a symbol for each piece of text
the parser treats as a whole; it is not cleared between reads or connections (the call of
`qs_initialize_connection_info` is commented out in `qs_accept`), so `Init` takes it as an earlier request left it.
`conn` is the request as far as it is known, with the phase of QS_SOCKPARAM. `ReadRequest` is
`api_qs_on_recv` down to `qs_http_parse_header`, `Answer` is `api_qs_exec_http`, `Handshake` the answer to a
request with a key. From then on `ReadFrames` is `qs_parse_websocket_binary` with `api_qs_exec_websocket`; bytes are
places in the stream, and 0 is what the mask makes of an empty part of a word. `Miscut` and `Clean` say which
reads the two parsers are known to get wrong.

## 5. The runs

| Run | Question | Instance |
|---|---|---|
| `pool_grow` | where can a growth lose the table, and does the pool implement `Allocator` up to there? | 10 bytes growing by 6 or more to 26, records of 4, alignment 2, requests of 1, 3, 7; a heap with 22, 28 or 30 bytes |
| `pool_fixed` | run full, with splits and reuse: is a byte ever lost or shared, and how can the table be lost? | 17 bytes, records of 2, requests of 0, 1, 3, 5 |
| `queue` | is the ring a drop-oldest queue, and how far can the length and a lent buffer be trusted? | 3 buffers of 3 bytes, messages of 1 and 4 |
| `queue_threads` | with a consumer that takes no lock, are messages whole, in order, and is the last one received? | 3 buffers, 2 producers, 6 messages |
| `chain` | is the chain a bounded list, also under a walk that removes? | 3 values in use of 2 kinds |
| `server` | is a slot ever shared, a close not reported, a socket lost, a silent client kept, and when is the pool of free slots wrong? | 2 slots; a client may go in the pass in which its time is up, a name may not be had |
| `server_timeout` | is the timeout the options set the one the server keeps? | the default of 5 s and 0 us |
| `framing` | do messages arrive once, in order and all of them, however the stream is cut? | 22 bytes; headers of 6, 8 and 14; messages empty, of a length that wraps, and too long |
| `cache` | does a get answer what was put, and what does a swap lose? | 2 keys in one bucket, a page of 9 units, 2 swaps |
| `rooms` | who is in a room, who hears a message, when do callbacks call each other without end? | 4 slots, a room of 3, 4 requests, a stack of 4 calls |
| `script` | is a script parsed to its end, and does it mean what it says? | 22,176 scripts, run twice, loops of 6 turns |
| `http` | are requests and messages what was sent, however the stream is cut? | 9 requests over 10 buffers; frames of up to 6 bytes, 12 in all, words of 2 |

What the properties mean:

* `TableApart`: the data and the table never meet. `BlocksDisjoint`, `NoByteLost`,
  `ChainInAddressOrder`: the blocks tile the arena below `top`, each byte in exactly one, and
  the links follow the addresses. `ImplementsAllocator`: what callers see of any call is an
  allocation apart from every block in use, a release, a clean, or nothing. `LostOnlyAtTheCap`: the sizes
  from which a growth copies the table over itself or shrinks the arena, and that it happens from no other.
  `FaultOnlyWhenEmpty`: a pool that cannot grow loses it in
  one way, when `bottom - one` wraps (`:880`).
* `CompleteOrAbsent`, `ImplementsQueue`, `LengthWithinOne`, `LentBufferKept`: see section 6 for what the
  last two leave open. `ReceivedInOrder`, `LastReceived`: the queue between threads, until an overlap is a clash.
* `OneList`, `ImplementsList`, `WalkComplete`.
* `SlotOwnsSocket`: no two slots share a socket, and sends go to the slot's own socket or nowhere.
  `RefusedOnlyWhenFull`, `ClosedBeforeReuse`: hold in every interleaving modelled. `PoolExact`, `NoLeak`,
  `FreshConnection`: what ends the exactness of the pool, loses a descriptor, and gives a new connection
  the age of an old one, and that nothing else does. `IdleDropped`: a client that never sends goes in the end, unless
  it got its slot by the slow search from one that had sent.
  `TimeoutHonoured`: violated, see section 6.
* `LostOnlyIfSpoilt`, `TypesKept`: only the cuts named lose the place in the stream or a message's type.
  `ContinueAdvances`: the loop over one read moves on. `ChannelSpec`: the refinement, with liveness.
* `AnswersTrue`: until a name is in two slots, a get answers the last value or misses. `PutAnswered`: until
  then a put is answered at once, the one that brings the name there included. `SwapLosesOnly`: what a swap may lose.
* `MembersAgree`: a slot's place and the members of the rooms are two halves of one relation, in every nesting of
  callbacks. `HearsTheRoom`: who hears a message. `LossSurvived`: what the loss of members must come to for the server to stop.
* `ParsedToTheEnd`, `StackEmptied`, `MeansWhatItSays`: which constructs hang or stop the parser, leave something on
  the stack, or mean something else; every other script has the value the reference gives it.
* `RequestAsSent`: without a `Miscut` read, no request is refused, answered early, kept waiting or
  changed on the way. `MessagesAsSent`: with clean reads, each message once, whole and in order.

**Bounds and why they are enough.** The pools are sized so that every path of
`qs_find_freemunit` and `qs_malloc` is taken: a growth for a record and for data, a failing
growth, garbage too small, exact, with a rest below a record and with a rest to split, a split into
an old record and into a new one, a pool with no room for either. In `pool_grow` the growths are no whole records, so
that less than a record is left to `max_size` of 26, or `min_realloc` passes it: all three faults occur. The heap of 22 stops
a growth below `max_size`, that of 30 none. The 17 bytes are no multiple of
a record, so that `bottom` can end at 1. The properties of both are proved for every size as
well. A ring of three tells "before top" from "after tail", and is the least in which a producer may write while a
dequeue is under way without a clash; six messages go round it twice. A chain of three has a first, a middle and a block before the end. Two slots are the
least with a slot to confuse with another, and with a used slot that the slow search finds; `Fds` has one descriptor more for the client
refused and one for a leak. Ages stop at `MaxAge`, above the timeout, since the code only asks
whether they exceed it.
The stream of `framing` holds two or three messages; its lengths stand for the borders at 126, 127 and 65536, and a
header in three pieces is possible. Two keys in a bucket that grows by two are the least with a hole before a
name; a page of 9 units is filled by four values. A room of three members with four slots has a full room and one outside
it; one room is enough for evictions since a second request finds the router full; the stack of four calls is deeper
than any chain of callbacks with one member lost, so it is used up only by the endless one. In `http` a request
is at most 17 symbols, and any number of reads is possible; base 3 makes a two-digit length of 4, whose digits may
be cut; the longest buffer left over ends within the headers of others, and so does the shortest. Words of two bytes have
a full, a half-filled and an empty state, as words of four have; a frame of 6 is too long for the message buffer.

`CHECK_DEADLOCK FALSE` is set where a behaviour may end: `pool_fixed` (a fault), `framing` (the bound on
bytes, a closed connection), `cache` (the bound on swaps), `rooms` (a crash, the bound on requests), `script` (a script that
has ended, failed or hangs the parser), `http` (a closed connection).

**Fairness.** Safety runs need none. `queue_threads`: a producer inside its call goes on and the
consumer polls (weak fairness of each); nothing says that a producer ever calls. Server: the main
loop of a program calls `qs_server_update` again and again, and an update moves on (weak fairness of its
steps that change the place it is at: the loop over the messages in a buffer ends, because the
code leaves it unless `continue_pos` has grown, `qs_socket.c:1612-1618`, and the buffer is finite); that
a send ends is assumed here, and `qs_send_all` (`:757`) does not guarantee it to a client that stops reading; time
passes (strong fairness of `Tick`, which is possible only outside the loop over the slots, as the code
reads the clock once per update). Framing: the program calls the update again and again, so a read with something to
read comes (weak fairness of `Receive`) and the loop over it goes on (weak fairness of `Turn(FALSE)`: the callback need
not close the connection); nothing says that anybody sends.

## 6. What the models showed

* **The timeout compares seconds with microseconds** (`qs_socket.c:1687`, run `server_timeout`).
  `s_sec` is set and never read. With the default of 5 s and 0 us a silent connection is closed
  after one second.
* **A slot can enter the accept pool twice.** When a client is found gone (`:1568`, `:1681`) and its time
  is up as well, `qs_add_accept_pool` runs a second time at `:1689`. `PoolExact` and
  `FreshConnection` name this case: the pool drops an index,
  `qs_accept` finds the slot by its slow search, and that search does not reset `create_time` and
  `recv_counter`, so the new client inherits the age, or the immunity from the timeout, of the old one.
  No slot is shared and nobody is refused for it.
* **A descriptor leaks** each time `getnameinfo` fails in the slow search (`:1351`), as `NoLeak` says.
* **Messages after a close.** A failed send runs the close callback and clears `acc` but leaves the
  socket open; data read later are delivered with no new-connection callback and a second close
  callback follows. `ClosedBeforeReuse` states what is left.
* **The queue without a safe dequeue.** A dequeue that overlaps a producer's call can spoil the ring in three ways, each of
  which makes messages appear twice, torn or not at all: the producer writes a buffer while at most one slot is free, which may be the
  one being taken; it finds `tail` at `top` (`qs_queue.c:119`), also when the dequeue has taken the last message after `tail` was
  stored (`:118`), so that an empty ring counts as full; or it is moving `top` and `status` (`:120-121`) while the dequeue
  reads them. `Clash` is these three; without any of them `ReceivedInOrder` fails, and with them every other
  overlap is harmless. Nothing in the library keeps clear of them.
* **The length of a queue** (`qs_queue.c:210`) is one too large when `tail < top` and nothing was lost.
* **`bottom - one` wraps** in a pool filled by requests that fail, each leaving a record behind.
* **Growths at the cap.** A growth shorter than a record copies the table over itself, which needs a `min_realloc` shorter than a
  record or less than one left to `max_size`, before the call or after its first growth; and as the cap is looked at
  before `min_realloc` is applied, a pool can pass `max_size`, after which the next growth is negative and shrinks the arena.
  `LostOnlyAtTheCap` names these sizes and the run meets them. No caller in the repository makes a pool that can grow
  (`max_size` is always the size asked for), so these are latent.
* The special case in `qs_remove_chain` for the block before the end is not needed for the list to
  stay right, and does no harm.

* **Framing.** A header that comes in three pieces is misread when the first two cuts are far enough in it
  (`get_parse_header` keeps the wrong part), and the type of a message is wrong when its header was cut within its last
  four bytes. An empty message swallows what follows it in the same read; a message of 65536
  bytes announces a length of 0; one as long as the message buffer (16 KB by default, `:327`) closes the
  connection. After a send that fails elsewhere the parser starts again in the middle of what the socket goes on to deliver.
* **Cache.** A name can come into two slots of a bucket (a put takes the first hole): its removal then brings
  an old value back, and as the two slots share blocks that each of them releases, the blocks come to be used for two
  names at once: from there on nothing is promised, not even that a value just put is the one answered. Binaries are not copied by a swap; keys in the chain lose their end to a longer one before them;
  the page stops at three quarters, and as the chain is walked from the oldest the newest are lost first. The life
  time of a value is stored and read by nobody, and the size test of `api_qs_kvs_set` rejects nothing.
* **Rooms.** Two members of a room who cannot be reached make the close callbacks call each other until the stack is used
  up. A walk whose current member is removed by a nested close ends early, but in a full room it goes on to the block
  behind the last. If that was never used it has index 0, so that the slot with index 0 may hear a room it is not in; if a member
  has had it, its index is -1, for which `qs_offsetpointer` answers NULL (`qs_memory_allocator.c:1050`), and the walk reads
  `acc` through it (`qs_api.c:870`, `:936`, `:1311`): one member lost in a full room is then enough to stop the server.
  A join with the id of a client who has gone puts the slot into the room, and its next client inherits the membership.
  A room with members is evicted once its five minutes are over and the table is full.
* **Scripts.** `1+2-3` is -3 and leaves 3 on the stack: one level takes one operator. A computed number given to a
  function arrives with binary 0; `return` inside `if` or `while` does not return; `return ( ... )` calls a function of that
  name; a `while` that ends a block hangs the parser; `+=` does nothing; a bare number is true only if it is 1; an operand that
  waits while a call assigns to it is read from the new value or from a block given back.
* **HTTP.** A request is understood in any two reads that are cut at the end of a header line if nothing is left in
  the buffer behind them, and whole; hardly otherwise. The header bytes of a read count as body (`qs_protocol.c:366`), so
  a body that comes in two reads, the first with headers, is taken as whole too early; a later read of headers is
  parsed on into what the buffer still holds; a part of a body that begins with a newline starts the body again.
* **WebSocket.** A read with the end of one frame and the beginning of the next loses the next; a first
  read with less than a word of a longer message, a non-final fragment in two reads or of a length that is no multiple of
  four, and a ping with a payload or between fragments change or lose messages.

Only the first contradicts something the repository says, so only it is a run that expects a violation.

## 7. What is proved

For every value of the constants that meets the named assumptions of the module (a record has a length, the
arena holds its first records, requests are natural numbers; rings, buffers, chains and tables are not empty; the two
borders of a header's length are apart; the index of nobody is no slot; strings are no numbers and a bucket grows), and for any bound of a model, the sizes of
the instances in section 5 among them. One theorem has a further hypothesis, stated with it below. Each module has an
inductive invariant, its preservation by every action, and from it the properties the runs check.

**`MemoryPoolProofs`.** `TypeCorrect`, `TableApartAlways`, `BlocksDisjointAlways`, `NoByteLostAlways`, `ChainAlways`,
`PoolImplementsAllocator`, `FaultOnlyWhenEmptyAlways`, `LostOnlyAtTheCapAlways`. None of the first is inductive: a split keeps the blocks
disjoint only because the links are right, and the links are right only because the last block made ends at `top`. The
invariant is *Typed* and *Core*: *Geometry* (the table reaches from `bottom` to the end of the arena, `top` is not
above it), *Placed* (a live block lies below `top`), *Disjoint*, *Tiled* (every byte below `top` is in a live
block), *Chained* (a child starts where its block ends and links back) and *LooseEnds* (a free record has no child,
and the block made last ends at `top`). Each C function has one lemma: from a pool with these and no fault it comes to
another, or to a fault, and of the blocks in use it leaves every one where it was but for those it names. A call that
ends in a fault leaves the pool of before with the fault set, so *Core* is kept. `PoolImplementsAllocator` follows from the
same lemmas: a call adds one block in use at most, and *Disjoint* says that it is apart from the others.
`FaultOnlyWhenEmptyAlways` goes through the functions again: in a pool of `max_size` the size stays, `top` only grows, and
a record added without room leaves `bottom` below a record's length. `LostOnlyAtTheCapAlways` goes through them for pools that
grow: a call grows twice at most, once for the record and once for the block, and what is said of the size before the
second growth is said in terms of the size before the call.

**`MessageQueueProofs`.** `TypeCorrect`, `CompleteOrAbsentAlways`, `RingImplementsQueue`, `LengthAlways`,
`LentBufferAlways`. The invariant is `TypeOK`, "as long as the creation has not failed, the slots its loop has passed have
their buffers", which is `CompleteOrAbsent` when the loop is over, and "until then the indices are equal and `status` is 0". The lemmas on `Window` say what an append, a drop and both at once do to
the messages between two indices of a ring.

**`MessageQueueThreadsProofs`.** `ReceivedInOrderAlways`, for any number of producers and a consumer that runs inside their calls. The
invariant holds until there has been a clash (*Invariance*). In it
*Exclusion* says that whoever holds the mutex, and nobody else, is inside its call; *Writing* and *Taking* what the
producer and the consumer have done so far, whatever the other has done since; *Window* that the slots counted back from `tail` hold
whole messages, newer than the last received and the newer the nearer. How many they are (*Kept*) depends on where the producer is:
from its first write to a full ring the oldest is given up, though `top` counts it until the overflow is dealt with. While a
dequeue is under way a producer that does not clash leaves one more slot free than it writes (*Apart*), so the slot being
taken stays in the window and is the oldest in it until it has been read.

**`ChainProofs`.** `AddChainList`, `RemoveChainList`, `OneListAlways`, `WalkCompleteAlways`, `ListImplemented`. A chain is a list
when there is an order of all blocks that the links follow both ways, the first of them in use (*ListOf*). `AddChainList`,
`RemoveChainList` and a lemma on `qs_get_next` say that each function leads from such a list to the one expected, wherever the
block is; `RemovedIsLast` that a walk standing at a block that is removed ends there, if the chain was not full. `InUse` turns the
list into the set the other modules speak of. The invariant of `ChainArray` is *ListOf* and *Walk*: what the walk expects and has not
visited are the values of the blocks in use behind the one it is at. A removal behind it, and that of the block it has left, keep
this. The refinement takes the values in order as the list.

**`ConnectionTableProofs`.** `SlotOwnsSocketAlways`, `RefusedOnlyWhenFullAlways`, `ClosedBeforeReuseAlways`, `NoLeakAlways`, `PoolExactAlways`,
`FreshConnectionAlways`. The invariant: the pool of free slots is a list, with whatever in it; the sockets of slots
in use are open and each a slot's own (*Sound*); a free slot has been announced as closed (*Settled*); a client was refused only
when no slot is free; in the loop over messages the slot has its connection. Every step is made of calls that leave the slots as they
are (*Keeps*) or give one up (*Gives*). It matters that nothing here asks that the pool be exact, because it is not:
`qs_accept` is right because its slow search looks at the slots themselves. `PoolExactAlways` adds that the pool's entries, as a
set, are the free slots, and no more in number, and follows this through an accept and a close.

**`MessageFramingProofs`.** `LostOnlyIfSpoiltAlways`, `TypesKeptAlways`, `ContinueAdvancesAlways`, `ChannelStepsAlways`. The invariant has a
part that always holds (*Laid*: the messages follow each other in the stream; *Looping*, *Pieces*: the loop over a read is where
the last message left it and a connection that expects a header has none of it; *Remembered*: which type fields were cut) and a part
that holds until the connection is spoilt, *InPlace*: what was delivered are the first messages sent, and the receiver is between two of
them, inside the header of the next, or inside its body, with what it has saved being exactly the bytes read of it. The first
part alone gives `ContinueAdvances`, so the loop moves on in a spoilt connection too. `ChannelStepsAlways` is the
refinement of `MessageChannel` without its fairness.

**`RoomsProofs`.** `MembersAgreeAlways`, `LossSurvivedAlways`, `HearsTheRoomAlways`, for callbacks nested to any depth. *Agree* is
the relation between the places of the slots and the blocks of the rooms in use; creating, joining, leaving, removing and emptying keep
it. The hard part is that a close callback gives up its place without a look, at the end of a walk in which other closes may have
run. *Nested* says that a close called from a walk is that of a member who cannot be reached and not of the walk's own slot; *Walks* that
a close called from the close of a slot that can be sent to has its caller still ahead of it in the room. So it calls the
caller's close again and never ends before the stack does: only the last close of a stack, or one below whom nobody
closes, takes a place away, and *Placed* (who walks has a place) is kept. From this, a callback entered twice means two members out of
reach, and so does a stack used up, with the hypothesis `MaxDepth > 2` (a stack of two is used up by a
request and its message, before the first close). For `HearsTheRoomAlways` the invariant *Hears* says of each walk: while nobody was closed in it,
its room is as it was and it has reached those before its place whom it is to reach (*Undisturbed*); while it waits for a close, the
closed member is at its place (*Waiting*); after that, if the room was not full, it is at its end (*Ended*). So a walk comes to a block without a member only if it closed
somebody in a full room, which is the other half of `LossSurvivedAlways`.

**`KeyValueCacheProofs`.** `NeverMixedUp`, `AnsweredAtOnce`, `NothingElseLost`, for all keys, values and sizes of pages and buckets. The
invariant says that until a name is in two slots the page is *Sound*: every slot is a hole or has a name of its bucket, no name has
two, and the blocks of a name and of its value are in use and no other slot's (*Owns*, *Apart*). Only so does a block written in
place or used again leave the other answers alone. A request for memory leaves the slots and what is in use as it was
(*Keeps*), so the three ways in which a put succeeds, into the slot of its name, into a hole or into a larger bucket, all come to
one entry that is new and nothing else (*Entered*); a put that takes a hole before its name is answered too, but ends soundness,
which `doubled` remembers. `NothingElseLost` needs more of the page that a swap fills: nothing is removed from it, so its holes
are behind its names (*Packed*) and no put there brings a name into two slots; and it only grows (*Grows*), so a copy that found
no room when its turn came finds none in the end either (*Tight*). The recursion over the chain is unfolded by a lemma on
functions that solve such an equation (`Unfolded`), proved from the least number for which there is none.

## 8. What is only model-checked

* Liveness, which TLAPS does not prove: `LastReceived`, `IdleDropped`, the fairness of `MessageChannel` in `ChannelSpec`.
* HTTP. `RequestAsSent` is about what recursive definitions (`HeaderLines`, `Number`) make of whole texts, which is induction over
  data that the provers cannot do; `MessagesAsSent` rests on it, since a handshake before the request was read to its end loses
  the first frame. What it says of the frames alone could be proved in the way of `MessageFramingProofs`, and is not.
* The script engine, whose modules use recursive operators, which TLAPS cannot take.
* `TimeoutHonoured`, which is violated.

What the pool does after a fault is not explored.

## 9. What is not modelled, and why

* Mini and file-backed pools, UDP and the scheduler: next in the plan. The growth of an array is left out.
* In the server, the callback for a close does not send; that of the API server does and is in `Rooms`. The
  send loop is one step: that `qs_send_all` tries again at once while the socket is full is below this grain.
  A connection id that was never set, which an empty id in a join would match, is left out of `Rooms`.
* `qs_resize_chain_array` and the storage cache's file: no caller, and the same code over a mapped pool.
* HTTP: the method HEAD, the cut of a path at `&`, the refusal of paths that lead out of the document root, files and
  their responses, JSON bodies, the size of the message buffer against a long body, uploads (`is_upload_enable` is false). A client keeps to the WebSocket protocol.
* Scripts: strings, floats, arrays, hashes, function literals, the system functions, numbers of more than three
  characters, running on after a syntax error; empty bodies, `if` without braces and a variable as a statement, for which the
  parser reads beyond its tokens.
* Text and byte conversions (JSON, CSV, base64, SHA-1, strings), files, log and random numbers keep no state that
  interleaves with anything. The samples are users of the library.
