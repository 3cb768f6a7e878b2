------------------------------ MODULE MemoryPool ------------------------------
(***************************************************************************)
(* qs_memory_allocator.c: a pool is one arena.  Data blocks are cut from    *)
(* its low end, at "top", which only moves up; the table of unit records    *)
(* grows down from its high end, record i lying at size - One*(i+1), so     *)
(* "bottom" is the address of the newest record.  A freed block becomes     *)
(* garbage, and garbage is looked at again only when the gap between top    *)
(* and bottom has no room for one more record.                              *)
(*                                                                          *)
(* A pool is a record and each C function an operator from the pool before  *)
(* the call to the pool after it, because the functions call each other     *)
(* and each can fail half way with part of its work done.                   *)
(*                                                                          *)
(* "fault" names the three ways the table can be lost: a growth that moves  *)
(* it by less than a record copies records over records still to be copied  *)
(* (overlap), a pool grown past max_size computes a negative growth, which  *)
(* realloc takes as a shrink (shrink), and bottom - One wraps below zero    *)
(* when bottom < One (underflow).  What a pool does afterwards is undefined *)
(* behaviour of the program and is not modelled: no operation is enabled.   *)
(***************************************************************************)
EXTENDS Integers, FiniteSetsExt

CONSTANTS
    One,         \* bytes of a unit record (memory_unit_size_one)
    Align,       \* alignment of the blocks
    FixUnits,    \* records 0 .. FixUnits-1 are the fixed ones
    FreeUnits,   \* further records the initialisation writes
    InitSize,    \* bytes the arena starts with
    MaxSize,     \* bytes it may grow to
    MinRealloc,  \* least number of bytes a growth asks for
    Growable,    \* TRUE for MEMORY_ALLOCATE_TYPE_MALLOC
    Requests,    \* the sizes callers ask for
    HeapSizes    \* the longest arena that realloc may be able to give

ASSUME OneAssumption      == One \in Nat \ {0}
ASSUME AlignAssumption    == Align \in Nat \ {0}
ASSUME UnitsAssumption    == FixUnits \in Nat /\ FreeUnits \in Nat
ASSUME SizeAssumption     == /\ InitSize \in Nat /\ MaxSize \in Nat
                             /\ InitSize <= MaxSize
                             /\ One * (FixUnits + FreeUnits) < InitSize
ASSUME GrowthAssumption   == MinRealloc \in Nat /\ Growable \in BOOLEAN
ASSUME RequestsAssumption == Requests \subseteq Nat
ASSUME HeapAssumption     == HeapSizes \subseteq Nat

VARIABLES
    pool,
    heap         \* the longest arena that realloc gives during the next call

vars == <<pool, heap>>

Unit == [p : Int, size : Int, status : {"FREE", "USE", "GARBAGE"},
         parent : Int, child : Int]

Faults == {"none", "overlap", "shrink", "underflow"}

\* qs_initialize_memory_unit
FreeUnit == [p |-> 0, size |-> 0, status |-> "FREE", parent |-> -1, child |-> -1]

\* QS_ALIGNUP
AlignUp(n) == Align * ((n + Align - 1) \div Align)

\* the ids of the records that have been handed to a block
Live(m) == {i \in 0 .. m.n - 1 : m.units[i].status # "FREE"}

\* qs_initialize_memory
FirstUnits == FixUnits + FreeUnits
Fresh == [size |-> InitSize, top |-> 0, bottom |-> InitSize - One * FirstUnits,
          n |-> FirstUnits, units |-> [i \in 0 .. FirstUnits - 1 |-> FreeUnit],
          tail |-> -1, full |-> FALSE, fault |-> "none"]

Init == pool = Fresh /\ heap \in HeapSizes

-----------------------------------------------------------------------------
\* Definitions named X_... are mutants: X as a plausible mistake in the code would make it.
\* Each shows that a property of a run notices that mistake; no specification uses one.

\* MinRealloc forgotten
Growth_NoFloor(m, n) == IF m.size + n > MaxSize THEN MaxSize - m.size ELSE n

\* how many bytes qs_realloc_memory adds; the cap looks at n before MinRealloc
\* is applied, so the sum can pass MaxSize and the next growth be negative
Growth(m, n) ==
    IF m.size + n > MaxSize THEN MaxSize - m.size
    ELSE IF n < MinRealloc THEN MinRealloc ELSE n

\* qs_realloc_memory: the data stay where they are, the table moves up with the end;
\* nothing happens when realloc finds no memory
Grow(m, n) ==
    LET d == Growth(m, n) IN
    IF m.size = MaxSize THEN [m EXCEPT !.full = TRUE]
    ELSE IF m.size + d > heap THEN m
    ELSE IF d < 0 THEN [m EXCEPT !.fault = "shrink"]
    ELSE IF d < One THEN [m EXCEPT !.fault = "overlap"]
    ELSE [m EXCEPT !.size = @ + d, !.bottom = @ + d]

\* the length of the new record forgotten
NoRecordRoom_NoLength(m) == One <= m.bottom /\ m.bottom <= m.top

\* "( bottom - one ) <= top" on unsigned integers: bottom < One wraps to a large value
NoRecordRoom(m) == One <= m.bottom /\ m.bottom - One <= m.top

\* unit_size not incremented
AddRecord_NoCount(m) ==
    [m EXCEPT !.bottom = @ - One,
              !.units  = [i \in 0 .. m.n |-> IF i = m.n THEN FreeUnit ELSE m.units[i]]]

\* a new record at the end of the table, which is the unit with the next id
AddRecord(m) ==
    [m EXCEPT !.bottom = @ - One,
              !.n      = @ + 1,
              !.units  = [i \in 0 .. m.n |-> IF i = m.n THEN FreeUnit ELSE m.units[i]],
              !.fault  = IF m.bottom < One THEN "underflow" ELSE @]

\* a growth is tried only for pools on the heap
GrowForRecord(m) == IF Growable /\ NoRecordRoom(m) THEN Grow(m, One) ELSE m

\* the first part keeps the length of the whole block
Split_KeepSize(m, g, f, n) ==
    LET old == m.units[g]
        left == [p |-> old.p + n, size |-> old.size - n, status |-> "GARBAGE", parent |-> g,
                 child |-> old.child]
    IN  [m EXCEPT !.tail  = IF @ = g THEN f ELSE @,
                  !.units = [i \in DOMAIN @ |-> CASE i = g -> [old EXCEPT !.child = f]
                                                  [] i = f -> left
                                                  [] OTHER -> @[i]]]

\* neither the tail nor the next block told of the second part
Split_Unlinked(m, g, f, n) ==
    LET old == m.units[g]
        left == [p |-> old.p + n, size |-> old.size - n, status |-> "GARBAGE", parent |-> g,
                 child |-> old.child]
    IN  [m EXCEPT !.units = [i \in DOMAIN @ |-> CASE i = g -> [old EXCEPT !.size = n, !.child = f]
                                                  [] i = f -> left
                                                  [] OTHER -> @[i]]]

\* qs_resize_garbage, once it has the unit f for what block g leaves over after n bytes
Split(m, g, f, n) ==
    LET old  == m.units[g]
        next == old.child
        linked == next >= 0 /\ m.units[next].status # "FREE"
        head == [p |-> old.p, size |-> n, status |-> old.status, parent |-> old.parent,
                 child |-> f]
        left == [p |-> old.p + n, size |-> old.size - n, status |-> "GARBAGE", parent |-> g,
                 child |-> IF linked THEN next ELSE m.units[f].child]
    IN  [m EXCEPT !.tail  = IF @ = g THEN f ELSE @,
                  !.units = [i \in DOMAIN @ |->
                      CASE i = g -> head
                        [] i = f -> left
                        [] i # g /\ i # f /\ linked /\ i = next -> [@[i] EXCEPT !.parent = f]
                        [] OTHER -> @[i]]]

\* the block cut even when the rest is too short for a record
ResizeGarbage_Trim(m, g, f, n) ==
    IF f # -1 /\ m.units[g].size - n >= One THEN Split(m, g, f, n)
    ELSE [m EXCEPT !.units[g].size = n]

\* qs_resize_garbage: the rest of the block becomes a garbage block of its own when it
\* is as long as a record, in the unit f if there is one (f # -1) or in a new record
ResizeGarbage(m, g, f, n) ==
    LET grown == IF f = -1 THEN GrowForRecord(m) ELSE m IN
    IF m.units[g].size - n < One THEN m
    ELSE IF f # -1 THEN Split(m, g, f, n)
    ELSE IF NoRecordRoom(grown) THEN grown
    ELSE Split(AddRecord(grown), g, m.n, n)

\* blocks in use not told from garbage
Fitting_AnyBlock(m, n) ==
    {i \in FixUnits .. m.n - 1 : m.units[i].status # "FREE" /\ m.units[i].size >= n}

\* the scan of qs_find_freemunit runs from the newest unit down and ends at the first
\* garbage block that is long enough
Fitting(m, n) ==
    {i \in FixUnits .. m.n - 1 : m.units[i].status = "GARBAGE" /\ m.units[i].size >= n}
FreeFrom(m, lo) == {i \in lo .. m.n - 1 : m.units[i].status = "FREE"}
NewestOrNone(S) == IF S = {} THEN -1 ELSE Max(S)

\* the end of qs_find_freemunit: a garbage block, now in use again
Reuse(m, n) ==
    LET g == Max(Fitting(m, n))
        r == ResizeGarbage(m, g, NewestOrNone(FreeFrom(m, g + 1)), n)
    IN  [r EXCEPT !.units[g].status = "USE"]

\* qs_find_freemunit: the pool and the unit found, -1 for NULL
FindUnit(m, n) ==
    LET g == GrowForRecord(m) IN
    IF ~NoRecordRoom(g) THEN [pool |-> AddRecord(g), id |-> g.n]
    ELSE IF Fitting(g, n) # {} THEN [pool |-> Reuse(g, n), id |-> Max(Fitting(g, n))]
    ELSE [pool |-> g, id |-> NewestOrNone(FreeFrom(g, FixUnits))]

\* the gap taken to end at the end of the arena
NoDataRoom_NoTable(m, n) == m.top + n >= m.size

NoDataRoom(m, n) == m.top + n >= m.bottom

\* the end of qs_malloc: the block starts at top, and is linked to the block made before
\* it unless that one is a fixed unit
Place(m, id, n) ==
    LET linked == m.tail >= FixUnits /\ m.units[m.tail].status # "FREE"
        old    == m.units[id]
        unit   == [p |-> m.top, size |-> n, status |-> "USE",
                   parent |-> IF linked THEN m.tail ELSE old.parent, child |-> old.child]
    IN  [m EXCEPT !.top   = @ + n,
                  !.tail  = id,
                  !.units = [i \in DOMAIN @ |->
                      CASE i = id -> unit
                        [] i # id /\ linked /\ i = m.tail -> [@[i] EXCEPT !.child = id]
                        [] OTHER -> @[i]]]

\* qs_malloc for the unit id; a failure leaves the unit FREE
Malloc(m, id, n) ==
    LET g == IF Growable /\ NoDataRoom(m, n) THEN Grow(m, n) ELSE m IN
    IF n = 0 \/ n > MaxSize THEN m
    ELSE IF NoDataRoom(g, n) THEN g
    ELSE Place(g, id, n)

-----------------------------------------------------------------------------
Sound == pool.fault = "none"

\* what a call leaves behind; of one that loses the table, only that it did
Outcome(m) == IF m.fault = "none" THEN m ELSE [pool EXCEPT !.fault = m.fault]

\* qs_create_munit: when qs_malloc fails the new record stays, FREE
CreateMunit(m, a) ==
    LET f == FindUnit(m, a) IN
    IF f.id # -1 /\ f.pool.units[f.id].status = "FREE" THEN Malloc(f.pool, f.id, a)
    ELSE f.pool

Create(n) ==
    /\ Sound
    /\ pool' = IF AlignUp(n) > MaxSize THEN pool ELSE Outcome(CreateMunit(pool, AlignUp(n)))

\* qs_create_fixmunit: the unit is initialised before qs_malloc may fail
CreateFix(id, n) ==
    /\ Sound
    /\ pool' = IF pool.units[id].status = "FREE"
               THEN Outcome(Malloc([pool EXCEPT !.units[id] = FreeUnit], id, AlignUp(n)))
               ELSE pool

\* qs_free_memory_unit of an id the pool has handed out
Free(id) ==
    /\ Sound
    /\ pool' = IF pool.units[id].status = "USE"
               THEN [pool EXCEPT !.units[id].status = "GARBAGE"] ELSE pool

\* qs_memory_clean: only the fixed records are left; the error code stays
Clean ==
    /\ Sound
    /\ pool' = [pool EXCEPT !.top    = 0,
                            !.bottom = pool.size - One * FixUnits,
                            !.n      = FixUnits,
                            !.units  = [i \in 0 .. FixUnits - 1 |-> FreeUnit],
                            !.tail   = -1]

Call ==
    \/ \E n \in Requests : Create(n)
    \/ \E id \in 0 .. FixUnits - 1, n \in Requests : CreateFix(id, n)
    \/ \E id \in FixUnits .. pool.n - 1 : Free(id)
    \/ Clean

Next == Call /\ heap' \in HeapSizes

Spec == Init /\ [][Next]_vars

-----------------------------------------------------------------------------
\* Type invariant.
TypeOK ==
    pool \in [size : Nat, top : Nat, bottom : Int, n : Nat, units : [0 .. pool.n - 1 -> Unit],
              tail : Int, full : BOOLEAN, fault : Faults]

\* The data and the table never meet: qs_malloc and qs_find_freemunit both check the
\* gap, and every path that moves top, bottom or the end keeps the table of n records
\* exactly between bottom and the end of the arena.
TableApart ==
    /\ pool.bottom = pool.size - One * pool.n
    /\ pool.top <= pool.bottom

\* Two blocks never share a byte, in use or garbage, whatever the order in which they
\* were made, freed, split (qs_resize_garbage) and used again.
BlocksDisjoint ==
    \A i, j \in Live(pool) : i # j =>
        \/ pool.units[i].p + pool.units[i].size <= pool.units[j].p
        \/ pool.units[j].p + pool.units[j].size <= pool.units[i].p

\* No byte below top is lost: each belongs to a block, in use or garbage, so a split
\* never drops the rest of a garbage block.
NoByteLost ==
    \A x \in 0 .. pool.top - 1 : \E i \in Live(pool) :
        pool.units[i].p <= x /\ x < pool.units[i].p + pool.units[i].size

\* The child links lead from a block to the block that starts where it ends, and that
\* block links back: qs_malloc and qs_resize_garbage keep the list in address order.
ChainInAddressOrder ==
    \A i \in Live(pool) :
        LET c == pool.units[i].child IN c # -1 =>
            /\ c \in Live(pool)
            /\ pool.units[c].p = pool.units[i].p + pool.units[i].size
            /\ pool.units[c].parent = i

\* Where a pool can lose its table.  A growth tears it (overlap) only if min_realloc is
\* less than a record, or less than a record is left to max_size, before the call or after
\* a first growth of the same call by min_realloc.  A growth shrinks the arena (shrink)
\* only if one by min_realloc would pass, or has passed, max_size.  A new record wraps
\* around (underflow) only when less than a record is left below the table.  So growing is
\* safe at max_size, and while min_realloc and a record are left to it.
LessThanARecord(room) == 0 < room /\ room < One
LostOnlyAtTheCap ==
    /\ pool.fault = "overlap" =>
          \/ MinRealloc < One
          \/ LessThanARecord(MaxSize - pool.size)
          \/ LessThanARecord(MaxSize - (pool.size + MinRealloc))
    /\ pool.fault = "shrink" => pool.size + MinRealloc > MaxSize
    /\ pool.fault \in {"overlap", "shrink"} => pool.size # MaxSize
    /\ pool.fault = "underflow" => pool.bottom < One

\* A pool that cannot grow (every caller in the repository passes max_size = size) loses
\* its table in one way only: requests that all fail, each leaving a record behind, until
\* the table fills an arena that holds less than a record of data.
FaultOnlyWhenEmpty ==
    ~Sound /\ InitSize = MaxSize => pool.fault = "underflow" /\ pool.top < One

\* The blocks in use, as the callers see them.
InUse == {i \in Live(pool) : pool.units[i].status = "USE"}
A == INSTANCE Allocator
         WITH Ids <- Nat, Bytes <- Nat,
              live <- [i \in InUse |-> [p |-> pool.units[i].p, size |-> pool.units[i].size]]

\* The pool implements the abstract allocator: every call is an allocation, a release, a
\* clean, or nothing at all to the blocks in use.
ImplementsAllocator == A!Spec

=============================================================================
