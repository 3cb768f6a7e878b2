-------------------------------- MODULE Hash --------------------------------
(***************************************************************************)
(* qs_hash.c: a hash in a page of memory, as operators on its state.  A     *)
(* bucket is an array of slots that is made when its first name comes and   *)
(* made anew, larger, when it is full; a slot that was cleared is a hole.   *)
(* A slot points to two blocks, of its name and of its value.               *)
(*                                                                          *)
(* Of the memory pool under it a page keeps what the hash can tell: how     *)
(* much room was never used, and the blocks, which are written in place,    *)
(* released, and used again when the room is, whoever may still point to    *)
(* them.  A unit of memory is a record and what goes with it; sizes differ  *)
(* by less than it takes to split a block that is used again.               *)
(***************************************************************************)
EXTENDS Integers, SequencesExt

CONSTANTS
    Keys,
    Crowded,      \* the keys that share a bucket; every other key has one to itself
    Strings, LongStrings, Numbers,    \* the values
    PageSize,     \* units of memory in a page
    ElementSize,  \* QS_HASH_ELEMENT_SIZE, slots of a new bucket (2 in the code)
    ResizeQuantity,    \* QS_HASH_ELEMENT_RESIZE_QUANTITY (4 in the code)
    NoKey

ASSUME HashAssumption ==
    /\ Crowded \subseteq Keys /\ NoKey \notin Keys
    /\ LongStrings \subseteq Strings /\ Strings \cap Numbers = {}
    /\ {PageSize, ElementSize} \subseteq Nat \ {0} /\ ResizeQuantity \in Nat \ {0, 1}

Types == {"NUM", "STR", "BIN"}
Miss  == [id |-> "none", value |-> "none"]

\* qs_ihash
Bucket(k)  == IF k \in Crowded THEN "crowded" ELSE k
\* units of memory of a value
SizeOf(v)  == IF v \in LongStrings THEN 2 ELSE 1

Hole == [name |-> 0, block |-> 0, id |-> "none"]
Holes(n) == [i \in 1 .. n |-> Hole]

\* qs_create_hash in a page that was cleaned: no bucket has slots yet
NewPage == [slots |-> [b \in {Bucket(k) : k \in Keys} |-> << >>], blocks |-> << >>,
            room |-> PageSize]

Slots(p, k) == p.slots[Bucket(k)]
Named(p, s, k) == s.name # 0 /\ p.blocks[s.name].value = k

\* qs_get_hash_core, qs_get_hash_element and the other getters: the first slot of that
\* name, 0 if there is none
Find(p, k) == SelectInSeq(Slots(p, k), LAMBDA s : Named(p, s, k))

\* qs_get_hash_id and the value: what the hash answers for a name
Answer(p, k) ==
    LET i == Find(p, k)
    IN  IF i = 0 THEN Miss
        ELSE [id |-> Slots(p, k)[i].id, value |-> p.blocks[Slots(p, k)[i].block].value]

\* qs_hash_foreach: the names of one bucket, each at the slot that has it
Listed(p, b) ==
    LET taken == {i \in DOMAIN p.slots[b] : p.slots[b][i].name # 0}
    IN  [i \in taken |-> p.blocks[p.slots[b][i].name].value]

-----------------------------------------------------------------------------
\* A page and what was got from it; 0 when the memory is exhausted.
Got(p, n) == [page |-> p, block |-> n]

\* qs_find_freemunit: the last released block that is large enough, 0 if there is none
Reused(p, n) == SelectLastInSeq(p.blocks, LAMBDA b : ~b.used /\ b.size >= n)

\* qs_create_memory_block, and what is written into the block: new memory; a request that
\* is too large for what is left has taken a record of it; when no record is left, a
\* released block
NewBlock(p, n, v) ==
    LET i == Reused(p, n)
    IN  IF n <= p.room
        THEN Got([p EXCEPT !.room = @ - n,
                           !.blocks = Append(@, [size |-> n, value |-> v, used |-> TRUE])],
                 Len(p.blocks) + 1)
        ELSE IF p.room > 0 THEN Got([p EXCEPT !.room = @ - 1], 0)
        ELSE IF i = 0 THEN Got(p, 0)
        ELSE Got([p EXCEPT !.blocks[i] = [@ EXCEPT !.value = v, !.used = TRUE]], i)

\* qs_free_memory_unit
Release(p, i) == [p EXCEPT !.blocks[i].used = FALSE]

\* the slot of qs_add_hash: the first that has the name, or the first hole, whichever comes
\* first
SlotFor_Last(p, k) == SelectLastInSeq(Slots(p, k), LAMBDA s : s.name = 0 \/ Named(p, s, k))
SlotFor(p, k) == SelectInSeq(Slots(p, k), LAMBDA s : s.name = 0 \/ Named(p, s, k))

\* the block the slot had is released, unless it is the one that comes
OldBlock_Always(p, old, block) == IF old = 0 THEN p ELSE Release(p, old)
OldBlock(p, old, block) == IF old \in {0, block} THEN p ELSE Release(p, old)

\* the slots of the array that is made when a bucket has none yet, or is full
LargerBucket(p, k) ==
    IF Slots(p, k) = << >> THEN ElementSize ELSE Len(Slots(p, k)) * ResizeQuantity

\* qs_add_hash: a bucket of two slots is made first, a full one is copied into a
\* larger one, and its memory is not given back
AddHash(p, k, name, block, id) ==
    LET entry  == [name |-> name, block |-> block, id |-> id]
        bucket == Bucket(k)
        size   == LargerBucket(p, k)
        array  == NewBlock(p, size, "slots")
        i      == SlotFor(p, k)
    IN  IF i # 0
        THEN Got([OldBlock(p, Slots(p, k)[i].block, block) EXCEPT !.slots[bucket][i] = entry], block)
        ELSE IF array.block = 0 THEN array
        ELSE Got([array.page EXCEPT !.slots[bucket] = @ \o <<entry>> \o Holes(size - Len(@) - 1)],
                 block)

\* qs_make_hash_name: a name that a slot of the bucket has is used again
MakeName(p, k) ==
    IF Find(p, k) # 0 THEN Got(p, Slots(p, k)[Find(p, k)].name) ELSE NewBlock(p, 1, k)

\* qs_add_hash_integer writes into the block the name has; qs_add_hash_string and
\* qs_add_hash_binary do so if the value fits
InPlace(p, k, id, v) ==
    /\ Find(p, k) # 0
    /\ id = "NUM" \/ p.blocks[Slots(p, k)[Find(p, k)].block].size >= SizeOf(v)

DataBlock(p, k, id, v) ==
    LET i == Slots(p, k)[Find(p, k)].block
    IN  IF InPlace(p, k, id, v) THEN Got([p EXCEPT !.blocks[i].value = v], i)
        ELSE NewBlock(p, SizeOf(v), v)

\* qs_add_hash_integer, qs_add_hash_string, qs_add_hash_binary: what was got before the
\* step that failed is not given back
Add(p, k, id, v) ==
    LET name == MakeName(p, k)
        data == DataBlock(name.page, k, id, v)
    IN  IF name.block = 0 THEN name
        ELSE IF data.block = 0 THEN data
        ELSE AddHash(data.page, k, name.block, data.block, id)

\* qs_remove_hash: the first slot of that name becomes a hole, its block stays taken
RemoveHash(p, k) ==
    IF Find(p, k) = 0 THEN p ELSE [p EXCEPT !.slots[Bucket(k)][Find(p, k)] = Hole]
=============================================================================
