---------------------------- MODULE KeyValueCache ----------------------------
(***************************************************************************)
(* qs_variable.c: the cache behind the key-value store of qs_api.c and the  *)
(* index of the rooms.  Values are kept in a hash in one of two pages of    *)
(* memory; when it is exhausted the values of the keys in a chain are       *)
(* copied to the other page, which becomes the current one.  The chain      *)
(* holds the keys that were put, oldest first, and drops the oldest when it *)
(* is full.  The page that is not current is cleaned before it is used, so  *)
(* the model has the current one only.                                      *)
(***************************************************************************)
EXTENDS Hash

CONSTANTS
    LongKeys,     \* the keys that are longer than the others
    MaxKeys,      \* cells of the chain
    MaxSwaps      \* bound of the model

ASSUME CacheAssumption ==
    LongKeys \subseteq Keys /\ MaxKeys \in Nat \ {0} /\ MaxSwaps \in Nat

VARIABLES
    page,       \* the current page
    chain,      \* the keys in the chain, as their cells read
    swaps,      \* swap_count
    truth,      \* what was put last for each key, and not removed
    doubled     \* the hash had a name in two slots at some time

vars == <<page, chain, swaps, truth, doubled>>

\* qs_create_cache
Init ==
    /\ page = NewPage /\ chain = << >> /\ swaps = 0
    /\ truth = [k \in Keys |-> Miss] /\ doubled = FALSE

-----------------------------------------------------------------------------
\* A key is copied without its terminator: over a longer one it leaves the tail of that one,
\* and the cell is no key any more.  A cell is as long as the longest key it had.
Cell(k)   == [key |-> k, long |-> k \in LongKeys]
Over(k, cell) == IF cell.long /\ k \notin LongKeys THEN [key |-> NoKey, long |-> TRUE] ELSE Cell(k)

\* qs_add_cache_key: every put adds the key, also one that is there already
AddCacheKey(k) ==
    chain' = IF Len(chain) < MaxKeys THEN Append(chain, Cell(k))
             ELSE Append(Tail(chain), Over(k, Head(chain)))

\* what qs_swap_page copies of a key: no binaries, and a number as a number
Copied(p, q, k) ==
    LET a == IF k = NoKey THEN Miss ELSE Answer(p, k)
    IN  IF a = Miss \/ a.id = "BIN" THEN q ELSE Add(q, k, a.id, a.value).page

\* less than a quarter of the new page is left
Full_Half(q) == q.room < PageSize - PageSize \div 4
Full(q) == q.room < PageSize \div 4

\* qs_swap_page: the keys of the chain in their order, until the new page is full
Swapped(p) ==
    LET after[i \in 0 .. Len(chain)] ==
            IF i = 0 THEN [page |-> NewPage, stop |-> FALSE]
            ELSE IF after[i - 1].stop THEN after[i - 1]
            ELSE LET q == Copied(p, after[i - 1].page, chain[i].key)
                 IN  [page |-> q, stop |-> Full(q)]
    IN  after[Len(chain)].page

\* a name is in two slots
Doubled(p) == \E b \in DOMAIN p.slots : ~IsInjective(Listed(p, b))
\* qs_cache_int, qs_cache_string, qs_cache_binary: a put that finds no memory swaps the
\* pages and tries once more
Stored(k, id, v, r) ==
    /\ page' = r.page
    /\ doubled' = (doubled \/ Doubled(r.page))
    /\ IF r.block # 0
       THEN truth' = [truth EXCEPT ![k] = [id |-> id, value |-> v]] /\ AddCacheKey(k)
       ELSE UNCHANGED <<truth, chain>>

Cache(k, id, v) ==
    /\ Add(page, k, id, v).block # 0
    /\ Stored(k, id, v, Add(page, k, id, v))
    /\ UNCHANGED swaps

CacheSwap(k, id, v) ==
    /\ swaps < MaxSwaps
    /\ LET first == Add(page, k, id, v)
       IN  first.block = 0 /\ Stored(k, id, v, Add(Swapped(first.page), k, id, v))
    /\ swaps' = swaps + 1

\* qs_remove_cache: the key stays in the chain
RemoveCache(k) ==
    /\ page' = RemoveHash(page, k)
    /\ truth' = [truth EXCEPT ![k] = Miss]
    /\ UNCHANGED <<chain, swaps, doubled>>

Puts == (Strings \X {"STR", "BIN"}) \cup (Numbers \X {"NUM"})

Next ==
    \E k \in Keys :
        \/ \E v \in Puts : Cache(k, v[2], v[1]) \/ CacheSwap(k, v[2], v[1])
        \/ RemoveCache(k)

Spec == Init /\ [][Next]_vars

-----------------------------------------------------------------------------
\* A get answers what was put last, or misses, and a key that was removed is gone: neither
\* growing buckets, values written in place, blocks used again nor a swap mix up two keys.
\* This holds until a name comes into two slots, which takes a removal from a bucket of
\* several names: the next put of a name that follows the hole takes the hole.
AnswersTrue ==
    ~doubled => \A k \in Keys : Answer(page, k) \in {truth[k], Miss}

\* Until then a value that was put is answered at once, whether or not the pages were
\* swapped.  (The blocks of a name in two slots are released twice, and used again for
\* two names: after that nothing is promised.)
PutAnswered ==
    [][~doubled => \A k \in Keys :
        truth'[k] \notin {truth[k], Miss} => Answer(page', k) = truth'[k]]_vars

\* What a swap loses then is a binary, a key that the chain does not hold any more, or what
\* came when three quarters of the new page were full or what was left of it too small for
\* the value or for the bucket made anew: the values put last are lost first.
SwapLosesOnly ==
    [][~doubled /\ swaps' # swaps =>
        \A k \in Keys :
            Answer(page, k) # Miss /\ Answer(page', k) = Miss =>
                \/ Answer(page, k).id = "BIN"
                \/ \A i \in DOMAIN chain : chain[i].key # k
                \/ 4 * page'.room < PageSize
                \/ page'.room < SizeOf(Answer(page, k).value)
                \/ page'.room < LargerBucket(page', k)]_vars
=============================================================================
