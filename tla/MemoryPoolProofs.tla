--------------------------- MODULE MemoryPoolProofs ---------------------------
(***************************************************************************)
(* Proofs about MemoryPool for every value of its constants.  A pool is     *)
(* good when it is well typed and, unless its table has been lost (fault),  *)
(* all the facts that make the next call safe hold together.  Each of the   *)
(* functions a call is made of keeps a pool good.                           *)
(***************************************************************************)
EXTENDS MemoryPool, WellFoundedInduction, TLAPS

Typed(m) ==
    /\ m \in [size : Nat, top : Nat, bottom : Int, n : Nat, units : [0 .. m.n - 1 -> Unit],
              tail : Int, full : BOOLEAN, fault : Faults]
    /\ FixUnits <= m.n

\* the table is exactly between bottom and the end, above the data
Geometry(m) == m.bottom = m.size - One * m.n /\ m.top <= m.bottom

\* every block lies below top
Placed(m) ==
    \A i \in Live(m) : /\ m.units[i].p \in Nat /\ m.units[i].size \in Nat
                       /\ m.units[i].p + m.units[i].size <= m.top

Disjoint(m) ==
    \A i, j \in Live(m) : i # j =>
        \/ m.units[i].p + m.units[i].size <= m.units[j].p
        \/ m.units[j].p + m.units[j].size <= m.units[i].p

Tiled(m) ==
    \A x \in 0 .. m.top - 1 : \E i \in Live(m) :
        m.units[i].p <= x /\ x < m.units[i].p + m.units[i].size

Chained(m) ==
    \A i \in Live(m) : m.units[i].child # -1 =>
        /\ m.units[i].child \in Live(m)
        /\ m.units[m.units[i].child].p = m.units[i].p + m.units[i].size
        /\ m.units[m.units[i].child].parent = i

\* a unit without a block is linked to nothing; the block made last ends at top
LooseEnds(m) ==
    /\ \A i \in 0 .. m.n - 1 : m.units[i].status = "FREE" => m.units[i].child = -1
    /\ m.tail # -1 => /\ m.tail \in Live(m)
                      /\ m.units[m.tail].p + m.units[m.tail].size = m.top

Core(m) == /\ Geometry(m) /\ Placed(m) /\ Disjoint(m) /\ Tiled(m)
           /\ Chained(m) /\ LooseEnds(m)

Good(m) == Typed(m) /\ (m.fault = "none" => Core(m))

\* the callers' view: the units in use, and that a step only adds those of S to them
UseIds(m) == {i \in 0 .. m.n - 1 : m.units[i].status = "USE"}

Adds(m, r, S) ==
    /\ UseIds(r) = UseIds(m) \cup S
    /\ \A i \in UseIds(m) : /\ r.units[i].p = m.units[i].p
                            /\ r.units[i].size = m.units[i].size

-----------------------------------------------------------------------------
\* QS_ALIGNUP answers a length.
LEMMA AlignUpNat == \A n \in Nat : AlignUp(n) \in Nat
<1> SUFFICES ASSUME NEW n \in Nat PROVE AlignUp(n) \in Nat
  OBVIOUS
<1>1. (n + Align - 1) \div Align \in Nat
  BY AlignAssumption
<1> QED BY <1>1, AlignAssumption DEF AlignUp

\* qs_realloc_memory keeps a pool good, and touches neither the units nor top.
LEMMA GrowGood ==
    ASSUME NEW m, Good(m), NEW k \in Nat
    PROVE  /\ Good(Grow(m, k))
           /\ Grow(m, k).n = m.n /\ Grow(m, k).units = m.units
           /\ Grow(m, k).top = m.top /\ Grow(m, k).tail = m.tail
           /\ Grow(m, k).fault = "none" => m.fault = "none"
           /\ Adds(m, Grow(m, k), {})
<1> DEFINE r == Grow(m, k)
           d == Growth(m, k)
<1>0. m \in [size : Nat, top : Nat, bottom : Int, n : Nat, units : [0 .. m.n - 1 -> Unit],
             tail : Int, full : BOOLEAN, fault : Faults]
  BY DEF Good, Typed
<1>1. d \in Int
  BY <1>0, SizeAssumption, GrowthAssumption DEF Growth
<1> HIDE DEF d
<1> DEFINE P(q) ==
      /\ q \in [size : Nat, top : Nat, bottom : Int, n : Nat, units : [0 .. m.n - 1 -> Unit],
                tail : Int, full : BOOLEAN, fault : Faults]
      /\ q.n = m.n /\ q.units = m.units /\ q.top = m.top /\ q.tail = m.tail
      /\ q.fault = "none" =>
            \/ m.fault = "none" /\ q.size = m.size /\ q.bottom = m.bottom
            \/ m.fault = "none" /\ q.size = m.size + d /\ q.bottom = m.bottom + d /\ d >= One
<1>a. P(m) /\ P([m EXCEPT !.full = TRUE])
  BY <1>0
<1>b. P([m EXCEPT !.fault = "shrink"]) /\ P([m EXCEPT !.fault = "overlap"])
  BY <1>0 DEF Faults
<1>c. d >= One => P([m EXCEPT !.size = @ + d, !.bottom = @ + d])
  <2>1. SUFFICES ASSUME d >= One PROVE P([m EXCEPT !.size = @ + d, !.bottom = @ + d])
    OBVIOUS
  <2>2. m.size + d \in Nat /\ m.bottom + d \in Int
    BY <1>0, <1>1, <2>1, OneAssumption
  <2> QED BY <1>0, <2>1, <2>2
<1>d. \/ r = m
      \/ r = [m EXCEPT !.full = TRUE]
      \/ r = [m EXCEPT !.fault = "shrink"]
      \/ r = [m EXCEPT !.fault = "overlap"]
      \/ d >= One /\ r = [m EXCEPT !.size = @ + d, !.bottom = @ + d]
  BY <1>1, OneAssumption DEF Grow, d
<1>2. P(r)
  BY <1>a, <1>b, <1>c, <1>d
<1> HIDE DEF r
<1>3. Live(r) = Live(m)
  BY <1>2 DEF Live
<1>4. ASSUME r.fault = "none" PROVE Core(r)
  <2>1. Core(m)
    BY <1>2, <1>4 DEF Good
  <2>2. Geometry(r)
    BY <1>1, <1>2, <1>4, <2>1, OneAssumption DEF Core, Geometry, Good, Typed
  <2> QED BY <1>2, <1>3, <2>1, <2>2 DEF Core, Placed, Disjoint, Tiled, Chained, LooseEnds
<1>5. Good(r)
  BY <1>2, <1>4 DEF Good, Typed
<1>6. Adds(m, r, {})
  BY <1>2 DEF Adds, UseIds
<1> QED BY <1>2, <1>5, <1>6 DEF r

\* A new record keeps a pool good when the gap has room for it.
LEMMA AddRecordGood ==
    ASSUME NEW m, Good(m), ~NoRecordRoom(m)
    PROVE  /\ Good(AddRecord(m))
           /\ AddRecord(m).n = m.n + 1
           /\ \A i \in 0 .. m.n - 1 : AddRecord(m).units[i] = m.units[i]
           /\ AddRecord(m).units[m.n] = FreeUnit
           /\ AddRecord(m).fault = "none" => m.fault = "none" /\ m.bottom - One > m.top
           /\ Adds(m, AddRecord(m), {})
<1> DEFINE r == AddRecord(m)
<1>0. FreeUnit \in Unit
  BY DEF FreeUnit, Unit
<1>1. /\ m \in [size : Nat, top : Nat, bottom : Int, n : Nat, units : [0 .. m.n - 1 -> Unit],
                tail : Int, full : BOOLEAN, fault : Faults]
      /\ m.units \in [0 .. m.n - 1 -> Unit] /\ m.n \in Nat /\ m.bottom \in Int /\ m.top \in Nat
      /\ m.fault \in Faults
  BY DEF Good, Typed
<1>a. [i \in 0 .. m.n |-> IF i = m.n THEN FreeUnit ELSE m.units[i]] \in [0 .. m.n -> Unit]
  BY <1>0, <1>1
<1>2. /\ r \in [size : Nat, top : Nat, bottom : Int, n : Nat, units : [0 .. m.n -> Unit],
                tail : Int, full : BOOLEAN, fault : Faults]
      /\ r.n = m.n + 1 /\ r.top = m.top /\ r.tail = m.tail /\ r.size = m.size
      /\ r.units = [i \in 0 .. m.n |-> IF i = m.n THEN FreeUnit ELSE m.units[i]]
      /\ r.fault = "none" => m.fault = "none" /\ One <= m.bottom /\ r.bottom = m.bottom - One
  <2> DEFINE u == [i \in 0 .. m.n |-> IF i = m.n THEN FreeUnit ELSE m.units[i]]
             e == IF m.bottom < One THEN "underflow" ELSE m.fault
  <2>1. /\ m.bottom - One \in Int /\ m.n + 1 \in Nat /\ e \in Faults
        /\ e = "none" => m.fault = "none" /\ One <= m.bottom
    BY <1>1, OneAssumption DEF Faults
  <2>2. r = [m EXCEPT !.bottom = @ - One, !.n = @ + 1, !.units = u, !.fault = e]
    BY DEF AddRecord
  <2> HIDE DEF u, e
  <2> QED BY <1>1, <1>a, <2>1, <2>2 DEF u
<1> HIDE DEF r
<1>3. /\ \A i \in 0 .. m.n - 1 : r.units[i] = m.units[i]
      /\ r.units[m.n] = FreeUnit
  BY <1>1, <1>2
<1>4. Live(r) = Live(m)
  BY <1>1, <1>2, <1>3 DEF Live, FreeUnit
<1>5. ASSUME r.fault = "none" PROVE Core(r)
  <2>1. Core(m) /\ m.bottom - One > m.top
    BY <1>1, <1>2, <1>5, OneAssumption DEF Good, NoRecordRoom
  <2>2. Geometry(r)
    <3>1. One * (m.n + 1) = One * m.n + One
      BY <1>1, OneAssumption
    <3> QED BY <1>1, <1>2, <1>5, <2>1, <3>1, OneAssumption DEF Core, Geometry, Good, Typed
  <2>3. \A i \in Live(m) : i \in 0 .. m.n - 1 /\ r.units[i] = m.units[i]
    BY <1>3 DEF Live
  <2>4. Placed(r) /\ Disjoint(r) /\ Tiled(r)
    BY <1>2, <1>4, <2>1, <2>3 DEF Core, Placed, Disjoint, Tiled
  <2>5. Chained(r)
    BY <1>4, <2>1, <2>3 DEF Core, Chained
  <2>6. LooseEnds(r)
    <3>1. \A i \in 0 .. r.n - 1 : r.units[i].status = "FREE" => r.units[i].child = -1
      <4>1. r.units[m.n].child = -1
        BY <1>3 DEF FreeUnit
      <4>2. \A i \in 0 .. m.n - 1 : r.units[i].status = "FREE" => r.units[i].child = -1
        BY <1>3, <2>1 DEF Core, LooseEnds
      <4>3. 0 .. r.n - 1 = (0 .. m.n - 1) \cup {m.n}
        BY <1>1, <1>2
      <4> QED BY <4>1, <4>2, <4>3
    <3>2. r.tail # -1 => /\ r.tail \in Live(r)
                         /\ r.units[r.tail].p + r.units[r.tail].size = r.top
      BY <1>2, <1>4, <2>1, <2>3 DEF Core, LooseEnds
    <3> QED BY <3>1, <3>2 DEF LooseEnds
  <2> QED BY <2>2, <2>4, <2>5, <2>6 DEF Core
<1>6. r.fault = "none" => m.bottom - One > m.top
  BY <1>1, <1>2, OneAssumption DEF NoRecordRoom
<1>7. Typed(r)
  <2>1. 0 .. r.n - 1 = 0 .. m.n /\ FixUnits <= r.n
    BY <1>1, <1>2, UnitsAssumption DEF Good, Typed
  <2> QED BY <1>2, <2>1 DEF Typed
<1>8. Good(r)
  BY <1>5, <1>7 DEF Good
<1>9. Adds(m, r, {})
  <2>1. UseIds(r) = UseIds(m)
    BY <1>1, <1>2, <1>3 DEF UseIds, FreeUnit
  <2> QED BY <1>3, <2>1 DEF Adds, UseIds
<1> QED BY <1>2, <1>3, <1>6, <1>8, <1>9 DEF r

\* What linking a unit to another parent leaves and changes.
LEMMA UnitParent ==
    ASSUME NEW q \in Unit, NEW c \in Int
    PROVE  LET w == [q EXCEPT !.parent = c] IN
           /\ w \in Unit /\ w.p = q.p /\ w.size = q.size
           /\ w.status = q.status /\ w.child = q.child /\ w.parent = c
BY DEF Unit

\* A unit whose child is written.
LEMMA UnitChild ==
    ASSUME NEW q \in Unit, NEW c \in Int
    PROVE  LET w == [q EXCEPT !.child = c] IN
           /\ w \in Unit /\ w.p = q.p /\ w.size = q.size
           /\ w.status = q.status /\ w.parent = q.parent /\ w.child = c
BY DEF Unit

\* Splitting a garbage block keeps a pool good: the two parts cover the old block, and the
\* unit for the second part takes the place of the first in the chain.
LEMMA SplitGood ==
    ASSUME NEW m, Good(m), NEW g \in 0 .. m.n - 1, NEW f \in 0 .. m.n - 1, NEW k \in Nat,
           g # f, m.units[g].status = "GARBAGE", m.units[f].status = "FREE",
           k < m.units[g].size
    PROVE  /\ Good(Split(m, g, f, k))
           /\ Split(m, g, f, k).n = m.n
           /\ Split(m, g, f, k).top = m.top
           /\ Split(m, g, f, k).fault = m.fault
           /\ Split(m, g, f, k).units[g].status = "GARBAGE"
           /\ Adds(m, Split(m, g, f, k), {})
<1> DEFINE old  == m.units[g]
           nx   == old.child
           linked == nx >= 0 /\ m.units[nx].status # "FREE"
           left == [p |-> old.p + k, size |-> old.size - k, status |-> "GARBAGE", parent |-> g,
                    child |-> IF linked THEN nx ELSE m.units[f].child]
           cut  == [p |-> old.p, size |-> k, status |-> old.status, parent |-> old.parent,
                    child |-> f]
           u    == [i \in DOMAIN m.units |->
                      CASE i = g -> cut
                        [] i = f -> left
                        [] i # g /\ i # f /\ linked /\ i = nx -> [m.units[i] EXCEPT !.parent = f]
                        [] OTHER -> m.units[i]]
           t    == IF m.tail = g THEN f ELSE m.tail
           r    == Split(m, g, f, k)
<1>1. /\ m \in [size : Nat, top : Nat, bottom : Int, n : Nat, units : [0 .. m.n - 1 -> Unit],
                tail : Int, full : BOOLEAN, fault : Faults]
      /\ m.units \in [0 .. m.n - 1 -> Unit] /\ m.n \in Nat /\ m.tail \in Int
      /\ FixUnits <= m.n /\ m.top \in Nat
  BY DEF Good, Typed
<1>2. /\ DOMAIN m.units = 0 .. m.n - 1
      /\ \A i \in 0 .. m.n - 1 : m.units[i] \in Unit
  BY <1>1
<1>3. old \in Unit /\ nx \in Int /\ old.p \in Int /\ old.size \in Int /\ m.units[f].child \in Int
  BY <1>2 DEF Unit
<1>4. /\ cut \in Unit /\ cut.size = k /\ cut.child = f /\ cut.p = old.p
      /\ cut.status = "GARBAGE" /\ cut.parent = old.parent
  <2>1. f \in Int /\ k \in Int /\ old.status = "GARBAGE" /\ old.parent \in Int
    BY <1>1, <1>3 DEF Unit
  <2> HIDE DEF old
  <2> QED BY <1>3, <2>1 DEF Unit
<1>5. /\ left \in Unit /\ left.p = old.p + k /\ left.size = old.size - k
      /\ left.status = "GARBAGE" /\ left.parent = g
      /\ left.child = IF linked THEN nx ELSE m.units[f].child
  <2> DEFINE c == IF linked THEN nx ELSE m.units[f].child
  <2>1. old.p + k \in Int /\ old.size - k \in Int /\ g \in Int /\ c \in Int
    BY <1>1, <1>3
  <2> HIDE DEF c, old
  <2> QED BY <2>1 DEF Unit, c
<1>6. \A i \in 0 .. m.n - 1 :
        LET w == [m.units[i] EXCEPT !.parent = f] IN
        /\ w \in Unit /\ w.p = m.units[i].p /\ w.size = m.units[i].size
        /\ w.status = m.units[i].status /\ w.child = m.units[i].child /\ w.parent = f
  <2>1. f \in Int
    BY <1>1
  <2> QED BY <1>2, <2>1, UnitParent
<1> HIDE DEF cut, left, linked, nx, old
<1>7. /\ u \in [0 .. m.n - 1 -> Unit]
      /\ u[g] = cut
      /\ u[f] = left
      /\ \A i \in (0 .. m.n - 1) \ {g, f} :
            /\ u[i].p = m.units[i].p /\ u[i].size = m.units[i].size
            /\ u[i].status = m.units[i].status /\ u[i].child = m.units[i].child
            /\ u[i].parent = IF linked /\ i = nx THEN f ELSE m.units[i].parent
  BY <1>2, <1>4, <1>5, <1>6
<1>p. /\ u[g].p = old.p /\ u[g].size = k /\ u[g].status = "GARBAGE" /\ u[g].child = f
      /\ u[f].p = old.p + k /\ u[f].size = old.size - k /\ u[f].status = "GARBAGE"
      /\ u[f].parent = g
  BY <1>4, <1>5, <1>7
<1>8. t \in Int
  BY <1>1
<1>9. /\ r \in [size : Nat, top : Nat, bottom : Int, n : Nat, units : [0 .. m.n - 1 -> Unit],
                tail : Int, full : BOOLEAN, fault : Faults]
      /\ r.n = m.n /\ r.units = u /\ r.top = m.top /\ r.tail = t
      /\ r.size = m.size /\ r.bottom = m.bottom /\ r.fault = m.fault
  <2>1. r = [m EXCEPT !.tail = t, !.units = u]
    BY DEF Split, cut, left, linked, nx, old
  <2> HIDE DEF t, u, r
  <2> QED BY <1>1, <1>7, <1>8, <2>1
<1> HIDE DEF u, r
<1>10. Live(r) = Live(m) \cup {f}
  BY <1>4, <1>5, <1>7, <1>9 DEF Live
<1>11. g \in Live(m) /\ f \notin Live(m)
  BY DEF Live
<1>12. ASSUME m.fault = "none" PROVE Core(r)
  <2>1. Core(m)
    BY <1>12 DEF Good
  <2>2. Geometry(r)
    BY <1>9, <2>1 DEF Core, Geometry
  <2>3. /\ \A i \in Live(m) : i \in 0 .. m.n - 1
        /\ \A i \in Live(m) \ {g} : i \in (0 .. m.n - 1) \ {g, f}
    BY <1>11 DEF Live
  <2>4. /\ old.p \in Nat /\ old.size \in Nat /\ old.p + old.size <= m.top /\ k < old.size
    BY <1>11, <2>1 DEF Core, Placed, old
  <2>5. Placed(r)
    <3>1. \A i \in Live(m) \ {g} :
            u[i].p \in Nat /\ u[i].size \in Nat /\ u[i].p + u[i].size <= m.top
      BY <1>7, <2>1, <2>3 DEF Core, Placed
    <3>a. m.top \in Nat /\ k \in Nat
      BY <1>1
    <3>2. u[g].p \in Nat /\ u[g].size \in Nat /\ u[g].p + u[g].size <= m.top
      BY <1>p, <2>4, <3>a
    <3>3. u[f].p \in Nat /\ u[f].size \in Nat /\ u[f].p + u[f].size <= m.top
      BY <1>p, <2>4, <3>a
    <3> QED BY <1>9, <1>10, <3>1, <3>2, <3>3 DEF Placed
  <2>6. Disjoint(r)
    <3>1. \A i \in Live(m) \ {g} : \/ m.units[i].p + m.units[i].size <= old.p
                                   \/ old.p + old.size <= m.units[i].p
      BY <1>11, <2>1 DEF Core, Disjoint, old
    <3>2. \A i \in Live(m) : m.units[i].p \in Nat /\ m.units[i].size \in Nat
      BY <2>1 DEF Core, Placed
    <3>3. \A i \in Live(m) \ {g} : \A j \in {g, f} :
            \/ u[i].p + u[i].size <= u[j].p
            \/ u[j].p + u[j].size <= u[i].p
      <4> SUFFICES ASSUME NEW i \in Live(m) \ {g}
                   PROVE  \A j \in {g, f} : \/ u[i].p + u[i].size <= u[j].p
                                            \/ u[j].p + u[j].size <= u[i].p
        OBVIOUS
      <4>1. /\ u[i].p = m.units[i].p /\ u[i].size = m.units[i].size
            /\ u[i].p \in Nat /\ u[i].size \in Nat
        BY <1>7, <2>3, <3>2
      <4>2. u[i].p + u[i].size <= old.p \/ old.p + old.size <= u[i].p
        BY <3>1, <4>1
      <4> QED BY <1>p, <2>4, <4>1, <4>2
    <3>4. u[g].p + u[g].size <= u[f].p
      BY <1>p, <2>4
    <3>5. \A i, j \in Live(m) \ {g} : i # j =>
            \/ u[i].p + u[i].size <= u[j].p
            \/ u[j].p + u[j].size <= u[i].p
      BY <1>7, <2>1, <2>3 DEF Core, Disjoint
    <3> QED BY <1>9, <1>10, <3>3, <3>4, <3>5 DEF Disjoint
  <2>7. Tiled(r)
    <3> SUFFICES ASSUME NEW x \in 0 .. m.top - 1
                 PROVE  \E i \in Live(m) \cup {f} : u[i].p <= x /\ x < u[i].p + u[i].size
      BY <1>9, <1>10 DEF Tiled
    <3>1. PICK i \in Live(m) : m.units[i].p <= x /\ x < m.units[i].p + m.units[i].size
      BY <2>1 DEF Core, Tiled
    <3>a. x \in Nat
      BY <1>1
    <3>2. CASE i # g
      BY <1>7, <2>3, <3>1, <3>2
    <3>3. CASE i = g /\ x < old.p + k
      BY <1>p, <1>11, <3>1, <3>3 DEF old
    <3>4. CASE i = g /\ ~(x < old.p + k)
      BY <1>p, <2>4, <3>1, <3>4, <3>a DEF old
    <3> QED BY <3>2, <3>3, <3>4
  <2>8. /\ linked <=> nx # -1
        /\ linked => /\ nx \in Live(m) \ {g} /\ m.units[nx].p = old.p + old.size
                     /\ m.units[nx].parent = g
    <3>1. nx # -1 => /\ nx \in Live(m) /\ m.units[nx].p = old.p + old.size
                     /\ m.units[nx].parent = g
      BY <1>11, <2>1 DEF Core, Chained, nx, old
    <3>2. nx # g
      BY <2>4, <3>1, <1>3 DEF old
    <3>3. linked <=> nx # -1
      BY <1>1, <1>3, <3>1 DEF linked, Live
    <3> QED BY <3>1, <3>2, <3>3
  <2>9. m.units[f].child = -1
    BY <2>1 DEF Core, LooseEnds
  <2>10. Chained(r)
    <3>1. /\ u[g].child = f /\ u[f].p = u[g].p + u[g].size /\ u[f].parent = g
      BY <1>p, <2>4
    <3>2. u[f].child # -1 => /\ u[f].child \in Live(m)
                             /\ u[u[f].child].p = u[f].p + u[f].size
                             /\ u[u[f].child].parent = f
      BY <1>3, <1>5, <1>7, <2>3, <2>4, <2>8, <2>9
    <3>3. ASSUME NEW i \in Live(m) \ {g}, u[i].child # -1
          PROVE  /\ u[i].child \in Live(m)
                 /\ u[u[i].child].p = u[i].p + u[i].size
                 /\ u[u[i].child].parent = i
      <4> DEFINE c == m.units[i].child
      <4>1. /\ u[i].child = c /\ u[i].p = m.units[i].p /\ u[i].size = m.units[i].size
            /\ c \in Live(m) /\ m.units[c].p = m.units[i].p + m.units[i].size
            /\ m.units[c].parent = i
        BY <1>7, <2>1, <2>3, <3>3 DEF Core, Chained
      <4>2. ~(linked /\ c = nx)
        BY <2>8, <4>1
      <4>3. CASE c = g
        BY <1>4, <1>7, <4>1, <4>3 DEF old
      <4>4. CASE c # g
        BY <1>7, <2>3, <4>1, <4>2, <4>4
      <4> QED BY <4>3, <4>4
    <3> QED BY <1>9, <1>10, <1>11, <3>1, <3>2, <3>3 DEF Chained
  <2>11. LooseEnds(r)
    <3>1. \A i \in 0 .. m.n - 1 : u[i].status = "FREE" => u[i].child = -1
      BY <1>4, <1>5, <1>7, <2>1 DEF Core, LooseEnds
    <3>2. t # -1 => t \in Live(m) \cup {f} /\ u[t].p + u[t].size = m.top
      <4>1. CASE m.tail = g
        <5>1. old.p + old.size = m.top
          BY <1>1, <2>1, <4>1 DEF Core, LooseEnds, old
        <5>2. u[f].p + u[f].size = m.top
          BY <1>p, <2>4, <5>1
        <5>3. t = f
          BY <4>1
        <5> QED BY <5>2, <5>3
      <4>2. CASE m.tail # g
        BY <1>7, <2>1, <2>3, <4>2 DEF Core, LooseEnds
      <4> QED BY <4>1, <4>2
    <3> QED BY <1>9, <1>10, <3>1, <3>2 DEF LooseEnds
  <2> QED BY <2>2, <2>5, <2>6, <2>7, <2>10, <2>11 DEF Core
<1>13. Good(r)
  <2>1. Typed(r)
    BY <1>1, <1>9 DEF Typed
  <2> QED BY <1>9, <1>12, <2>1 DEF Good
<1>14. Adds(m, r, {})
  <2>1. UseIds(r) = UseIds(m)
    BY <1>p, <1>7, <1>9 DEF UseIds
  <2>2. \A i \in UseIds(m) : i \in (0 .. m.n - 1) \ {g, f}
    BY DEF UseIds
  <2> QED BY <1>7, <1>9, <2>1, <2>2 DEF Adds
<1> QED BY <1>p, <1>9, <1>13, <1>14 DEF r

\* Putting a block at top keeps a pool good when the gap holds it.
LEMMA PlaceGood ==
    ASSUME NEW m, Good(m), NEW id \in 0 .. m.n - 1, NEW k \in Nat,
           m.units[id].status = "FREE", ~NoDataRoom(m, k)
    PROVE  /\ Good(Place(m, id, k))
           /\ Place(m, id, k).fault = m.fault
           /\ Adds(m, Place(m, id, k), {id})
<1> DEFINE linked == m.tail >= FixUnits /\ m.units[m.tail].status # "FREE"
           old  == m.units[id]
           unit == [p |-> m.top, size |-> k, status |-> "USE",
                    parent |-> IF linked THEN m.tail ELSE old.parent, child |-> old.child]
           u    == [i \in DOMAIN m.units |->
                      CASE i = id -> unit
                        [] i # id /\ linked /\ i = m.tail -> [m.units[i] EXCEPT !.child = id]
                        [] OTHER -> m.units[i]]
           r    == Place(m, id, k)
<1>1. /\ m \in [size : Nat, top : Nat, bottom : Int, n : Nat, units : [0 .. m.n - 1 -> Unit],
                tail : Int, full : BOOLEAN, fault : Faults]
      /\ m.units \in [0 .. m.n - 1 -> Unit] /\ m.n \in Nat /\ m.tail \in Int
      /\ FixUnits <= m.n /\ m.top \in Nat /\ m.bottom \in Int /\ id \in Int /\ FixUnits \in Nat
  BY UnitsAssumption DEF Good, Typed
<1>2. /\ DOMAIN m.units = 0 .. m.n - 1
      /\ \A i \in 0 .. m.n - 1 : m.units[i] \in Unit
      /\ old \in Unit /\ old.parent \in Int
  BY <1>1 DEF Unit
<1>3. /\ unit \in Unit /\ unit.p = m.top /\ unit.size = k /\ unit.status = "USE"
      /\ unit.child = old.child /\ unit.parent = IF linked THEN m.tail ELSE old.parent
  <2> DEFINE c == IF linked THEN m.tail ELSE old.parent
  <2>1. c \in Int /\ m.top \in Int /\ k \in Int /\ old.child \in Int
    BY <1>1, <1>2 DEF Unit
  <2> HIDE DEF c, old
  <2> QED BY <2>1 DEF Unit, c
<1>4. \A i \in 0 .. m.n - 1 :
        LET w == [m.units[i] EXCEPT !.child = id] IN
        /\ w \in Unit /\ w.p = m.units[i].p /\ w.size = m.units[i].size
        /\ w.status = m.units[i].status /\ w.parent = m.units[i].parent /\ w.child = id
  BY <1>1, <1>2, UnitChild
<1> HIDE DEF unit, linked, old
<1>5. /\ u \in [0 .. m.n - 1 -> Unit]
      /\ u[id] = unit
      /\ \A i \in (0 .. m.n - 1) \ {id} :
            /\ u[i].p = m.units[i].p /\ u[i].size = m.units[i].size
            /\ u[i].status = m.units[i].status /\ u[i].parent = m.units[i].parent
            /\ u[i].child = IF linked /\ i = m.tail THEN id ELSE m.units[i].child
  BY <1>2, <1>3, <1>4
<1>6. /\ r \in [size : Nat, top : Nat, bottom : Int, n : Nat, units : [0 .. m.n - 1 -> Unit],
                tail : Int, full : BOOLEAN, fault : Faults]
      /\ r.n = m.n /\ r.units = u /\ r.top = m.top + k /\ r.tail = id
      /\ r.size = m.size /\ r.bottom = m.bottom /\ r.fault = m.fault
  <2>1. r = [m EXCEPT !.top = @ + k, !.tail = id, !.units = u]
    BY DEF Place, unit, linked, old
  <2>2. m.top + k \in Nat
    BY <1>1
  <2> HIDE DEF u, r
  <2> QED BY <1>1, <1>5, <2>1, <2>2
<1> HIDE DEF u, r
<1>7. Live(r) = Live(m) \cup {id}
  BY <1>3, <1>5, <1>6 DEF Live
<1>8. /\ id \notin Live(m)
      /\ \A i \in Live(m) : i \in (0 .. m.n - 1) \ {id}
  BY DEF Live
<1>9. /\ u[id].p = m.top /\ u[id].size = k
      /\ \A i \in Live(m) : u[i].p = m.units[i].p /\ u[i].size = m.units[i].size
  BY <1>3, <1>5, <1>8
<1>10. ASSUME m.fault = "none" PROVE Core(r)
  <2>1. Core(m)
    BY <1>10 DEF Good
  <2>2. Geometry(r)
    BY <1>1, <1>6, <2>1 DEF Core, Geometry, NoDataRoom
  <2>3. \A i \in Live(m) : /\ u[i].p \in Nat /\ u[i].size \in Nat
                           /\ u[i].p + u[i].size <= m.top
    BY <1>9, <2>1 DEF Core, Placed
  <2>4. Placed(r)
    BY <1>1, <1>6, <1>7, <1>9, <2>3 DEF Placed
  <2>5. Disjoint(r)
    <3>1. \A i, j \in Live(m) : i # j =>
            \/ u[i].p + u[i].size <= u[j].p
            \/ u[j].p + u[j].size <= u[i].p
      BY <1>9, <2>1 DEF Core, Disjoint
    <3>2. \A i \in Live(m) : u[i].p + u[i].size <= u[id].p
      BY <1>9, <2>3
    <3> QED BY <1>6, <1>7, <3>1, <3>2 DEF Disjoint
  <2>6. Tiled(r)
    <3> SUFFICES ASSUME NEW x \in 0 .. r.top - 1
                 PROVE  \E i \in Live(m) \cup {id} : u[i].p <= x /\ x < u[i].p + u[i].size
      BY <1>6, <1>7 DEF Tiled
    <3>0. x \in Nat /\ x < m.top + k
      BY <1>1, <1>6
    <3>1. CASE x < m.top
      <4>1. x \in 0 .. m.top - 1
        BY <1>1, <3>0, <3>1
      <4> QED BY <1>9, <2>1, <4>1 DEF Core, Tiled
    <3>2. CASE ~(x < m.top)
      BY <1>1, <1>9, <3>0, <3>2
    <3> QED BY <3>1, <3>2
  <2>7. linked => m.tail \in Live(m) /\ u[m.tail].p + u[m.tail].size = m.top
    <3>1. linked => m.tail # -1
      BY <1>1 DEF linked
    <3> QED BY <1>9, <2>1, <3>1 DEF Core, LooseEnds
  <2>8. old.child = -1
    BY <2>1 DEF Core, LooseEnds, old
  <2>9. Chained(r)
    <3>1. u[id].child = -1
      BY <1>3, <1>5, <2>8
    <3>2. ASSUME NEW i \in Live(m), u[i].child # -1
          PROVE  /\ u[i].child \in Live(m) \cup {id}
                 /\ u[u[i].child].p = u[i].p + u[i].size
                 /\ u[u[i].child].parent = i
      <4>1. CASE linked /\ i = m.tail
        BY <1>3, <1>5, <1>8, <1>9, <2>7, <4>1
      <4>2. CASE ~(linked /\ i = m.tail)
        <5> DEFINE c == m.units[i].child
        <5>1. u[i].child = c
          BY <1>5, <1>8, <4>2
        <5>2. c \in Live(m) /\ m.units[c].p = m.units[i].p + m.units[i].size
              /\ m.units[c].parent = i
          BY <2>1, <3>2, <5>1 DEF Core, Chained
        <5> QED BY <1>5, <1>8, <1>9, <5>1, <5>2
      <4> QED BY <4>1, <4>2
    <3> QED BY <1>6, <1>7, <3>1, <3>2 DEF Chained
  <2>10. LooseEnds(r)
    <3>1. \A i \in 0 .. m.n - 1 : u[i].status = "FREE" => u[i].child = -1
      BY <1>3, <1>5, <2>1, <2>7 DEF Core, LooseEnds, Live
    <3> QED BY <1>6, <1>7, <1>9, <3>1 DEF LooseEnds
  <2> QED BY <2>2, <2>4, <2>5, <2>6, <2>9, <2>10 DEF Core
<1>11. Good(r)
  <2>1. Typed(r)
    BY <1>1, <1>6 DEF Typed
  <2> QED BY <1>6, <1>10, <2>1 DEF Good
<1>12. Adds(m, r, {id})
  <2>1. UseIds(r) = UseIds(m) \cup {id}
    BY <1>3, <1>5, <1>6 DEF UseIds
  <2>2. \A i \in UseIds(m) : i \in Live(m)
    BY DEF UseIds, Live
  <2> QED BY <1>6, <1>9, <2>1, <2>2 DEF Adds
<1> QED BY <1>6, <1>11, <1>12 DEF r

\* A block that becomes used or garbage keeps a pool good.
LEMMA StatusGood ==
    ASSUME NEW m, Good(m), NEW id \in 0 .. m.n - 1, NEW s \in {"USE", "GARBAGE"},
           m.units[id].status # "FREE"
    PROVE  LET r == [m EXCEPT !.units[id].status = s] IN
           /\ Good(r)
           /\ r.fault = m.fault /\ r.n = m.n
           /\ UseIds(r) = IF s = "USE" THEN UseIds(m) \cup {id} ELSE UseIds(m) \ {id}
           /\ r.units[id].status = s
           /\ \A i \in 0 .. m.n - 1 : /\ r.units[i].p = m.units[i].p
                                      /\ r.units[i].size = m.units[i].size
<1> DEFINE r == [m EXCEPT !.units[id].status = s]
           u == [m.units EXCEPT ![id].status = s]
<1>1. /\ m \in [size : Nat, top : Nat, bottom : Int, n : Nat, units : [0 .. m.n - 1 -> Unit],
                tail : Int, full : BOOLEAN, fault : Faults]
      /\ m.units \in [0 .. m.n - 1 -> Unit] /\ m.n \in Nat
      /\ FixUnits <= m.n
  BY DEF Good, Typed
<1>2. /\ u \in [0 .. m.n - 1 -> Unit]
      /\ \A i \in 0 .. m.n - 1 :
            /\ u[i].p = m.units[i].p /\ u[i].size = m.units[i].size
            /\ u[i].parent = m.units[i].parent /\ u[i].child = m.units[i].child
            /\ u[i].status = IF i = id THEN s ELSE m.units[i].status
  BY <1>1 DEF Unit
<1>3. /\ r \in [size : Nat, top : Nat, bottom : Int, n : Nat, units : [0 .. m.n - 1 -> Unit],
                tail : Int, full : BOOLEAN, fault : Faults]
      /\ r.n = m.n /\ r.units = u /\ r.top = m.top /\ r.tail = m.tail
      /\ r.size = m.size /\ r.bottom = m.bottom /\ r.fault = m.fault
  <2>1. r = [m EXCEPT !.units = u]
    BY <1>1
  <2> HIDE DEF r, u
  <2> QED BY <1>1, <1>2, <2>1
<1> HIDE DEF r, u
<1>4. Live(r) = Live(m) /\ \A i \in Live(m) : i \in 0 .. m.n - 1
  BY <1>2, <1>3 DEF Live
<1>5. ASSUME m.fault = "none" PROVE Core(r)
  <2>1. Core(m)
    BY <1>5 DEF Good
  <2>2. Geometry(r) /\ Placed(r) /\ Disjoint(r)
    BY <1>2, <1>3, <1>4, <2>1 DEF Core, Geometry, Placed, Disjoint
  <2>3. Tiled(r)
    BY <1>2, <1>3, <1>4, <2>1 DEF Core, Tiled
  <2>4. Chained(r)
    <3> SUFFICES ASSUME NEW i \in Live(m), m.units[i].child # -1
                 PROVE  LET c == m.units[i].child IN
                        /\ c \in Live(m) /\ u[c].p = u[i].p + u[i].size /\ u[c].parent = i
      BY <1>2, <1>3, <1>4 DEF Chained
    <3> QED BY <1>2, <1>4, <2>1 DEF Core, Chained
  <2>5. LooseEnds(r)
    BY <1>2, <1>3, <1>4, <2>1 DEF Core, LooseEnds
  <2> QED BY <2>2, <2>3, <2>4, <2>5 DEF Core
<1>6. Good(r)
  BY <1>1, <1>3, <1>5 DEF Good, Typed
<1>7. UseIds(r) = IF s = "USE" THEN UseIds(m) \cup {id} ELSE UseIds(m) \ {id}
  BY <1>2, <1>3 DEF UseIds
<1> QED BY <1>2, <1>3, <1>6, <1>7 DEF r

-----------------------------------------------------------------------------
\* A bounded set of integers that is not empty has the maximum that Max chooses.
LEMMA MaxIn ==
    ASSUME NEW lo \in Int, NEW hi \in Int, NEW S \in SUBSET (lo .. hi), S # {}
    PROVE  Max(S) \in S /\ \A y \in S : y <= Max(S)
<1> DEFINE T == {hi - y : y \in S}
<1>1. T \subseteq Nat /\ T # {}
  OBVIOUS
<1>2. \E x \in T : \A y \in T : ~ (<<y, x>> \in OpToRel(<, Nat))
  BY <1>1, WFMin, NatLessThanWellFounded
<1>3. PICK x \in T : \A y \in T : ~(y < x)
  BY <1>1, <1>2 DEF OpToRel
<1>4. PICK z \in S : x = hi - z
  OBVIOUS
<1>5. \A y \in S : z >= y
  BY <1>3, <1>4
<1> QED BY <1>5 DEF Max

\* What is newly in use after two calls, the first of which adds nothing.
LEMMA AddsTransitive ==
    ASSUME NEW a, NEW b, NEW c, NEW S, Adds(a, b, {}), Adds(b, c, S)
    PROVE  Adds(a, c, S)
BY DEF Adds

\* A growth to make room for a record keeps a pool good.
LEMMA GrowForRecordGood ==
    ASSUME NEW m, Good(m)
    PROVE  /\ Good(GrowForRecord(m)) /\ GrowForRecord(m).n = m.n
           /\ GrowForRecord(m).units = m.units
           /\ GrowForRecord(m).fault = "none" => m.fault = "none"
           /\ Adds(m, GrowForRecord(m), {})
<1>1. Adds(m, m, {})
  BY DEF Adds
<1> QED BY <1>1, GrowGood, OneAssumption DEF GrowForRecord

\* qs_malloc: a good pool, and at most the unit asked for is newly in use.
LEMMA MallocGood ==
    ASSUME NEW m, Good(m), NEW id \in 0 .. m.n - 1, NEW k \in Nat,
           m.units[id].status = "FREE"
    PROVE  LET r == Malloc(m, id, k) IN
           /\ Good(r)
           /\ r.fault = "none" => m.fault = "none"
           /\ Adds(m, r, {}) \/ Adds(m, r, {id})
<1> DEFINE g == IF Growable /\ NoDataRoom(m, k) THEN Grow(m, k) ELSE m
<1>1. Adds(m, m, {})
  BY DEF Adds
<1>2. /\ Good(g) /\ g.n = m.n /\ g.units = m.units
      /\ g.fault = "none" => m.fault = "none"
      /\ Adds(m, g, {})
  BY <1>1, GrowGood
<1>3. \/ Malloc(m, id, k) = m
      \/ Malloc(m, id, k) = g
      \/ ~NoDataRoom(g, k) /\ Malloc(m, id, k) = Place(g, id, k)
  BY DEF Malloc
<1> HIDE DEF g
<1>4. CASE Malloc(m, id, k) = m \/ Malloc(m, id, k) = g
  BY <1>1, <1>2, <1>4
<1>5. CASE ~NoDataRoom(g, k) /\ Malloc(m, id, k) = Place(g, id, k)
  <2>1. /\ Good(Place(g, id, k)) /\ Place(g, id, k).fault = g.fault
        /\ Adds(g, Place(g, id, k), {id})
    BY <1>2, <1>5, PlaceGood
  <2> QED BY <1>2, <1>5, <2>1, AddsTransitive
<1> QED BY <1>3, <1>4, <1>5

\* qs_resize_garbage: a good pool in which the same units are in use.
LEMMA ResizeGarbageGood ==
    ASSUME NEW m, Good(m), NEW g \in 0 .. m.n - 1, NEW f \in -1 .. m.n - 1, NEW k \in Nat,
           m.units[g].status = "GARBAGE", k <= m.units[g].size,
           f # -1 => f # g /\ m.units[f].status = "FREE"
    PROVE  LET r == ResizeGarbage(m, g, f, k) IN
           /\ Good(r)
           /\ r.fault = "none" => m.fault = "none"
           /\ Adds(m, r, {})
           /\ g \in 0 .. r.n - 1 /\ r.units[g].status = "GARBAGE"
<1> DEFINE grown == IF f = -1 THEN GrowForRecord(m) ELSE m
           a == AddRecord(grown)
           r == ResizeGarbage(m, g, f, k)
<1>0. m.n \in Nat /\ m.units[g].size \in Int
  <2>1. m.units \in [0 .. m.n - 1 -> Unit] /\ m.n \in Nat
    BY DEF Good, Typed
  <2> QED BY <2>1 DEF Unit
<1>1. Adds(m, m, {})
  BY DEF Adds
<1>2. CASE m.units[g].size - k < One
  BY <1>1, <1>2 DEF ResizeGarbage
<1>3. CASE ~(m.units[g].size - k < One) /\ f # -1
  <2>1. r = Split(m, g, f, k) /\ k < m.units[g].size /\ f \in 0 .. m.n - 1
    BY <1>0, <1>3, OneAssumption DEF ResizeGarbage
  <2> QED BY <1>3, <2>1, SplitGood
<1>4. CASE ~(m.units[g].size - k < One) /\ f = -1
  <2>1. /\ Good(grown) /\ grown.n = m.n /\ grown.units = m.units
        /\ grown.fault = "none" => m.fault = "none"
        /\ Adds(m, grown, {})
    BY <1>1, GrowForRecordGood
  <2>2. r = IF NoRecordRoom(grown) THEN grown ELSE Split(a, g, m.n, k)
    BY <1>4 DEF ResizeGarbage
  <2> HIDE DEF r, grown
  <2>3. CASE NoRecordRoom(grown)
    BY <2>1, <2>2, <2>3 DEF r
  <2>4. CASE ~NoRecordRoom(grown)
    <3>1. /\ Good(a) /\ a.n = m.n + 1
          /\ \A i \in 0 .. m.n - 1 : a.units[i] = m.units[i]
          /\ a.units[m.n] = FreeUnit
          /\ a.fault = "none" => grown.fault = "none"
          /\ Adds(grown, a, {})
      BY <2>1, <2>4, AddRecordGood
    <3> HIDE DEF a
    <3>2. /\ g \in 0 .. a.n - 1 /\ m.n \in 0 .. a.n - 1 /\ g # m.n
          /\ a.units[g].status = "GARBAGE" /\ a.units[m.n].status = "FREE"
          /\ k < a.units[g].size
      BY <1>0, <1>4, <3>1, OneAssumption DEF FreeUnit
    <3>3. /\ Good(Split(a, g, m.n, k)) /\ Split(a, g, m.n, k).n = a.n
          /\ Split(a, g, m.n, k).fault = a.fault
          /\ Split(a, g, m.n, k).units[g].status = "GARBAGE"
          /\ Adds(a, Split(a, g, m.n, k), {})
      BY <3>1, <3>2, SplitGood
    <3>4. Adds(m, Split(a, g, m.n, k), {})
      BY <2>1, <3>1, <3>3, AddsTransitive
    <3> QED BY <2>1, <2>2, <2>4, <3>1, <3>2, <3>3, <3>4 DEF r
  <2> QED BY <2>3, <2>4
<1> QED BY <1>2, <1>3, <1>4

\* The garbage block qs_find_freemunit takes is long enough, and the unit it splits it with
\* is FREE.
LEMMA ReuseArguments ==
    ASSUME NEW g, Good(g), NEW k \in Nat, Fitting(g, k) # {}
    PROVE  LET b == Max(Fitting(g, k))
               e == NewestOrNone(FreeFrom(g, b + 1))
           IN  /\ b \in 0 .. g.n - 1 /\ g.units[b].status = "GARBAGE" /\ k <= g.units[b].size
               /\ e \in -1 .. g.n - 1 /\ (e # -1 => e # b /\ g.units[e].status = "FREE")
<1> DEFINE b == Max(Fitting(g, k))
           e == NewestOrNone(FreeFrom(g, b + 1))
<1>1. g.units \in [0 .. g.n - 1 -> Unit] /\ g.n \in Nat /\ FixUnits \in Nat
  BY UnitsAssumption DEF Good, Typed
<1>2. b \in Fitting(g, k)
  <2>1. Fitting(g, k) \in SUBSET (FixUnits .. g.n - 1) /\ g.n - 1 \in Int /\ FixUnits \in Int
    BY <1>1 DEF Fitting
  <2> QED BY <2>1, MaxIn
<1>3. b \in 0 .. g.n - 1 /\ g.units[b].status = "GARBAGE" /\ k <= g.units[b].size
  <2>1. b \in FixUnits .. g.n - 1 /\ g.units[b].status = "GARBAGE" /\ g.units[b].size >= k
    BY <1>2 DEF Fitting
  <2>2. g.units[b].size \in Int
    BY <1>1, <2>1 DEF Unit
  <2> QED BY <1>1, <2>1, <2>2
<1> HIDE DEF b
<1>4. e \in -1 .. g.n - 1 /\ (e # -1 => e # b /\ g.units[e].status = "FREE")
  <2>1. CASE FreeFrom(g, b + 1) = {}
    BY <1>1, <2>1 DEF NewestOrNone
  <2>2. CASE FreeFrom(g, b + 1) # {}
    <3>1. /\ FreeFrom(g, b + 1) \in SUBSET (b + 1 .. g.n - 1)
          /\ b + 1 \in Int /\ g.n - 1 \in Int
      BY <1>1, <1>3 DEF FreeFrom
    <3>2. e \in FreeFrom(g, b + 1)
      BY <2>2, <3>1, MaxIn DEF NewestOrNone
    <3> QED BY <1>1, <1>3, <3>2 DEF FreeFrom
  <2> QED BY <2>1, <2>2
<1> QED BY <1>3, <1>4 DEF b

\* qs_find_freemunit: a good pool and, when a unit is found, either one without a block
\* or a garbage block that is in use from now on.
LEMMA FindUnitGood ==
    ASSUME NEW m, Good(m), NEW k \in Nat
    PROVE  LET f == FindUnit(m, k) IN
           /\ Good(f.pool)
           /\ f.pool.fault = "none" => m.fault = "none"
           /\ f.id # -1 => f.id \in 0 .. f.pool.n - 1
           /\ \/ Adds(m, f.pool, {})
              \/ /\ Adds(m, f.pool, {f.id}) /\ f.id \notin UseIds(m)
                 /\ f.id # -1 /\ f.pool.units[f.id].status = "USE"
<1> DEFINE g == GrowForRecord(m)
           f == FindUnit(m, k)
<1>1. /\ Good(g) /\ g.n = m.n /\ g.units = m.units
      /\ g.fault = "none" => m.fault = "none"
      /\ Adds(m, g, {})
  BY GrowForRecordGood
<1>2. g.units \in [0 .. g.n - 1 -> Unit] /\ g.n \in Nat /\ FixUnits \in Nat /\ m.n \in Nat
  BY <1>1, UnitsAssumption DEF Good, Typed
<1>3. CASE ~NoRecordRoom(g)
  <2>1. f.pool = AddRecord(g) /\ f.id = g.n
    BY <1>3 DEF FindUnit
  <2>2. /\ Good(AddRecord(g)) /\ AddRecord(g).n = g.n + 1
        /\ AddRecord(g).fault = "none" => g.fault = "none"
        /\ Adds(g, AddRecord(g), {})
    BY <1>1, <1>3, AddRecordGood
  <2> HIDE DEF f, g
  <2> QED BY <1>1, <1>2, <2>1, <2>2, AddsTransitive DEF f
<1>4. CASE NoRecordRoom(g) /\ Fitting(g, k) # {}
  <2> DEFINE b == Max(Fitting(g, k))
             e == NewestOrNone(FreeFrom(g, b + 1))
             c == ResizeGarbage(g, b, e, k)
  <2>2. /\ b \in 0 .. g.n - 1 /\ g.units[b].status = "GARBAGE" /\ k <= g.units[b].size
        /\ e \in -1 .. g.n - 1 /\ (e # -1 => e # b /\ g.units[e].status = "FREE")
    <3> HIDE DEF g
    <3> QED BY <1>1, <1>4, ReuseArguments
  <2> HIDE DEF b, g
  <2> HIDE DEF e
  <2>4. /\ Good(c)
        /\ c.fault = "none" => g.fault = "none"
        /\ Adds(g, c, {})
        /\ b \in 0 .. c.n - 1 /\ c.units[b].status = "GARBAGE"
    BY <1>1, <2>2, ResizeGarbageGood
  <2> DEFINE r == [c EXCEPT !.units[b].status = "USE"]
  <2>5. f.pool = r /\ f.id = b
    BY <1>4 DEF FindUnit, Reuse, b, e, g
  <2> HIDE DEF c
  <2>6. /\ Good(r) /\ r.fault = c.fault /\ r.n = c.n
        /\ UseIds(r) = UseIds(c) \cup {b}
        /\ r.units[b].status = "USE"
        /\ \A i \in 0 .. c.n - 1 : r.units[i].p = c.units[i].p /\ r.units[i].size = c.units[i].size
    BY <2>4, StatusGood
  <2> HIDE DEF r, f
  <2>7. Adds(c, r, {b})
    BY <2>6 DEF Adds, UseIds
  <2>8. Adds(m, r, {b})
    BY <1>1, <2>4, <2>7, AddsTransitive
  <2>9. b \notin UseIds(m) /\ b # -1
    BY <1>1, <1>2, <2>2 DEF UseIds
  <2> QED BY <1>1, <2>4, <2>5, <2>6, <2>8, <2>9 DEF f
<1>5. CASE NoRecordRoom(g) /\ Fitting(g, k) = {}
  <2>1. f.pool = g /\ f.id = NewestOrNone(FreeFrom(g, FixUnits))
    BY <1>5 DEF FindUnit
  <2> HIDE DEF g, f
  <2>2. f.id # -1 => f.id \in 0 .. g.n - 1
    <3>1. CASE FreeFrom(g, FixUnits) = {}
      BY <2>1, <3>1 DEF NewestOrNone
    <3>2. CASE FreeFrom(g, FixUnits) # {}
      <4>1. /\ FreeFrom(g, FixUnits) \in SUBSET (FixUnits .. g.n - 1)
            /\ FixUnits \in Int /\ g.n - 1 \in Int
        BY <1>2 DEF FreeFrom
      <4>2. f.id \in FreeFrom(g, FixUnits)
        BY <2>1, <3>2, <4>1, MaxIn DEF NewestOrNone
      <4> QED BY <1>2, <4>2 DEF FreeFrom
    <3> QED BY <3>1, <3>2
  <2> QED BY <1>1, <2>1, <2>2 DEF f
<1> QED BY <1>3, <1>4, <1>5

\* qs_create_munit: a good pool, and at most one unit, not in use before, newly in use.
LEMMA CreateMunitGood ==
    ASSUME NEW m, Good(m), NEW k \in Nat
    PROVE  LET r == CreateMunit(m, k) IN
           /\ Good(r)
           /\ r.fault = "none" => m.fault = "none"
           /\ \/ Adds(m, r, {})
              \/ \E id \in 0 .. r.n - 1 : id \notin UseIds(m) /\ Adds(m, r, {id})
<1> DEFINE f == FindUnit(m, k)
           b == f.id
           q == f.pool
           r == CreateMunit(m, k)
<1>1. /\ Good(q)
      /\ q.fault = "none" => m.fault = "none"
      /\ b # -1 => b \in 0 .. q.n - 1
      /\ \/ Adds(m, q, {})
         \/ /\ Adds(m, q, {b}) /\ b \notin UseIds(m)
            /\ b # -1 /\ q.units[b].status = "USE"
  BY FindUnitGood
<1>2. r = IF b # -1 /\ q.units[b].status = "FREE" THEN Malloc(q, b, k) ELSE q
  BY DEF CreateMunit
<1> HIDE DEF f, b, q, r
<1>3. CASE b # -1 /\ q.units[b].status = "FREE"
  <2>1. Adds(m, q, {})
    BY <1>1, <1>3
  <2>2. /\ Good(r)
        /\ r.fault = "none" => q.fault = "none"
        /\ Adds(q, r, {}) \/ Adds(q, r, {b})
    BY <1>1, <1>2, <1>3, MallocGood
  <2>3. b \notin UseIds(m)
    BY <1>3, <2>1 DEF Adds, UseIds
  <2>4. Adds(m, r, {}) \/ Adds(m, r, {b})
    BY <2>1, <2>2, AddsTransitive
  <2>5. Adds(m, r, {b}) => b \in 0 .. r.n - 1
    BY DEF Adds, UseIds
  <2> QED BY <1>1, <2>2, <2>3, <2>4, <2>5 DEF r
<1>4. CASE ~(b # -1 /\ q.units[b].status = "FREE")
  <2>1. r = q
    BY <1>2, <1>4
  <2> QED BY <1>1, <2>1 DEF r
<1> QED BY <1>3, <1>4

-----------------------------------------------------------------------------
(***************************************************************************)
(* The inductive invariant, and what a step does to the units in use.       *)
(***************************************************************************)
IInv == Typed(pool) /\ Core(pool)

\* qs_initialize_memory makes a good pool.
LEMMA InitIInv == Init => IInv
<1> SUFFICES ASSUME Init PROVE IInv
  OBVIOUS
<1> DEFINE n == FirstUnits
           u == [i \in 0 .. n - 1 |-> FreeUnit]
           b == InitSize - One * n
<1>1. /\ n \in Nat /\ One * n \in Nat /\ InitSize \in Nat /\ One * n < InitSize /\ FixUnits <= n
      /\ b \in Nat
  BY OneAssumption, UnitsAssumption, SizeAssumption DEF FirstUnits
<1>2. FreeUnit \in Unit /\ FreeUnit.status = "FREE" /\ FreeUnit.child = -1
  BY DEF FreeUnit, Unit
<1>3. u \in [0 .. n - 1 -> Unit]
  BY <1>2
<1>a. pool = [size |-> InitSize, top |-> 0, bottom |-> b, n |-> n,
              units |-> u, tail |-> -1, full |-> FALSE, fault |-> "none"]
  BY DEF Init, Fresh
<1> HIDE DEF n, u, b
<1>4. /\ pool.size = InitSize /\ pool.top = 0 /\ pool.bottom = b
      /\ pool.n = n /\ pool.units = u /\ pool.tail = -1
  BY <1>a
<1>5. Typed(pool)
  <2>1. b \in Int /\ -1 \in Int /\ 0 \in Nat /\ "none" \in Faults
    BY <1>1 DEF Faults
  <2>2. pool \in [size : Nat, top : Nat, bottom : Int, n : Nat, units : [0 .. n - 1 -> Unit],
                  tail : Int, full : BOOLEAN, fault : Faults]
    BY <1>1, <1>3, <1>a, <2>1
  <2> QED BY <1>1, <1>4, <2>2 DEF Typed
<1> USE DEF n, u, b
<1>6. Live(pool) = {}
  BY <1>2, <1>4 DEF Live
<1>7. Geometry(pool)
  BY <1>1, <1>4 DEF Geometry
<1>8. LooseEnds(pool)
  BY <1>2, <1>4 DEF LooseEnds
<1>9. Tiled(pool)
  BY <1>4 DEF Tiled
<1> QED BY <1>5, <1>6, <1>7, <1>8, <1>9 DEF IInv, Core, Placed, Disjoint, Chained

\* What every step does: it keeps the invariant, and either takes no unit into use, or
\* exactly one that was not in use, or releases one, or all of them.
StepEffect ==
    \/ Adds(pool, pool', {})
    \/ \E id \in 0 .. pool'.n - 1 : id \notin UseIds(pool) /\ Adds(pool, pool', {id})
    \/ \E id \in UseIds(pool) :
          /\ UseIds(pool') = UseIds(pool) \ {id}
          /\ \A i \in UseIds(pool') : /\ pool'.units[i].p = pool.units[i].p
                                      /\ pool'.units[i].size = pool.units[i].size
    \/ UseIds(pool') = {}

\* A call that loses the table leaves everything else as it was.
LEMMA OutcomeGood ==
    ASSUME IInv, Sound, NEW r, Good(r), pool' = Outcome(r),
           \/ Adds(pool, r, {})
           \/ \E id \in 0 .. r.n - 1 : id \notin UseIds(pool) /\ Adds(pool, r, {id})
    PROVE  IInv' /\ StepEffect
<1>1. CASE r.fault = "none"
  <2>1. pool' = r
    BY <1>1 DEF Outcome
  <2>2. Typed(r) /\ Core(r)
    BY <1>1 DEF Good
  <2>3. IInv'
    BY <2>1, <2>2 DEF IInv, Typed, Core, Geometry, Placed, Disjoint, Tiled, Chained, LooseEnds, Live
  <2>4. StepEffect
    BY <2>1 DEF StepEffect
  <2> QED BY <2>3, <2>4
<1>2. CASE r.fault # "none"
  <2>1. pool' = [pool EXCEPT !.fault = r.fault]
    BY <1>2 DEF Outcome
  <2>2. r.fault \in Faults
    BY DEF Good, Typed
  <2>3. /\ pool' \in [size : Nat, top : Nat, bottom : Int, n : Nat, units : [0 .. pool.n - 1 -> Unit],
                      tail : Int, full : BOOLEAN, fault : Faults]
        /\ pool'.n = pool.n /\ pool'.units = pool.units /\ pool'.top = pool.top
        /\ pool'.tail = pool.tail /\ pool'.size = pool.size /\ pool'.bottom = pool.bottom
    BY <2>1, <2>2 DEF IInv, Typed
  <2>4. IInv'
    BY <2>3 DEF IInv, Typed, Core, Geometry, Placed, Disjoint, Tiled, Chained, LooseEnds, Live
  <2>5. Adds(pool, pool', {})
    BY <2>3 DEF Adds, UseIds
  <2> QED BY <2>4, <2>5 DEF StepEffect
<1> QED BY <1>1, <1>2

\* A fixed unit without a block is initialised: the pool stays as good as it was.
LEMMA FixReset ==
    ASSUME IInv, NEW id \in 0 .. FixUnits - 1, pool.units[id].status = "FREE"
    PROVE  LET m == [pool EXCEPT !.units[id] = FreeUnit] IN
           /\ Good(m) /\ m.size = pool.size /\ m.top = pool.top /\ m.fault = pool.fault
           /\ m.units[id].status = "FREE" /\ id \in 0 .. m.n - 1
           /\ Adds(pool, m, {}) /\ id \notin UseIds(pool)
<1> DEFINE m == [pool EXCEPT !.units[id] = FreeUnit]
           u == [pool.units EXCEPT ![id] = FreeUnit]
<1>1. /\ pool.units \in [0 .. pool.n - 1 -> Unit] /\ pool.n \in Nat
      /\ FixUnits <= pool.n /\ FixUnits \in Nat /\ id \in 0 .. pool.n - 1
  BY UnitsAssumption DEF IInv, Typed
<1>2. /\ u \in [0 .. pool.n - 1 -> Unit] /\ u[id] = FreeUnit
      /\ \A i \in 0 .. pool.n - 1 : i # id => u[i] = pool.units[i]
  BY <1>1 DEF FreeUnit, Unit
<1>3. /\ m \in [size : Nat, top : Nat, bottom : Int, n : Nat, units : [0 .. pool.n - 1 -> Unit],
                tail : Int, full : BOOLEAN, fault : Faults]
      /\ m.n = pool.n /\ m.units = u /\ m.top = pool.top /\ m.tail = pool.tail
      /\ m.size = pool.size /\ m.bottom = pool.bottom /\ m.fault = pool.fault
  <2>1. m = [pool EXCEPT !.units = u]
    BY DEF IInv, Typed
  <2> HIDE DEF m, u
  <2> QED BY <1>2, <2>1 DEF IInv, Typed
<1> HIDE DEF m, u
<1>4. /\ Live(m) = Live(pool) /\ id \notin Live(pool)
      /\ \A i \in Live(pool) : i \in 0 .. pool.n - 1 /\ u[i] = pool.units[i]
  BY <1>2, <1>3 DEF Live, FreeUnit
<1>5. Good(m)
  <2>1. Typed(m)
    BY <1>1, <1>3 DEF Typed
  <2>2. Core(pool)
    BY DEF IInv
  <2>3. Geometry(m) /\ Placed(m) /\ Disjoint(m) /\ Tiled(m)
    BY <1>3, <1>4, <2>2 DEF Core, Geometry, Placed, Disjoint, Tiled
  <2>4. ASSUME NEW i \in Live(m), m.units[i].child # -1
        PROVE  /\ m.units[i].child \in Live(m)
               /\ m.units[m.units[i].child].p = m.units[i].p + m.units[i].size
               /\ m.units[m.units[i].child].parent = i
    <3>1. i \in Live(pool) /\ m.units[i] = pool.units[i]
      BY <1>3, <1>4
    <3>2. /\ pool.units[i].child \in Live(pool)
          /\ pool.units[pool.units[i].child].p = pool.units[i].p + pool.units[i].size
          /\ pool.units[pool.units[i].child].parent = i
      BY <2>2, <2>4, <3>1 DEF Core, Chained
    <3>3. m.units[pool.units[i].child] = pool.units[pool.units[i].child]
      BY <1>3, <1>4, <3>2
    <3> QED BY <1>4, <3>1, <3>2, <3>3
  <2>5. LooseEnds(m)
    BY <1>2, <1>3, <1>4, <2>2 DEF Core, LooseEnds, FreeUnit
  <2> QED BY <2>1, <2>3, <2>4, <2>5 DEF Good, Core, Chained
<1>6. m.units[id].status = "FREE" /\ id \in 0 .. m.n - 1
  BY <1>1, <1>2, <1>3 DEF FreeUnit
<1>7. Adds(pool, m, {}) /\ id \notin UseIds(pool)
  <2>1. UseIds(m) = UseIds(pool)
    BY <1>2, <1>3 DEF UseIds, FreeUnit
  <2> QED BY <1>2, <1>3, <2>1 DEF Adds, UseIds
<1> QED BY <1>3, <1>5, <1>6, <1>7 DEF m

\* Every call keeps the inductive invariant, and changes the units in use as it may.
LEMMA StepKeeps == IInv /\ [Next]_vars => IInv' /\ StepEffect
<1> SUFFICES ASSUME IInv, [Next]_vars PROVE IInv' /\ StepEffect
  OBVIOUS
<1>0. Good(pool)
  BY DEF IInv, Good
<1>s. ASSUME pool' = pool PROVE IInv' /\ StepEffect
  <2>1. IInv'
    BY <1>s DEF IInv, Typed, Core, Geometry, Placed, Disjoint, Tiled, Chained, LooseEnds, Live
  <2>2. Adds(pool, pool', {})
    BY <1>s DEF Adds
  <2> QED BY <2>1, <2>2 DEF StepEffect
<1>1. ASSUME NEW k \in Requests, Create(k) PROVE IInv' /\ StepEffect
  <2> DEFINE a == AlignUp(k)
             r == CreateMunit(pool, a)
  <2>1. a \in Nat
    BY RequestsAssumption, AlignUpNat
  <2>2. pool' = pool \/ pool' = Outcome(r)
    BY <1>1 DEF Create
  <2> HIDE DEF a
  <2>3. /\ Good(r)
        /\ \/ Adds(pool, r, {})
           \/ \E id \in 0 .. r.n - 1 : id \notin UseIds(pool) /\ Adds(pool, r, {id})
    BY <1>0, <2>1, CreateMunitGood
  <2>4. Sound
    BY <1>1 DEF Create
  <2> HIDE DEF r
  <2> QED BY <1>s, <2>2, <2>3, <2>4, OutcomeGood
<1>2. ASSUME NEW id \in 0 .. FixUnits - 1, NEW k \in Requests, CreateFix(id, k)
      PROVE  IInv' /\ StepEffect
  <2>1. CASE pool.units[id].status # "FREE"
    BY <1>2, <1>s, <2>1 DEF CreateFix
  <2>2. CASE pool.units[id].status = "FREE"
    <3> DEFINE a == AlignUp(k)
               m == [pool EXCEPT !.units[id] = FreeUnit]
               r == Malloc(m, id, a)
    <3>1. a \in Nat
      BY RequestsAssumption, AlignUpNat
    <3>2. pool' = Outcome(r) /\ Sound
      BY <1>2, <2>2 DEF CreateFix
    <3>3. /\ Good(m) /\ m.units[id].status = "FREE" /\ id \in 0 .. m.n - 1
          /\ Adds(pool, m, {}) /\ id \notin UseIds(pool)
      BY <2>2, FixReset
    <3> HIDE DEF m, a
    <3>4. Good(r) /\ (Adds(m, r, {}) \/ Adds(m, r, {id}))
      BY <3>1, <3>3, MallocGood
    <3> HIDE DEF r
    <3>5. Adds(pool, r, {}) \/ Adds(pool, r, {id})
      BY <3>3, <3>4, AddsTransitive
    <3>6. Adds(pool, r, {id}) => id \in 0 .. r.n - 1
      BY DEF Adds, UseIds
    <3> QED BY <3>2, <3>3, <3>4, <3>5, <3>6, OutcomeGood
  <2> QED BY <2>1, <2>2
<1>3. ASSUME NEW id \in FixUnits .. pool.n - 1, Free(id) PROVE IInv' /\ StepEffect
  <2>1. pool.n \in Nat /\ FixUnits \in Nat /\ id \in 0 .. pool.n - 1
    BY UnitsAssumption DEF IInv, Typed
  <2>2. CASE pool.units[id].status # "USE"
    BY <1>3, <1>s, <2>2 DEF Free
  <2>3. CASE pool.units[id].status = "USE"
    <3> DEFINE r == [pool EXCEPT !.units[id].status = "GARBAGE"]
    <3>1. pool' = r /\ Sound
      BY <1>3, <2>3 DEF Free
    <3>2. /\ Good(r) /\ r.fault = pool.fault /\ r.n = pool.n
          /\ UseIds(r) = UseIds(pool) \ {id}
          /\ \A i \in 0 .. pool.n - 1 : /\ r.units[i].p = pool.units[i].p
                                        /\ r.units[i].size = pool.units[i].size
      BY <1>0, <2>1, <2>3, StatusGood
    <3> HIDE DEF r
    <3>3. IInv'
      BY <3>1, <3>2 DEF IInv, Good, Sound, Typed, Core, Geometry, Placed, Disjoint, Tiled,
                        Chained, LooseEnds, Live
    <3>4. id \in UseIds(pool)
      BY <2>1, <2>3 DEF UseIds
    <3>5. StepEffect
      BY <3>1, <3>2, <3>4 DEF StepEffect, UseIds
    <3> QED BY <3>3, <3>5
  <2> QED BY <2>2, <2>3
<1>4. ASSUME Clean PROVE IInv' /\ StepEffect
  <2> DEFINE b == pool.size - One * FixUnits
             u == [i \in 0 .. FixUnits - 1 |-> FreeUnit]
  <2>1. /\ FreeUnit \in Unit /\ FreeUnit.status = "FREE" /\ FreeUnit.child = -1
    BY DEF FreeUnit, Unit
  <2>2. b \in Nat /\ FixUnits \in Nat
    <3>1. /\ pool.size \in Nat /\ pool.n \in Nat /\ FixUnits <= pool.n /\ FixUnits \in Nat
          /\ 0 <= pool.size - One * pool.n
      BY OneAssumption, UnitsAssumption DEF IInv, Typed, Core, Geometry
    <3>2. One * pool.n = One * FixUnits + One * (pool.n - FixUnits)
          /\ One * FixUnits \in Nat /\ One * (pool.n - FixUnits) \in Nat
      BY <3>1, OneAssumption
    <3> QED BY <3>1, <3>2
  <2>3. pool' = [pool EXCEPT !.top = 0, !.bottom = b, !.n = FixUnits, !.units = u, !.tail = -1]
    BY <1>4 DEF Clean
  <2>4. /\ pool' \in [size : Nat, top : Nat, bottom : Int, n : Nat, units : [0 .. FixUnits - 1 -> Unit],
                      tail : Int, full : BOOLEAN, fault : Faults]
        /\ pool'.n = FixUnits /\ pool'.units = u /\ pool'.top = 0
        /\ pool'.tail = -1 /\ pool'.size = pool.size /\ pool'.bottom = b
    <3>1. u \in [0 .. FixUnits - 1 -> Unit]
      BY <2>1
    <3>2. pool \in [size : Nat, top : Nat, bottom : Int, n : Nat, units : [0 .. pool.n - 1 -> Unit],
                    tail : Int, full : BOOLEAN, fault : Faults]
      BY DEF IInv, Typed
    <3>3. b \in Int /\ FixUnits \in Nat /\ -1 \in Int /\ 0 \in Nat
      BY <2>2
    <3> HIDE DEF u, b
    <3> QED BY <2>3, <3>1, <3>2, <3>3
  <2>5. Live(pool') = {} /\ UseIds(pool') = {}
    BY <2>1, <2>4 DEF Live, UseIds
  <2>6. Typed(pool')
    BY <2>2, <2>4 DEF Typed
  <2>7. Geometry(pool') /\ Tiled(pool') /\ LooseEnds(pool')
    BY <2>1, <2>2, <2>4 DEF Geometry, Tiled, LooseEnds
  <2>8. Core(pool')
    BY <2>5, <2>7 DEF Core, Placed, Disjoint, Chained
  <2>9. IInv'
    BY <2>6, <2>8 DEF IInv, Typed, Core, Geometry, Placed, Disjoint, Tiled, Chained, LooseEnds, Live
  <2> QED BY <2>5, <2>9 DEF StepEffect
<1> QED BY <1>1, <1>2, <1>3, <1>4, <1>s DEF Next, Call, vars

\* The invariant holds in every state.
THEOREM Invariance == Spec => []IInv
<1>1. Init => IInv
  BY InitIInv
<1>2. IInv /\ [Next]_vars => IInv'
  BY StepKeeps
<1> QED BY <1>1, <1>2, PTL DEF Spec

\* The type invariant, for every size, alignment, growth policy and set of requests.
THEOREM TypeCorrect == Spec => []TypeOK
<1>1. IInv => TypeOK
  BY DEF IInv, Typed, TypeOK
<1> QED BY <1>1, Invariance, PTL

\* The data never reach the table of unit records.
THEOREM TableApartAlways == Spec => []TableApart
<1>1. IInv => TableApart
  BY DEF IInv, Core, Geometry, TableApart
<1> QED BY <1>1, Invariance, PTL

\* No two blocks of a pool ever share a byte.
THEOREM BlocksDisjointAlways == Spec => []BlocksDisjoint
<1>1. IInv => BlocksDisjoint
  BY DEF IInv, Core, Disjoint, BlocksDisjoint
<1> QED BY <1>1, Invariance, PTL

\* Every byte below top belongs to a block.
THEOREM NoByteLostAlways == Spec => []NoByteLost
<1>1. IInv => NoByteLost
  BY DEF IInv, Core, Tiled, NoByteLost
<1> QED BY <1>1, Invariance, PTL

\* The chain of blocks follows the addresses.
THEOREM ChainAlways == Spec => []ChainInAddressOrder
<1>1. IInv => ChainInAddressOrder
  BY DEF IInv, Core, Chained, ChainInAddressOrder
<1> QED BY <1>1, Invariance, PTL

-----------------------------------------------------------------------------
\* What the callers see of the units in use, as the abstract allocator has it.
AbstractLive(m) == [i \in UseIds(m) |-> [p |-> m.units[i].p, size |-> m.units[i].size]]

\* Every call is a call of the abstract allocator, or changes no unit in use.
LEMMA StepRefines ==
    ASSUME IInv, IInv', StepEffect
    PROVE  A!Next \/ UNCHANGED [i \in InUse |-> [p |-> pool.units[i].p, size |-> pool.units[i].size]]
<1> DEFINE l == AbstractLive(pool)
           lp == AbstractLive(pool')
<1>1. /\ [i \in InUse |-> [p |-> pool.units[i].p, size |-> pool.units[i].size]] = l
      /\ [i \in InUse |-> [p |-> pool.units[i].p, size |-> pool.units[i].size]]' = lp
  <2>1. InUse = UseIds(pool) /\ InUse' = UseIds(pool')
    BY DEF InUse, UseIds, Live
  <2> QED BY <2>1 DEF AbstractLive
<1>2. /\ DOMAIN l = UseIds(pool) /\ DOMAIN lp = UseIds(pool')
      /\ \A i \in UseIds(pool) : l[i] = [p |-> pool.units[i].p, size |-> pool.units[i].size]
      /\ \A i \in UseIds(pool') : lp[i] = [p |-> pool'.units[i].p, size |-> pool'.units[i].size]
  BY DEF AbstractLive
<1>3. CASE Adds(pool, pool', {})
  <2>1. l = lp
    BY <1>3 DEF AbstractLive, Adds
  <2> QED BY <1>1, <2>1
<1>4. ASSUME NEW id \in 0 .. pool'.n - 1, id \notin UseIds(pool), Adds(pool, pool', {id})
      PROVE  A!Alloc
  <2> HIDE DEF l, lp
  <2>1. id \in DOMAIN lp \ DOMAIN l /\ DOMAIN lp = DOMAIN l \cup {id}
    BY <1>2, <1>4 DEF Adds
  <2>2. id \in Nat
    BY DEF IInv, Typed
  <2>3. UseIds(pool') \subseteq Live(pool')
    BY DEF UseIds, Live
  <2>4. Placed(pool') /\ Disjoint(pool')
    BY DEF IInv, Core, Placed, Disjoint, Live
  <2>5. lp[id] \in [p : Nat, size : Nat]
    <3>1. id \in UseIds(pool')
      BY <1>2, <2>1
    <3>2. pool'.units[id].p \in Nat /\ pool'.units[id].size \in Nat
      BY <2>3, <2>4, <3>1 DEF Placed
    <3> QED BY <1>2, <3>1, <3>2
  <2>6. ASSUME NEW i \in DOMAIN l
        PROVE  lp[i] = l[i] /\ A!Apart(l[i], lp[id])
    <3>1. i \in UseIds(pool) /\ i \in UseIds(pool') /\ i # id /\ id \in UseIds(pool')
      BY <1>2, <1>4, <2>1
    <3>2. lp[i] = l[i]
      BY <1>2, <1>4, <3>1 DEF Adds
    <3>3. \/ pool'.units[i].p + pool'.units[i].size <= pool'.units[id].p
          \/ pool'.units[id].p + pool'.units[id].size <= pool'.units[i].p
      BY <2>3, <2>4, <3>1 DEF Disjoint
    <3> QED BY <1>2, <3>1, <3>2, <3>3 DEF A!Apart
  <2> QED BY <1>1, <2>1, <2>2, <2>5, <2>6 DEF A!Alloc, A!Block
<1>5. ASSUME NEW id \in UseIds(pool), UseIds(pool') = UseIds(pool) \ {id},
             \A i \in UseIds(pool') : /\ pool'.units[i].p = pool.units[i].p
                                      /\ pool'.units[i].size = pool.units[i].size
      PROVE  A!Free
  <2>1. lp = [i \in DOMAIN l \ {id} |-> l[i]]
    BY <1>2, <1>5 DEF AbstractLive
  <2> QED BY <1>1, <1>2, <2>1 DEF A!Free
<1>6. CASE UseIds(pool') = {}
  BY <1>1, <1>2, <1>6 DEF A!Next, A!Clean
<1> QED BY <1>3, <1>4, <1>5, <1>6 DEF StepEffect, A!Next

\* The pool implements the abstract allocator: what qs_create_munit hands out is apart
\* from every block in use, and no call moves, resizes or drops a block of another caller.
THEOREM PoolImplementsAllocator == Spec => ImplementsAllocator
<1>1. Init => A!Init
  <2> SUFFICES ASSUME Init PROVE A!Init
    OBVIOUS
  <2>1. IInv
    BY InitIInv
  <2>2. pool.n = FirstUnits /\ pool.units = [i \in 0 .. FirstUnits - 1 |-> FreeUnit]
    BY DEF Init, Fresh
  <2>3. InUse = {}
    BY <2>2 DEF InUse, Live, FreeUnit
  <2> QED BY <2>3 DEF A!Init
<1>2. IInv /\ IInv' /\ [Next]_vars =>
        [A!Next]_([i \in InUse |-> [p |-> pool.units[i].p, size |-> pool.units[i].size]])
  BY StepKeeps, StepRefines
<1> QED BY <1>1, <1>2, Invariance, PTL DEF Spec, A!Spec, ImplementsAllocator


-----------------------------------------------------------------------------
\* What a call does to a pool that is as large as it may get: it stays that large, top only
\* moves up, and the table is lost in one way, from less than a record of data.
Still(m, r) ==
    /\ r.size = m.size /\ m.top <= r.top
    /\ r.fault = m.fault \/ (r.fault = "underflow" /\ m.top < One)

\* One call after another.
LEMMA StillTransitive ==
    ASSUME NEW a, NEW b, NEW c, a.top \in Nat, b.top \in Nat, c.top \in Nat,
           Still(a, b), Still(b, c)
    PROVE  Still(a, c)
BY OneAssumption DEF Still

\* The fields the lemmas below look at.
LEMMA PoolFields ==
    ASSUME NEW m, Good(m)
    PROVE  /\ m.size \in Nat /\ m.top \in Nat /\ m.bottom \in Int /\ m.n \in Nat
           /\ m = [size |-> m.size, top |-> m.top, bottom |-> m.bottom, n |-> m.n,
                   units |-> m.units, tail |-> m.tail, full |-> m.full, fault |-> m.fault]
           /\ m.fault = "none" => m.top <= m.bottom
BY DEF Good, Typed, Core, Geometry

\* qs_realloc_memory of such a pool only reports that it is full.
LEMMA GrowStill ==
    ASSUME NEW m, Good(m), m.size = MaxSize, NEW k \in Nat
    PROVE  /\ Still(m, Grow(m, k)) /\ Grow(m, k).top = m.top
           /\ Grow(m, k).fault = m.fault
           /\ Still(m, GrowForRecord(m)) /\ GrowForRecord(m).top = m.top
           /\ GrowForRecord(m).fault = m.fault
<1>1. m.top \in Nat
  BY PoolFields
<1>2. ASSUME NEW j \in Nat
      PROVE  /\ Grow(m, j).size = m.size /\ Grow(m, j).top = m.top
             /\ Grow(m, j).fault = m.fault
  <2>1. Grow(m, j) = [m EXCEPT !.full = TRUE]
    BY DEF Grow
  <2> QED BY <2>1, PoolFields
<1>3. /\ GrowForRecord(m).size = m.size /\ GrowForRecord(m).top = m.top
      /\ GrowForRecord(m).fault = m.fault
  BY <1>2, OneAssumption DEF GrowForRecord
<1> QED BY <1>1, <1>2, <1>3 DEF Still

\* A new record loses the table only when less than a record of data lies below it.
LEMMA AddRecordStill ==
    ASSUME NEW m, Good(m), m.fault = "none"
    PROVE  Still(m, AddRecord(m)) /\ AddRecord(m).top = m.top
<1> DEFINE b == m.bottom - One
           u == [i \in 0 .. m.n |-> IF i = m.n THEN FreeUnit ELSE m.units[i]]
           t == IF m.bottom < One THEN "underflow" ELSE m.fault
           r == AddRecord(m)
<1>1. r = [m EXCEPT !.bottom = b, !.n = m.n + 1, !.units = u, !.fault = t]
  BY Zenon DEF AddRecord
<1>2. t = m.fault \/ (t = "underflow" /\ m.bottom < One)
  OBVIOUS
<1> HIDE DEF r, b, u, t
<1>3. r.size = m.size /\ r.top = m.top /\ r.fault = t
  BY <1>1, PoolFields
<1> QED BY <1>2, <1>3, PoolFields, OneAssumption DEF Still, r

\* A split, a new state of a unit and a new block leave the size and the fault.
LEMMA SplitStill ==
    ASSUME NEW m, Good(m), NEW g, NEW f, NEW k
    PROVE  Still(m, Split(m, g, f, k)) /\ Split(m, g, f, k).top = m.top
<1> DEFINE r == Split(m, g, f, k)
<1>1. PICK a, b : r = [m EXCEPT !.tail = a, !.units = b]
  BY Zenon DEF Split
<1> HIDE DEF r
<1>2. r.size = m.size /\ r.top = m.top /\ r.fault = m.fault
  BY <1>1, PoolFields
<1> QED BY <1>2, PoolFields DEF Still, r

\* qs_resize_garbage of a garbage block.
LEMMA ResizeGarbageStill ==
    ASSUME NEW m, Good(m), m.fault = "none", m.size = MaxSize,
           NEW g \in 0 .. m.n - 1, NEW f \in -1 .. m.n - 1, NEW k \in Nat,
           m.units[g].status = "GARBAGE", k <= m.units[g].size,
           f # -1 => f # g /\ m.units[f].status = "FREE"
    PROVE  Still(m, ResizeGarbage(m, g, f, k))
<1> DEFINE w == GrowForRecord(m)
           a == AddRecord(w)
           r == ResizeGarbage(m, g, f, k)
<1>1. Still(m, m) /\ m.top \in Nat
  BY PoolFields DEF Still
<1>2. Good(w) /\ Still(m, w) /\ w.top = m.top /\ w.fault = "none"
  BY GrowForRecordGood, GrowStill
<1>3. \/ r = m \/ r = Split(m, g, f, k) \/ r = w
      \/ ~NoRecordRoom(w) /\ r = Split(a, g, m.n, k)
  BY DEF ResizeGarbage
<1>4. CASE r = m \/ r = Split(m, g, f, k) \/ r = w
  BY <1>1, <1>2, <1>4, SplitStill
<1>5. CASE ~NoRecordRoom(w) /\ r = Split(a, g, m.n, k)
  <2> HIDE DEF r, w
  <2>1. Good(a) /\ Still(w, a) /\ a.top = w.top
    BY <1>2, <1>5, AddRecordGood, AddRecordStill
  <2> HIDE DEF a
  <2>2. Still(a, r) /\ r.top = a.top
    BY <1>5, <2>1, SplitStill
  <2> QED BY <1>1, <1>2, <2>1, <2>2, StillTransitive DEF r
<1> QED BY <1>3, <1>4, <1>5

\* qs_malloc.
LEMMA MallocStill ==
    ASSUME NEW m, Good(m), m.size = MaxSize, NEW id, NEW k \in Nat
    PROVE  Still(m, Malloc(m, id, k))
<1> DEFINE g == IF Growable /\ NoDataRoom(m, k) THEN Grow(m, k) ELSE m
           r == Malloc(m, id, k)
<1>1. Still(m, m) /\ m.top \in Nat
  BY PoolFields DEF Still
<1>2. Good(g) /\ Still(m, g) /\ g.top = m.top
  BY <1>1, GrowGood, GrowStill
<1>3. r = m \/ r = g \/ r = Place(g, id, k)
  BY DEF Malloc
<1> HIDE DEF g, r
<1>4. CASE r = Place(g, id, k)
  <2>1. PICK a : r = [g EXCEPT !.top = g.top + k, !.tail = id, !.units = a]
    BY <1>4, Zenon DEF Place
  <2>2. r.size = g.size /\ r.top = g.top + k /\ r.fault = g.fault
    BY <1>2, <2>1, PoolFields
  <2> QED BY <1>1, <1>2, <2>2 DEF Still, r
<1> QED BY <1>1, <1>2, <1>3, <1>4 DEF r

\* qs_find_freemunit.
LEMMA FindUnitStill ==
    ASSUME NEW m, Good(m), m.fault = "none", m.size = MaxSize, NEW k \in Nat
    PROVE  Still(m, FindUnit(m, k).pool)
<1> DEFINE g == GrowForRecord(m)
           q == FindUnit(m, k).pool
<1>1. Good(g) /\ Still(m, g) /\ g.top = m.top /\ g.fault = "none" /\ g.size = MaxSize
  BY GrowForRecordGood, GrowStill DEF Still
<1>2. m.top \in Nat
  BY PoolFields
<1>3. CASE ~NoRecordRoom(g)
  <2>1. q = AddRecord(g)
    BY <1>3 DEF FindUnit
  <2>2. Good(AddRecord(g)) /\ Still(g, AddRecord(g)) /\ AddRecord(g).top = g.top
    BY <1>1, <1>3, AddRecordGood, AddRecordStill
  <2> HIDE DEF g, q
  <2> QED BY <1>1, <1>2, <2>1, <2>2, StillTransitive DEF q
<1>4. CASE NoRecordRoom(g) /\ Fitting(g, k) # {}
  <2> DEFINE b == Max(Fitting(g, k))
             e == NewestOrNone(FreeFrom(g, b + 1))
             c == ResizeGarbage(g, b, e, k)
  <2> HIDE DEF g
  <2>1. /\ b \in 0 .. g.n - 1 /\ g.units[b].status = "GARBAGE" /\ k <= g.units[b].size
        /\ e \in -1 .. g.n - 1 /\ (e # -1 => e # b /\ g.units[e].status = "FREE")
    BY <1>1, <1>4, ReuseArguments
  <2>2. q = [c EXCEPT !.units[b].status = "USE"]
    BY <1>4 DEF FindUnit, Reuse, g
  <2> HIDE DEF b, e, q
  <2>3. Good(c) /\ Still(g, c)
    BY <1>1, <2>1, ResizeGarbageGood, ResizeGarbageStill
  <2> HIDE DEF c
  <2>4. q.size = c.size /\ q.top = c.top /\ q.fault = c.fault
    BY <2>2, <2>3, PoolFields
  <2>5. Still(g, q)
    BY <2>3, <2>4 DEF Still
  <2>6. c.top \in Nat /\ q.top \in Nat /\ g.top \in Nat
    BY <1>1, <2>3, <2>4, PoolFields
  <2> QED BY <1>1, <1>2, <2>5, <2>6, StillTransitive DEF q
<1>5. CASE NoRecordRoom(g) /\ Fitting(g, k) = {}
  <2>1. q = g
    BY <1>5 DEF FindUnit
  <2> QED BY <1>1, <2>1
<1> QED BY <1>3, <1>4, <1>5

\* qs_create_munit.
LEMMA CreateMunitStill ==
    ASSUME NEW m, Good(m), m.fault = "none", m.size = MaxSize, NEW k \in Nat
    PROVE  Still(m, CreateMunit(m, k))
<1> DEFINE f == FindUnit(m, k)
           r == CreateMunit(m, k)
<1>1. Good(f.pool) /\ Still(m, f.pool)
  BY FindUnitGood, FindUnitStill
<1>2. r = f.pool \/ (r = Malloc(f.pool, f.id, k) /\ f.id \in 0 .. f.pool.n - 1
                     /\ f.pool.units[f.id].status = "FREE")
  BY FindUnitGood DEF CreateMunit
<1> HIDE DEF f, r
<1>3. CASE /\ r = Malloc(f.pool, f.id, k) /\ f.id \in 0 .. f.pool.n - 1
           /\ f.pool.units[f.id].status = "FREE"
  <2>1. f.pool.size = MaxSize
    BY <1>1 DEF Still
  <2>2. Good(r) /\ Still(f.pool, r)
    BY <1>1, <1>3, <2>1, MallocGood, MallocStill
  <2>3. m.top \in Nat /\ f.pool.top \in Nat /\ r.top \in Nat
    BY <1>1, <2>2, PoolFields
  <2> QED BY <1>1, <2>2, <2>3, StillTransitive DEF r
<1> QED BY <1>1, <1>2, <1>3 DEF r

\* A pool that cannot grow: it has its size for good, and once its table is lost the reason
\* stays.
FixedSize ==
    InitSize = MaxSize =>
        /\ pool.size = MaxSize
        /\ pool.fault # "none" => pool.fault = "underflow" /\ pool.top < One

\* Every step keeps it so.
LEMMA StepFixedSize == IInv /\ FixedSize /\ [Next]_vars => FixedSize'
<1> SUFFICES ASSUME IInv, FixedSize, [Next]_vars, InitSize = MaxSize
             PROVE  /\ pool'.size = MaxSize
                    /\ pool'.fault # "none" => pool'.fault = "underflow" /\ pool'.top < One
  BY DEF FixedSize
<1>1. /\ Good(pool) /\ pool.size = MaxSize
      /\ pool.fault # "none" => pool.fault = "underflow" /\ pool.top < One
  BY DEF IInv, Good, FixedSize
\* what is left of a call
<1>2. ASSUME Sound, NEW r, Still(pool, r), pool' = Outcome(r)
      PROVE  /\ pool'.size = MaxSize
             /\ pool'.fault # "none" => pool'.fault = "underflow" /\ pool'.top < One
  <2>1. CASE r.fault = "none"
    BY <1>1, <1>2, <2>1 DEF Outcome, Still
  <2>2. CASE r.fault # "none"
    <3>1. pool' = [pool EXCEPT !.fault = r.fault]
      BY <1>2, <2>2 DEF Outcome
    <3>2. pool'.size = pool.size /\ pool'.top = pool.top /\ pool'.fault = r.fault
      BY <1>1, <3>1, PoolFields
    <3>3. r.fault = "underflow" /\ pool.top < One
      BY <1>2, <2>2 DEF Still, Sound
    <3> QED BY <1>1, <3>2, <3>3
  <2> QED BY <2>1, <2>2
<1>3. ASSUME NEW n \in Requests, Create(n)
      PROVE  /\ pool'.size = MaxSize
             /\ pool'.fault # "none" => pool'.fault = "underflow" /\ pool'.top < One
  <2>1. AlignUp(n) \in Nat
    BY AlignUpNat, RequestsAssumption
  <2>2. CASE pool' = pool
    BY <1>1, <2>2
  <2>3. CASE pool' = Outcome(CreateMunit(pool, AlignUp(n)))
    <3>1. Still(pool, CreateMunit(pool, AlignUp(n)))
      BY <1>1, <1>3, <2>1, CreateMunitStill DEF Create, Sound
    <3> QED BY <1>2, <1>3, <2>3, <3>1 DEF Create
  <2> QED BY <1>3, <2>2, <2>3 DEF Create
<1>4. ASSUME NEW id \in 0 .. FixUnits - 1, NEW n \in Requests, CreateFix(id, n)
      PROVE  /\ pool'.size = MaxSize
             /\ pool'.fault # "none" => pool'.fault = "underflow" /\ pool'.top < One
  <2> DEFINE m == [pool EXCEPT !.units[id] = FreeUnit]
             r == Malloc(m, id, AlignUp(n))
  <2>1. AlignUp(n) \in Nat
    BY AlignUpNat, RequestsAssumption
  <2>2. CASE pool' = pool
    BY <1>1, <2>2
  <2>3. CASE pool' = Outcome(r) /\ pool.units[id].status = "FREE"
    <3>1. Good(m) /\ m.size = pool.size /\ m.top = pool.top /\ m.fault = pool.fault
      BY <1>1, <2>3, FixReset
    <3> HIDE DEF m
    <3>2. Still(m, r)
      BY <1>1, <2>1, <3>1, MallocStill
    <3>3. Still(pool, r)
      BY <3>1, <3>2 DEF Still
    <3> HIDE DEF r
    <3> QED BY <1>2, <1>4, <2>3, <3>3 DEF CreateFix
  <2> QED BY <1>4, <2>2, <2>3 DEF CreateFix
<1>5. ASSUME NEW id \in FixUnits .. pool.n - 1, Free(id)
      PROVE  /\ pool'.size = MaxSize
             /\ pool'.fault # "none" => pool'.fault = "underflow" /\ pool'.top < One
  <2>1. pool' = pool \/ pool' = [pool EXCEPT !.units[id].status = "GARBAGE"]
    BY <1>5 DEF Free
  <2>2. pool'.size = pool.size /\ pool'.top = pool.top /\ pool'.fault = pool.fault
    BY <1>1, <2>1, PoolFields
  <2> QED BY <1>1, <2>2
<1>6. CASE Clean
  <2>1. PICK a, b, c : pool' = [pool EXCEPT !.top = 0, !.bottom = a, !.n = b, !.units = c, !.tail = -1]
    BY <1>6, Zenon DEF Clean
  <2>2. pool'.size = pool.size /\ pool'.top = 0 /\ pool'.fault = pool.fault
    BY <1>1, <2>1, PoolFields
  <2> QED BY <1>1, <2>2, OneAssumption
<1>7. CASE UNCHANGED vars
  BY <1>1, <1>7 DEF vars
<1> QED BY <1>3, <1>4, <1>5, <1>6, <1>7 DEF Next, Call

\* A pool that cannot grow loses its table in one way only: requests that all fail, each
\* leaving a record behind, until the table fills an arena that holds less than a record of
\* data.
THEOREM FaultOnlyWhenEmptyAlways == Spec => []FaultOnlyWhenEmpty
<1>1. Init => FixedSize
  BY DEF Init, Fresh, FixedSize
<1>2. IInv /\ FixedSize /\ [Next]_vars => FixedSize'
  BY StepFixedSize
<1>3. FixedSize => FaultOnlyWhenEmpty
  BY DEF FixedSize, FaultOnlyWhenEmpty, Sound
<1> QED BY <1>1, <1>2, <1>3, Invariance, PTL DEF Spec

-----------------------------------------------------------------------------
\* What a growth asked of an arena of s bytes says of its length t after it, when the
\* growth is for a record.
Reach(s, t) ==
    \/ t = s
    \/ t = MaxSize
    \/ s < MaxSize /\ t = s + MinRealloc
    \/ s < MaxSize /\ t <= MaxSize /\ MinRealloc < One

\* The fault f has a cause, in a pool of s bytes whose table ends at b when the call begins.
Caused(s, b, f) ==
    /\ f = "overlap" =>
          \/ MinRealloc < One
          \/ LessThanARecord(MaxSize - s)
          \/ LessThanARecord(MaxSize - (s + MinRealloc))
    /\ f = "shrink" => s + MinRealloc > MaxSize
    /\ f \in {"overlap", "shrink"} => s # MaxSize
    /\ f = "underflow" => b < One

\* qs_realloc_memory: how long the arena is after it, and what its fault says of how long
\* it was before.
LEMMA GrowReach ==
    ASSUME NEW m, Good(m), NEW k \in Nat
    PROVE  LET r == Grow(m, k) IN
           /\ \/ r.size = m.size
              \/ r.size = MaxSize
              \/ m.size < MaxSize /\ r.size = m.size + MinRealloc
              \/ m.size < MaxSize /\ MinRealloc <= k /\ r.size = m.size + k /\ r.size <= MaxSize
           /\ r.bottom >= m.bottom
           /\ \/ r.fault = m.fault
              \/ /\ r.fault = "overlap" /\ m.size # MaxSize
                 /\ MinRealloc < One \/ LessThanARecord(MaxSize - m.size)
              \/ r.fault = "shrink" /\ m.size > MaxSize
<1> DEFINE d == Growth(m, k)
           r == Grow(m, k)
<1>1. m.size \in Nat /\ m.bottom \in Int /\ MaxSize \in Nat /\ MinRealloc \in Nat /\ One \in Nat
  BY PoolFields, SizeAssumption, GrowthAssumption, OneAssumption
<1>2. \/ d = MaxSize - m.size
      \/ m.size + k <= MaxSize /\ d = MinRealloc
      \/ m.size + k <= MaxSize /\ MinRealloc <= k /\ d = k
  BY <1>1 DEF Growth
<1>3. \/ r = m
      \/ r = [m EXCEPT !.full = TRUE]
      \/ m.size # MaxSize /\ d < 0 /\ r = [m EXCEPT !.fault = "shrink"]
      \/ m.size # MaxSize /\ 0 <= d /\ d < One /\ r = [m EXCEPT !.fault = "overlap"]
      \/ m.size # MaxSize /\ d >= One /\ r = [m EXCEPT !.size = @ + d, !.bottom = @ + d]
  <2>1. d \in Int
    BY <1>1, <1>2
  <2> HIDE DEF d
  <2> QED BY <1>1, <2>1 DEF Grow, d
<1> HIDE DEF d, r
<1>4. CASE r = m \/ r = [m EXCEPT !.full = TRUE]
  <2>1. r.size = m.size /\ r.bottom = m.bottom /\ r.fault = m.fault
    BY <1>4, PoolFields
  <2> QED BY <1>1, <2>1 DEF r
<1>5. CASE m.size # MaxSize /\ d < 0 /\ r = [m EXCEPT !.fault = "shrink"]
  <2>1. r.size = m.size /\ r.bottom = m.bottom /\ r.fault = "shrink"
    BY <1>5, PoolFields
  <2>2. m.size > MaxSize
    BY <1>1, <1>2, <1>5
  <2> QED BY <1>1, <2>1, <2>2 DEF r
<1>6. CASE m.size # MaxSize /\ 0 <= d /\ d < One /\ r = [m EXCEPT !.fault = "overlap"]
  <2>1. r.size = m.size /\ r.bottom = m.bottom /\ r.fault = "overlap"
    BY <1>6, PoolFields
  <2>2. MinRealloc < One \/ LessThanARecord(MaxSize - m.size)
    BY <1>1, <1>2, <1>6 DEF LessThanARecord
  <2> QED BY <1>1, <1>6, <2>1, <2>2 DEF r
<1>7. CASE m.size # MaxSize /\ d >= One /\ r = [m EXCEPT !.size = @ + d, !.bottom = @ + d]
  <2>1. r.size = m.size + d /\ r.bottom = m.bottom + d /\ r.fault = m.fault
    BY <1>7, PoolFields
  <2>2. \/ r.size = MaxSize
        \/ m.size < MaxSize /\ r.size = m.size + MinRealloc
        \/ m.size < MaxSize /\ MinRealloc <= k /\ r.size = m.size + k /\ r.size <= MaxSize
    BY <1>1, <1>2, <1>7, <2>1
  <2>3. d \in Int
    BY <1>1, <1>2
  <2> QED BY <1>1, <1>7, <2>1, <2>2, <2>3 DEF r
<1> QED BY <1>3, <1>4, <1>5, <1>6, <1>7

\* The growth for a record, the first of a call.
LEMMA FirstGrowth ==
    ASSUME NEW m, Good(m), m.fault = "none"
    PROVE  LET g == GrowForRecord(m) IN
           /\ Good(g)
           /\ Reach(m.size, g.size)
           /\ Caused(m.size, m.bottom, g.fault)
           /\ g.bottom < One => m.bottom < One
<1> DEFINE g == GrowForRecord(m)
           r == Grow(m, One)
<1>1. m.size \in Nat /\ m.bottom \in Int /\ MaxSize \in Nat /\ MinRealloc \in Nat /\ One \in Nat
  BY PoolFields, SizeAssumption, GrowthAssumption, OneAssumption
<1>2. Good(g)
  BY GrowForRecordGood
<1>3. g = m \/ g = r
  BY DEF GrowForRecord
<1>4. CASE g = m
  BY <1>1, <1>2, <1>4 DEF Reach, Caused
<1>5. CASE g = r
  <2>0. Good(r)
    BY <1>2, <1>5
  <2>1. /\ \/ r.size = m.size
           \/ r.size = MaxSize
           \/ m.size < MaxSize /\ r.size = m.size + MinRealloc
           \/ m.size < MaxSize /\ MinRealloc <= One /\ r.size = m.size + One /\ r.size <= MaxSize
        /\ r.bottom >= m.bottom
        /\ \/ r.fault = m.fault
           \/ /\ r.fault = "overlap" /\ m.size # MaxSize
              /\ MinRealloc < One \/ LessThanARecord(MaxSize - m.size)
           \/ r.fault = "shrink" /\ m.size > MaxSize
    BY <1>1, GrowReach
  <2> HIDE DEF g, r
  <2>2. r.bottom \in Int /\ r.size \in Nat
    BY <2>0, PoolFields
  <2>3. Reach(m.size, r.size)
    BY <1>1, <2>1, <2>2 DEF Reach
  <2>4. Caused(m.size, m.bottom, r.fault)
    BY <1>1, <2>1 DEF Caused
  <2>5. r.bottom < One => m.bottom < One
    BY <1>1, <2>1, <2>2
  <2> QED BY <1>2, <1>5, <2>3, <2>4, <2>5 DEF g
<1> QED BY <1>3, <1>4, <1>5

\* A growth of a pool that a first growth may have enlarged.
LEMMA SecondGrowth ==
    ASSUME NEW s \in Nat, NEW b, NEW g, Good(g), Reach(s, g.size), Caused(s, b, g.fault),
           NEW k \in Nat
    PROVE  Caused(s, b, Grow(g, k).fault)
<1> DEFINE r == Grow(g, k)
<1>1. g.size \in Nat /\ MaxSize \in Nat /\ MinRealloc \in Nat /\ One \in Nat
  BY PoolFields, SizeAssumption, GrowthAssumption, OneAssumption
<1>2. \/ r.fault = g.fault
      \/ /\ r.fault = "overlap" /\ g.size # MaxSize
         /\ MinRealloc < One \/ LessThanARecord(MaxSize - g.size)
      \/ r.fault = "shrink" /\ g.size > MaxSize
  BY GrowReach
<1> HIDE DEF r
<1>3. CASE r.fault = g.fault
  BY <1>3 DEF r
<1>4. CASE /\ r.fault = "overlap" /\ g.size # MaxSize
           /\ MinRealloc < One \/ LessThanARecord(MaxSize - g.size)
  <2>1. s # MaxSize
    BY <1>1, <1>4 DEF Reach
  <2>2. \/ MinRealloc < One
        \/ LessThanARecord(MaxSize - s)
        \/ LessThanARecord(MaxSize - (s + MinRealloc))
    BY <1>1, <1>4 DEF Reach
  <2> QED BY <1>4, <2>1, <2>2 DEF Caused, r
<1>5. CASE r.fault = "shrink" /\ g.size > MaxSize
  <2>1. s # MaxSize /\ s + MinRealloc > MaxSize
    BY <1>1, <1>5 DEF Reach
  <2> QED BY <1>5, <2>1 DEF Caused, r
<1> QED BY <1>2, <1>3, <1>4, <1>5

\* A new record, a split and a block leave the size; a new record loses the table only when
\* less than a record is left below it.
LEMMA RecordFields ==
    ASSUME NEW m, Good(m), NEW g, NEW f, NEW k
    PROVE  /\ AddRecord(m).size = m.size
           /\ \/ AddRecord(m).fault = m.fault
              \/ AddRecord(m).fault = "underflow" /\ m.bottom < One
           /\ Split(m, g, f, k).fault = m.fault
           /\ Place(m, g, k).fault = m.fault
<1> DEFINE a == AddRecord(m)
           b == m.bottom - One
           u == [i \in 0 .. m.n |-> IF i = m.n THEN FreeUnit ELSE m.units[i]]
           t == IF m.bottom < One THEN "underflow" ELSE m.fault
           p == Split(m, g, f, k)
           q == Place(m, g, k)
<1>1. a = [m EXCEPT !.bottom = b, !.n = m.n + 1, !.units = u, !.fault = t]
  BY Zenon DEF AddRecord
<1>2. t = m.fault \/ (t = "underflow" /\ m.bottom < One)
  OBVIOUS
<1>3. PICK v, w : p = [m EXCEPT !.tail = v, !.units = w]
  BY Zenon DEF Split
<1>4. PICK d, e, x : q = [m EXCEPT !.top = d, !.tail = e, !.units = x]
  BY Zenon DEF Place
<1> HIDE DEF a, b, u, t, p, q
<1>5. a.size = m.size /\ a.fault = t /\ p.fault = m.fault /\ q.fault = m.fault
  BY <1>1, <1>3, <1>4, PoolFields
<1> QED BY <1>2, <1>5 DEF a, p, q

\* qs_resize_garbage, after the first growth of the call left no room for a record.
LEMMA ResizeGarbageCaused ==
    ASSUME NEW s \in Nat, NEW c, NEW m, Good(m), Reach(s, m.size), Caused(s, c, m.fault),
           NoRecordRoom(m),
           NEW g \in 0 .. m.n - 1, NEW f \in -1 .. m.n - 1, NEW k \in Nat
    PROVE  Caused(s, c, ResizeGarbage(m, g, f, k).fault)
<1> DEFINE w == GrowForRecord(m)
           a == AddRecord(w)
           r == ResizeGarbage(m, g, f, k)
<1>1. w = m \/ w = Grow(m, One)
  BY DEF GrowForRecord
<1>2. Good(w)
  BY GrowForRecordGood
<1>3. m.bottom \in Int /\ One \in Nat /\ One <= m.bottom /\ w.bottom \in Int
  BY <1>2, PoolFields, OneAssumption DEF NoRecordRoom
<1>4. Caused(s, c, w.fault) /\ One <= w.bottom
  <2>1. CASE w = m
    BY <1>3, <2>1
  <2>2. CASE w = Grow(m, One)
    <3>1. Caused(s, c, Grow(m, One).fault) /\ Grow(m, One).bottom >= m.bottom
      BY <1>3, SecondGrowth, GrowReach
    <3> HIDE DEF w
    <3> QED BY <1>3, <2>2, <3>1
  <2> QED BY <1>1, <2>1, <2>2
<1>5. \/ r = m \/ r = Split(m, g, f, k) \/ r = w
      \/ ~NoRecordRoom(w) /\ r = Split(a, g, m.n, k)
  BY DEF ResizeGarbage
<1> HIDE DEF w, r
<1>6. CASE r = m \/ r = Split(m, g, f, k) \/ r = w
  BY <1>4, <1>6, RecordFields DEF r
<1>7. CASE ~NoRecordRoom(w) /\ r = Split(a, g, m.n, k)
  <2>1. Good(a) /\ a.fault = w.fault
    BY <1>2, <1>3, <1>4, <1>7, AddRecordGood, RecordFields
  <2> HIDE DEF a
  <2>2. r.fault = a.fault
    BY <1>7, <2>1, RecordFields
  <2> QED BY <1>4, <2>1, <2>2 DEF r
<1> QED BY <1>5, <1>6, <1>7

\* qs_find_freemunit: its faults have a cause, and a unit without a block comes from a pool
\* that grew once at most.
LEMMA FindUnitCaused ==
    ASSUME NEW m, Good(m), m.fault = "none", NEW k \in Nat
    PROVE  LET f == FindUnit(m, k) IN
           /\ Caused(m.size, m.bottom, f.pool.fault)
           /\ f.id # -1 /\ f.pool.units[f.id].status = "FREE" => Reach(m.size, f.pool.size)
<1> DEFINE g == GrowForRecord(m)
           f == FindUnit(m, k)
<1>1. /\ Good(g) /\ Reach(m.size, g.size) /\ Caused(m.size, m.bottom, g.fault)
      /\ g.bottom < One => m.bottom < One
  BY FirstGrowth
<1>2. m.size \in Nat
  BY PoolFields
<1>3. CASE ~NoRecordRoom(g)
  <2>1. f.pool = AddRecord(g)
    BY <1>3 DEF FindUnit
  <2> HIDE DEF g, f
  <2>2. /\ AddRecord(g).size = g.size
        /\ \/ AddRecord(g).fault = g.fault
           \/ AddRecord(g).fault = "underflow" /\ g.bottom < One
    BY <1>1, RecordFields
  <2>3. Caused(m.size, m.bottom, AddRecord(g).fault)
    BY <1>1, <2>2 DEF Caused
  <2> QED BY <1>1, <2>1, <2>2, <2>3 DEF f
<1>4. CASE NoRecordRoom(g) /\ Fitting(g, k) # {}
  <2> DEFINE b == Max(Fitting(g, k))
             e == NewestOrNone(FreeFrom(g, b + 1))
             c == ResizeGarbage(g, b, e, k)
  <2> HIDE DEF g
  <2>1. /\ b \in 0 .. g.n - 1 /\ g.units[b].status = "GARBAGE" /\ k <= g.units[b].size
        /\ e \in -1 .. g.n - 1 /\ (e # -1 => e # b /\ g.units[e].status = "FREE")
    BY <1>1, <1>4, ReuseArguments
  <2>2. f.pool = [c EXCEPT !.units[b].status = "USE"] /\ f.id = b
    BY <1>4 DEF FindUnit, Reuse, g
  <2> HIDE DEF b, e, f
  <2>3. Good(c) /\ b \in 0 .. c.n - 1
    BY <1>1, <2>1, ResizeGarbageGood
  <2>4. Caused(m.size, m.bottom, c.fault)
    BY <1>1, <1>2, <1>4, <2>1, ResizeGarbageCaused
  <2> HIDE DEF c
  <2>5. c \in [size : Nat, top : Nat, bottom : Int, n : Nat, units : [0 .. c.n - 1 -> Unit],
               tail : Int, full : BOOLEAN, fault : Faults]
        /\ c.units \in [0 .. c.n - 1 -> Unit]
    BY <2>3 DEF Good, Typed
  <2>6. c.units[b] \in Unit
    BY <2>3, <2>5
  <2>7. f.pool.fault = c.fault /\ f.pool.units[b].status = "USE"
    BY <2>2, <2>3, <2>5, <2>6 DEF Unit
  <2> QED BY <2>2, <2>4, <2>7 DEF f
<1>5. CASE NoRecordRoom(g) /\ Fitting(g, k) = {}
  <2>1. f.pool = g
    BY <1>5 DEF FindUnit
  <2> QED BY <1>1, <2>1
<1> QED BY <1>3, <1>4, <1>5

\* qs_malloc, in a pool that grew once at most.
LEMMA MallocCaused ==
    ASSUME NEW s \in Nat, NEW b, NEW m, Good(m), Reach(s, m.size), Caused(s, b, m.fault),
           NEW id, NEW k \in Nat
    PROVE  Caused(s, b, Malloc(m, id, k).fault)
<1> DEFINE g == IF Growable /\ NoDataRoom(m, k) THEN Grow(m, k) ELSE m
<1>1. Good(g)
  BY GrowGood
<1>2. Caused(s, b, g.fault)
  BY SecondGrowth
<1>3. Malloc(m, id, k) = m \/ Malloc(m, id, k) = g \/ Malloc(m, id, k) = Place(g, id, k)
  BY DEF Malloc
<1> HIDE DEF g
<1> QED BY <1>1, <1>2, <1>3, RecordFields

\* qs_create_munit.
LEMMA CreateMunitCaused ==
    ASSUME NEW m, Good(m), m.fault = "none", NEW k \in Nat
    PROVE  Caused(m.size, m.bottom, CreateMunit(m, k).fault)
<1> DEFINE f == FindUnit(m, k)
           r == CreateMunit(m, k)
<1>1. Good(f.pool)
  BY FindUnitGood
<1>2. /\ Caused(m.size, m.bottom, f.pool.fault)
      /\ f.id # -1 /\ f.pool.units[f.id].status = "FREE" => Reach(m.size, f.pool.size)
  BY FindUnitCaused
<1>3. \/ r = f.pool
      \/ r = Malloc(f.pool, f.id, k) /\ f.id # -1 /\ f.pool.units[f.id].status = "FREE"
  BY DEF CreateMunit
<1>4. m.size \in Nat
  BY PoolFields
<1> HIDE DEF f, r
<1>5. CASE r = Malloc(f.pool, f.id, k) /\ f.id # -1 /\ f.pool.units[f.id].status = "FREE"
  <2>1. Reach(m.size, f.pool.size)
    BY <1>2, <1>5
  <2>2. Caused(m.size, m.bottom, Malloc(f.pool, f.id, k).fault)
    BY <1>1, <1>2, <1>4, <2>1, MallocCaused
  <2> QED BY <1>5, <2>2 DEF r
<1> QED BY <1>2, <1>3, <1>5 DEF r

\* Every step keeps it so: a pool that has lost its table stays as it was.
LEMMA StepCaused ==
    ASSUME IInv, LostOnlyAtTheCap, [Next]_vars
    PROVE  LostOnlyAtTheCap'
<1> SUFFICES ASSUME pool'.fault # "none"
             PROVE  Caused(pool'.size, pool'.bottom, pool'.fault)
  BY DEF Caused, LostOnlyAtTheCap
<1>1. Good(pool) /\ Caused(pool.size, pool.bottom, pool.fault) /\ pool.size \in Nat
  BY PoolFields DEF IInv, Good, LostOnlyAtTheCap, Caused
\* what is left of a call
<1>2. ASSUME Sound, NEW r, Caused(pool.size, pool.bottom, r.fault), pool' = Outcome(r)
      PROVE  Caused(pool'.size, pool'.bottom, pool'.fault)
  <2>1. r.fault # "none" /\ pool' = [pool EXCEPT !.fault = r.fault]
    BY <1>2 DEF Outcome
  <2>2. pool'.size = pool.size /\ pool'.bottom = pool.bottom /\ pool'.fault = r.fault
    BY <1>1, <2>1, PoolFields
  <2> QED BY <1>2, <2>2
<1>3. ASSUME NEW n \in Requests, Create(n)
      PROVE  Caused(pool'.size, pool'.bottom, pool'.fault)
  <2>1. AlignUp(n) \in Nat
    BY AlignUpNat, RequestsAssumption
  <2>2. CASE pool' = pool
    BY <1>1, <2>2
  <2>3. CASE pool' = Outcome(CreateMunit(pool, AlignUp(n)))
    <3>1. Caused(pool.size, pool.bottom, CreateMunit(pool, AlignUp(n)).fault)
      BY <1>1, <1>3, <2>1, CreateMunitCaused DEF Create, Sound
    <3> QED BY <1>2, <1>3, <2>3, <3>1 DEF Create
  <2> QED BY <1>3, <2>2, <2>3 DEF Create
<1>4. ASSUME NEW id \in 0 .. FixUnits - 1, NEW n \in Requests, CreateFix(id, n)
      PROVE  Caused(pool'.size, pool'.bottom, pool'.fault)
  <2> DEFINE m == [pool EXCEPT !.units[id] = FreeUnit]
             r == Malloc(m, id, AlignUp(n))
  <2>1. AlignUp(n) \in Nat
    BY AlignUpNat, RequestsAssumption
  <2>2. CASE pool' = pool
    BY <1>1, <2>2
  <2>3. CASE pool' = Outcome(r) /\ pool.units[id].status = "FREE"
    <3>1. Good(m) /\ m.size = pool.size /\ m.fault = pool.fault
      BY <1>1, <2>3, FixReset
    <3> HIDE DEF m
    <3>2. Caused(pool.size, pool.bottom, r.fault)
      BY <1>1, <2>1, <3>1, MallocCaused DEF Reach
    <3> HIDE DEF r
    <3> QED BY <1>2, <1>4, <2>3, <3>2 DEF CreateFix
  <2> QED BY <1>4, <2>2, <2>3 DEF CreateFix
<1>5. ASSUME NEW id \in FixUnits .. pool.n - 1, Free(id)
      PROVE  Caused(pool'.size, pool'.bottom, pool'.fault)
  <2>1. pool' = pool \/ pool' = [pool EXCEPT !.units[id].status = "GARBAGE"]
    BY <1>5 DEF Free
  <2>2. pool'.fault = "none"
    BY <1>1, <1>5, <2>1, PoolFields DEF Free, Sound
  <2> QED BY <2>2 DEF Caused
<1>6. CASE Clean
  <2>1. PICK a, b, c : pool' = [pool EXCEPT !.top = 0, !.bottom = a, !.n = b, !.units = c, !.tail = -1]
    BY <1>6, Zenon DEF Clean
  <2>2. pool'.fault = "none"
    BY <1>1, <1>6, <2>1, PoolFields DEF Clean, Sound
  <2> QED BY <2>2 DEF Caused
<1>7. CASE UNCHANGED vars
  BY <1>1, <1>7 DEF vars
<1> QED BY <1>3, <1>4, <1>5, <1>6, <1>7 DEF Next, Call

\* A pool loses its table to a growth only near max_size, or with a min_realloc shorter than
\* a record, and to a new record only when less than a record is left below the table.
THEOREM LostOnlyAtTheCapAlways == Spec => []LostOnlyAtTheCap
<1>1. Init => LostOnlyAtTheCap
  BY DEF Init, Fresh, LostOnlyAtTheCap
<1>2. IInv /\ LostOnlyAtTheCap /\ [Next]_vars => LostOnlyAtTheCap'
  BY StepCaused
<1> QED BY <1>1, <1>2, Invariance, PTL DEF Spec

=============================================================================
