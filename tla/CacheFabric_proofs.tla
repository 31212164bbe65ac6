-------------------------- MODULE CacheFabric_proofs ------------------------
(***************************************************************************)
(* Proofs about CacheFabric, for any callers, queries, tags, tenants,      *)
(* capacities and bounds: types, deletes that are final, the table that    *)
(* catches up with the exact tier, what stale answers need, what L2 keeps. *)
(***************************************************************************)
EXTENDS CacheFabric, FiniteSetTheorems, TLAPS

----------------------------------------------------------------------------
(* Lists *)

\* t is s without some of its items, and perhaps in another order.
Thins(t, s) ==
  \E f \in [DOMAIN t -> DOMAIN s] :
    /\ \A k \in DOMAIN t : t[k] = s[f[k]]
    /\ \A k, l \in DOMAIN t : f[k] = f[l] => k = l

\* What a list stays when it is thinned.
LEMMA ThinnerSet ==
  ASSUME NEW s, NEW t, Thins(t, s)
  PROVE  ToSet(t) \subseteq ToSet(s)
  BY DEF Thins, ToSet
\* Thinning what is thinned thins.
LEMMA ThinnerThins ==
  ASSUME NEW s, NEW t, NEW u, Thins(t, s), Thins(u, t)
  PROVE  Thins(u, s)
<1>1. PICK f \in [DOMAIN t -> DOMAIN s] :
        /\ \A k \in DOMAIN t : t[k] = s[f[k]]
        /\ \A k, l \in DOMAIN t : f[k] = f[l] => k = l
  BY DEF Thins
<1>2. PICK g \in [DOMAIN u -> DOMAIN t] :
        /\ \A k \in DOMAIN u : u[k] = t[g[k]]
        /\ \A k, l \in DOMAIN u : g[k] = g[l] => k = l
  BY DEF Thins
<1> DEFINE h == [k \in DOMAIN u |-> f[g[k]]]
<1>3. /\ h \in [DOMAIN u -> DOMAIN s]
      /\ \A k \in DOMAIN u : u[k] = s[h[k]]
      /\ \A k, l \in DOMAIN u : h[k] = h[l] => k = l
  BY <1>1, <1>2
<1> HIDE DEF h
<1> QED  BY <1>3 DEF Thins
LEMMA ThinsItself ==
  ASSUME NEW s PROVE Thins(s, s)
<1>1. [k \in DOMAIN s |-> k] \in [DOMAIN s -> DOMAIN s]
  OBVIOUS
<1> QED  BY <1>1 DEF Thins

\* before puts a finite set of positions in order.
Orders(before) ==
  LET D == DOMAIN before IN
  /\ IsFiniteSet(D)
  /\ \A i \in D : before[i] \subseteq D \ {i}
  /\ \A i, j \in D : i # j => i \in before[j] \/ j \in before[i]
  /\ \A i, j \in D : i \in before[j] => before[i] \subseteq before[j]

\* No two positions have as many before them, and every number has one.
LEMMA Ranks ==
  ASSUME NEW before, Orders(before), NEW D, D = DOMAIN before
  PROVE  /\ Cardinality(D) \in Nat
         /\ \A i \in D : Cardinality(before[i]) \in 0..(Cardinality(D) - 1)
         /\ \A i, j \in D : Cardinality(before[i]) = Cardinality(before[j]) => i = j
         /\ \A k \in 1..Cardinality(D) : \E i \in D : Cardinality(before[i]) = k - 1
<1> DEFINE n == Cardinality(D)
<1>1. IsFiniteSet(D) /\ n \in Nat
  BY FS_CardinalityType DEF Orders
<1>2. ASSUME NEW i \in D
      PROVE  IsFiniteSet(before[i]) /\ Cardinality(before[i]) \in 0..(n - 1)
  <2>1. IsFiniteSet(D \ {i}) /\ Cardinality(D \ {i}) = n - 1
    BY <1>1, FS_RemoveElement
  <2>2. before[i] \in SUBSET (D \ {i})
    BY DEF Orders
  <2>3. IsFiniteSet(before[i]) /\ Cardinality(before[i]) <= n - 1
    BY <2>1, <2>2, FS_Subset
  <2>4. Cardinality(before[i]) \in Nat
    BY <2>3, FS_CardinalityType
  <2> QED  BY <1>1, <2>3, <2>4
<1>3. ASSUME NEW i \in D, NEW j \in D, i \in before[j]
      PROVE  Cardinality(before[i]) # Cardinality(before[j])
  <2>1. before[i] \in SUBSET before[j] /\ i \notin before[i]
    BY <1>3 DEF Orders
  <2> QED  BY <1>2, <1>3, <2>1, FS_Subset
<1>4. ASSUME NEW i \in D, NEW j \in D, Cardinality(before[i]) = Cardinality(before[j])
      PROVE  i = j
  BY <1>3, <1>4 DEF Orders
<1> DEFINE rank == [i \in D |-> Cardinality(before[i]) + 1]
<1>5. rank \in [D -> 1..n]
  BY <1>1, <1>2
<1>6. \A i, j \in D : rank[i] = rank[j] => i = j
  BY <1>2, <1>4
<1>7. IsFiniteSet(1..n) /\ Cardinality(1..n) = n
  BY <1>1, FS_Interval
<1>8. \A i \in D : rank[i] = Cardinality(before[i]) + 1
  OBVIOUS
<1> HIDE DEF rank
<1>9. rank \in Injection(D, 1..n)
  BY <1>5, <1>6 DEF Injection, IsInjective
<1>10. rank \in Surjection(D, 1..n)
  BY <1>1, <1>7, <1>9, FS_Injection
<1>11. ASSUME NEW k \in 1..n PROVE \E i \in D : Cardinality(before[i]) = k - 1
  <2>1. PICK i \in D : rank[i] = k
    BY <1>10 DEF Surjection
  <2>2. Cardinality(before[i]) + 1 = k /\ Cardinality(before[i]) \in Nat
    BY <1>2, <1>8, <2>1
  <2> QED  BY <2>2
<1> QED  BY <1>1, <1>2, <1>4, <1>11

\* An arranged list has each position once.
LEMMA Arranged ==
  ASSUME NEW list, NEW before, Orders(before), DOMAIN before \subseteq DOMAIN list
  PROVE  /\ DOMAIN Arrange(list, before) = 1..Cardinality(DOMAIN before)
         /\ Cardinality(DOMAIN before) \in Nat
         /\ Thins(Arrange(list, before), list)
         /\ ToSet(Arrange(list, before)) = {list[i] : i \in DOMAIN before}
         /\ \A i \in DOMAIN before :
              /\ Cardinality(before[i]) + 1 \in 1..Cardinality(DOMAIN before)
              /\ Arrange(list, before)[Cardinality(before[i]) + 1] = list[i]
<1>1. PICK D, n, t : D = DOMAIN before /\ n = Cardinality(D) /\ t = Arrange(list, before)
  OBVIOUS
<1>2. /\ n \in Nat
      /\ \A i \in D : Cardinality(before[i]) \in 0..(n - 1)
      /\ \A i, j \in D : Cardinality(before[i]) = Cardinality(before[j]) => i = j
      /\ \A k \in 1..n : \E i \in D : Cardinality(before[i]) = k - 1
  BY <1>1, Ranks
<1> DEFINE f == [k \in 1..n |-> CHOOSE i \in D : Cardinality(before[i]) = k - 1]
<1>3. \A k \in 1..n : f[k] \in D /\ Cardinality(before[f[k]]) = k - 1
  BY <1>2
<1>4. DOMAIN t = 1..n /\ \A k \in 1..n : t[k] = list[f[k]]
  BY <1>1 DEF Arrange
<1>5. DOMAIN f = 1..n /\ f \in [1..n -> D]
  BY <1>3
<1> HIDE DEF f
<1>6. \A k, l \in 1..n : f[k] = f[l] => k = l
  BY <1>3
<1>7. Thins(t, list)
  <2>1. f \in [DOMAIN t -> DOMAIN list]
    BY <1>1, <1>4, <1>5
  <2> QED  BY <1>4, <1>6, <2>1 DEF Thins
<1>8. ASSUME NEW i \in D
      PROVE  Cardinality(before[i]) + 1 \in 1..n /\ t[Cardinality(before[i]) + 1] = list[i]
  <2>1. PICK k \in 1..n : k = Cardinality(before[i]) + 1
    BY <1>2
  <2>2. f[k] \in D /\ Cardinality(before[f[k]]) = Cardinality(before[i])
    BY <1>2, <1>3, <2>1
  <2>3. f[k] = i
    BY <1>2, <2>2
  <2> QED  BY <1>4, <2>1, <2>3
<1>9. ToSet(t) = {list[i] : i \in D}
  <2>1. ToSet(t) \subseteq {list[i] : i \in D}
    BY <1>3, <1>4 DEF ToSet
  <2>2. {list[i] : i \in D} \subseteq ToSet(t)
    BY <1>4, <1>8 DEF ToSet
  <2> QED  BY <2>1, <2>2
<1> QED  BY <1>1, <1>2, <1>4, <1>7, <1>8, <1>9

\* It is a list.
LEMMA ArrangedSeq ==
  ASSUME NEW S, NEW list, NEW before, Orders(before), DOMAIN before \subseteq DOMAIN list,
         \A i \in DOMAIN before : list[i] \in S
  PROVE  /\ Arrange(list, before) \in Seq(S)
         /\ Len(Arrange(list, before)) = Cardinality(DOMAIN before)
<1>1. PICK n, t : /\ n = Cardinality(DOMAIN before) /\ t = Arrange(list, before)
                  /\ n \in Nat /\ DOMAIN t = 1..n
  BY Arranged
<1>2. ToSet(t) \subseteq S
  BY <1>1, Arranged
<1>3. \A k \in 1..n : t[k] \in S
  BY <1>1, <1>2 DEF ToSet
<1>4. t = [k \in 1..n |-> t[k]]
  BY <1>1 DEF Arrange
<1> QED  BY <1>1, <1>3, <1>4

\* What Without leaves: all else, in the order it was.
LEMMA WithoutList ==
  ASSUME NEW S, NEW list \in Seq(S), NEW gone
  PROVE  /\ Without(list, gone) \in Seq(S)
         /\ Thins(Without(list, gone), list)
         /\ ToSet(Without(list, gone)) = ToSet(list) \ gone
<1> DEFINE kept == {i \in DOMAIN list : list[i] \notin gone}
           before == [i \in kept |-> {j \in kept : j < i}]
<1>1. DOMAIN list = 1..Len(list) /\ Len(list) \in Nat /\ \A i \in DOMAIN list : list[i] \in S
  OBVIOUS
<1>2. IsFiniteSet(kept)
  <2>1. IsFiniteSet(1..Len(list))
    BY <1>1, FS_Interval
  <2> QED  BY <1>1, <2>1, FS_Subset
<1>3. Orders(before)
  BY <1>1, <1>2 DEF Orders
<1>4. DOMAIN before = kept /\ Without(list, gone) = Arrange(list, before)
  BY DEF Without
<1>5. {list[i] : i \in kept} = ToSet(list) \ gone
  BY DEF ToSet
<1>6. kept \subseteq DOMAIN list /\ \A i \in kept : list[i] \in S
  BY <1>1
<1> HIDE DEF kept, before
<1> QED  BY <1>3, <1>4, <1>5, <1>6, Arranged, ArrangedSeq

\* By access: the same list in another order, what was touched last at the end.
LEMMA ByAccessList ==
  ASSUME NEW list \in Seq(Entry), NEW stamps \in [1..MaxClock -> Nat]
  PROVE  LET lru == ByAccess(list, stamps) IN
         /\ lru \in Seq(Entry) /\ Len(lru) = Len(list) /\ Thins(lru, list)
         /\ \A i \in DOMAIN list :
              (\A j \in DOMAIN list \ {i} : stamps[list[j].at] < stamps[list[i].at])
                => lru[Len(lru)] = list[i]
<1> DEFINE n == Len(list)
           lru == ByAccess(list, stamps)
           before == [i \in 1..n |->
             {j \in 1..n : \/ stamps[list[j].at] < stamps[list[i].at]
                           \/ stamps[list[j].at] = stamps[list[i].at] /\ j < i}]
<1>1. DOMAIN list = 1..n /\ n \in Nat /\ \A i \in 1..n : list[i] \in Entry
  OBVIOUS
<1>2. \A i \in 1..n : stamps[list[i].at] \in Nat
  BY <1>1 DEF Entry
<1>3. IsFiniteSet(1..n) /\ Cardinality(1..n) = n
  BY <1>1, FS_Interval
<1>4. Orders(before)
  <2>1. DOMAIN before = 1..n
    OBVIOUS
  <2>2. \A i \in 1..n : before[i] \subseteq (1..n) \ {i}
    BY <1>2
  <2>3. \A i, j \in 1..n : i # j => i \in before[j] \/ j \in before[i]
    BY <1>2
  <2>4. ASSUME NEW i \in 1..n, NEW j \in 1..n, i \in before[j]
        PROVE  before[i] \subseteq before[j]
    BY <1>2, <2>4
  <2> HIDE DEF before
  <2> QED  BY <1>3, <2>1, <2>2, <2>3, <2>4 DEF Orders
<1>5. lru = Arrange(list, before) /\ DOMAIN before = 1..n
  BY <1>1 DEF ByAccess
<1>6. ASSUME NEW i \in 1..n,
             \A j \in (1..n) \ {i} : stamps[list[j].at] < stamps[list[i].at]
      PROVE  before[i] = (1..n) \ {i}
  BY <1>2, <1>6
<1> HIDE DEF before, lru, n
<1>7. lru \in Seq(Entry) /\ Len(lru) = n /\ Thins(lru, list)
  BY <1>1, <1>3, <1>4, <1>5, Arranged, ArrangedSeq
<1>8. ASSUME NEW i \in 1..n,
             \A j \in (1..n) \ {i} : stamps[list[j].at] < stamps[list[i].at]
      PROVE  lru[n] = list[i]
  <2>1. Cardinality(before[i]) = n - 1
    BY <1>3, <1>6, <1>8, FS_RemoveElement
  <2>2. lru[Cardinality(before[i]) + 1] = list[i]
    BY <1>1, <1>4, <1>5, Arranged
  <2> QED  BY <1>1, <2>1, <2>2
<1>9. n = Len(list) /\ lru = ByAccess(list, stamps)
  BY DEF n, lru
<1> QED  BY <1>1, <1>7, <1>8, <1>9

\* The end of a list.
LEMMA EndOfList ==
  ASSUME NEW S, NEW list \in Seq(S), NEW m \in 1..Len(list)
  PROVE  LET rest == SubSeq(list, m, Len(list)) IN
         /\ rest \in Seq(S) /\ Thins(rest, list) /\ list[Len(list)] \in ToSet(rest)
<1> DEFINE n == Len(list)
           f == [k \in 1..(n - m + 1) |-> k + m - 1]
<1>1. PICK rest : rest = SubSeq(list, m, n)
  OBVIOUS
<1>2. /\ n \in Nat /\ DOMAIN list = 1..n /\ rest \in Seq(S) /\ DOMAIN rest = 1..(n - m + 1)
      /\ \A k \in 1..(n - m + 1) : rest[k] = list[k + m - 1]
  BY <1>1
<1>3. \A k \in 1..(n - m + 1) : k + m - 1 \in 1..n
  BY <1>2
<1>4. list[n] \in ToSet(rest)
  <2>1. n - m + 1 \in 1..(n - m + 1) /\ rest[n - m + 1] = list[n]
    BY <1>2
  <2> QED  BY <1>2, <2>1 DEF ToSet
<1>5. Thins(rest, list)
  <2>1. f \in [1..(n - m + 1) -> 1..n] /\ \A k \in 1..(n - m + 1) : f[k] = k + m - 1
    BY <1>3
  <2>2. \A k, l \in 1..(n - m + 1) : f[k] = f[l] => k = l
    BY <1>2, <2>1
  <2> HIDE DEF f
  <2>3. f \in [DOMAIN rest -> DOMAIN list]
    BY <1>2, <2>1
  <2>4. \A k \in DOMAIN rest : rest[k] = list[f[k]]
    BY <1>2, <2>1
  <2>5. \A k, l \in DOMAIN rest : f[k] = f[l] => k = l
    BY <1>2, <2>2
  <2> QED  BY <2>3, <2>4, <2>5 DEF Thins
<1> QED  BY <1>1, <1>2, <1>4, <1>5

\* Eviction thins a list, and spares what was touched last.
LEMMA EvictList ==
  ASSUME FabricAssumption, NEW list \in Seq(Entry), NEW stamps \in [1..MaxClock -> Nat]
  PROVE  /\ Evict(list, stamps) \in Seq(Entry) /\ Thins(Evict(list, stamps), list)
         /\ \A i \in DOMAIN list :
              (\A j \in DOMAIN list \ {i} : stamps[list[j].at] < stamps[list[i].at])
                => list[i] \in ToSet(Evict(list, stamps))
<1>1. CASE Len(list) <= MaxEntries
  BY <1>1, ThinsItself DEF Evict, ToSet
<1>2. CASE ~(Len(list) <= MaxEntries)
  <2>1. PICK lru : lru = ByAccess(list, stamps)
    OBVIOUS
  <2>2. /\ lru \in Seq(Entry) /\ Len(lru) = Len(list) /\ Thins(lru, list)
        /\ \A i \in DOMAIN list :
              (\A j \in DOMAIN list \ {i} : stamps[list[j].at] < stamps[list[i].at])
                => lru[Len(lru)] = list[i]
    BY <2>1, ByAccessList
  <2>3. Len(list) \in Nat /\ Len(list) >= 2
    BY <1>2 DEF FabricAssumption
  <2>4. PICK m \in 1..Len(list) : m = EvictCount(Len(list)) + 1
    BY <2>3 DEF EvictCount
  <2>5. Evict(list, stamps) = SubSeq(lru, m, Len(lru))
    BY <1>2, <2>1, <2>2, <2>4 DEF Evict
  <2>6. PICK rest : rest = SubSeq(lru, m, Len(lru))
    OBVIOUS
  <2>7. rest \in Seq(Entry) /\ Thins(rest, lru) /\ lru[Len(lru)] \in ToSet(rest)
    BY <2>2, <2>4, <2>6, EndOfList
  <2>8. Thins(rest, list)
    BY <2>2, <2>7, ThinnerThins
  <2> QED  BY <2>2, <2>5, <2>6, <2>7, <2>8
<1> QED  BY <1>1, <1>2

\* A set of positions has a first and a last one.
LEMMA FirstPosition ==
  ASSUME NEW n \in Nat, NEW P, P \subseteq 1..n, P # {}
  PROVE  \E i \in P : \A j \in P : i <= j
<1>1. P \subseteq Nat
  OBVIOUS
<1>2. PICK i \in P : \A j \in P : ~(<<j, i>> \in OpToRel(<, Nat))
  BY <1>1, NatLessThanWellFounded, WFMin
<1>3. \A j \in P : ~(j < i)
  BY <1>1, <1>2 DEF OpToRel
<1> QED  BY <1>1, <1>3
\* The last position of a set of positions.
LEMMA LastPosition ==
  ASSUME NEW n \in Nat, NEW P, P \subseteq 1..n, P # {}
  PROVE  \E i \in P : \A j \in P : j <= i
<1>1. PICK Q : Q = {m \in 1..n : n + 1 - m \in P}
  OBVIOUS
<1>2. \A i \in P : n + 1 - i \in Q
  BY <1>1
<1>6. Q \subseteq 1..n /\ Q # {}
  BY <1>1, <1>2
<1>3. PICK m \in Q : \A l \in Q : m <= l
  BY <1>6, FirstPosition
<1>4. PICK i \in P : i = n + 1 - m
  BY <1>1
<1>5. ASSUME NEW j \in P PROVE j <= i
  <2>1. n + 1 - j \in Q
    BY <1>2
  <2>2. m <= n + 1 - j
    BY <1>3, <2>1
  <2> QED  BY <1>1, <1>4, <2>2
<1> QED  BY <1>5

\* What FirstOf finds.
LEMMA FirstOfQuery ==
  ASSUME NEW list \in Seq(Entry), NEW q
  PROVE  LET i == FirstOf(list, q) IN
         \/ i = 0 /\ \A j \in 1..Len(list) : list[j].query # q
         \/ /\ i \in 1..Len(list) /\ list[i].query = q
            /\ \A j \in 1..(i - 1) : list[j].query # q
<1>1. PICK P : P = {j \in 1..Len(list) : list[j].query = q}
  OBVIOUS
<1>2. FirstOf(list, q) = IF P # {} THEN Min(P) ELSE 0
  BY <1>1 DEF FirstOf, SelectInSeq
<1>3. CASE P = {}
  BY <1>1, <1>2, <1>3
<1>4. CASE P # {}
  <2>6. P \subseteq 1..Len(list) /\ Len(list) \in Nat
    BY <1>1
  <2>1. \E i \in P : \A j \in P : i <= j
    BY <1>4, <2>6, FirstPosition
  <2>2. Min(P) \in P /\ \A j \in P : Min(P) <= j
    BY <2>1 DEF Min
  <2>3. PICK i : i = Min(P)
    OBVIOUS
  <2>7. i \in P /\ \A j \in P : i <= j
    BY <2>2, <2>3
  <2>4. i \in 1..Len(list) /\ list[i].query = q
    BY <1>1, <2>7
  <2>5. ASSUME NEW j \in 1..(i - 1) PROVE list[j].query # q
    <3>1. j \in 1..Len(list) /\ ~(i <= j)
      BY <2>4, <2>6
    <3> QED  BY <1>1, <2>7, <3>1
  <2> QED  BY <1>2, <1>4, <2>3, <2>4, <2>5
<1> QED  BY <1>3, <1>4

\* A list has a query at most once, or at most twice.
Once(list, q) ==
  \A i, j \in DOMAIN list : list[i].query = q /\ list[j].query = q => i = j
Twice(list, q) ==
  \A i, j, k \in DOMAIN list :
    list[i].query = q /\ list[j].query = q /\ list[k].query = q => i = j \/ j = k \/ i = k

\* So does what is left of it.
LEMMA ThinnerCopies ==
  ASSUME NEW s, NEW t, Thins(t, s), NEW q
  PROVE  (Once(s, q) => Once(t, q)) /\ (Twice(s, q) => Twice(t, q))
<1>1. PICK f \in [DOMAIN t -> DOMAIN s] :
        /\ \A k \in DOMAIN t : t[k] = s[f[k]]
        /\ \A k, l \in DOMAIN t : f[k] = f[l] => k = l
  BY DEF Thins
<1>2. \A k \in DOMAIN t : f[k] \in DOMAIN s /\ t[k].query = s[f[k]].query
  BY <1>1
<1> QED  BY <1>1, <1>2 DEF Once, Twice

\* What add_semantic_entry makes of a list before it evicts: the first copy of
\* the key is replaced, or the entry comes last.
Replaces(full, list, e, i) ==
  /\ i \in DOMAIN list /\ list[i].query = e.query
  /\ \A j \in 1..(i - 1) : list[j].query # e.query
  /\ full = [list EXCEPT ![i] = e]
Extends(full, list, e) ==
  (\A j \in DOMAIN list : list[j].query # e.query) /\ full = Append(list, e)
\* What the semantic tier evicts from: the list with the entry in the place
\* of its query, or at the end.
LEMMA AddsEntry ==
  ASSUME NEW list \in Seq(Entry), NEW e \in Entry, NEW stamps
  PROVE  \E full \in Seq(Entry) :
           /\ AddSemantic(list, e, stamps) = Evict(full, stamps)
           /\ Extends(full, list, e) \/ \E i : Replaces(full, list, e, i)
<1>1. PICK i : i = FirstOf(list, e.query)
  OBVIOUS
<1>2. DOMAIN list = 1..Len(list) /\ Len(list) \in Nat
  OBVIOUS
<1>5. \/ i = 0 /\ \A j \in 1..Len(list) : list[j].query # e.query
      \/ /\ i \in 1..Len(list) /\ list[i].query = e.query
         /\ \A j \in 1..(i - 1) : list[j].query # e.query
  BY <1>1, FirstOfQuery
<1>3. CASE i = 0
  <2>1. \A j \in DOMAIN list : list[j].query # e.query
    BY <1>2, <1>3, <1>5
  <2>4. Append(list, e) \in Seq(Entry)
    OBVIOUS
  <2>2. PICK full \in Seq(Entry) : full = Append(list, e)
    BY <2>4
  <2>3. AddSemantic(list, e, stamps) = Evict(full, stamps)
    BY <1>1, <1>3, <2>2 DEF AddSemantic
  <2> QED  BY <2>1, <2>2, <2>3 DEF Extends
<1>4. CASE i # 0
  <2>1. i \in DOMAIN list /\ list[i].query = e.query /\ \A j \in 1..(i - 1) : list[j].query # e.query
    BY <1>2, <1>4, <1>5
  <2>4. [list EXCEPT ![i] = e] \in Seq(Entry)
    BY <1>2, <2>1
  <2>2. PICK full \in Seq(Entry) : full = [list EXCEPT ![i] = e]
    BY <2>4
  <2>3. AddSemantic(list, e, stamps) = Evict(full, stamps)
    BY <1>1, <1>4, <2>2 DEF AddSemantic
  <2> QED  BY <2>1, <2>2, <2>3 DEF Replaces
<1> QED  BY <1>3, <1>4

\* Neither gives a query another copy, and a query that had one has the new one.
LEMMA AddedCopies ==
  ASSUME NEW list \in Seq(Entry), NEW e \in Entry, NEW full \in Seq(Entry),
         Extends(full, list, e) \/ \E i : Replaces(full, list, e, i), NEW q
  PROVE  /\ Once(list, q) => Once(full, q)
         /\ Twice(list, q) => Twice(full, q)
         /\ Once(list, e.query) => \A x \in ToSet(full) : x.query = e.query => x = e
         /\ ToSet(full) \subseteq ToSet(list) \union {e}
<1>1. CASE Extends(full, list, e)
  <2>1. /\ DOMAIN full = 1..(Len(list) + 1) /\ Len(list) \in Nat /\ DOMAIN list = 1..Len(list)
        /\ \A j \in 1..Len(list) : full[j] = list[j] /\ list[j].query # e.query
        /\ full[Len(list) + 1] = e
    BY <1>1 DEF Extends
  <2>2. \A i, j \in DOMAIN full : full[i].query = e.query /\ full[j].query = e.query => i = j
    BY <2>1
  <2>3. CASE q = e.query
    BY <2>1, <2>2, <2>3 DEF Once, Twice, ToSet
  <2>4. CASE q # e.query
    BY <2>1, <2>4 DEF Once, Twice, ToSet
  <2> QED  BY <2>3, <2>4
<1>2. ASSUME NEW i, Replaces(full, list, e, i)
      PROVE  /\ Once(list, q) => Once(full, q)
             /\ Twice(list, q) => Twice(full, q)
             /\ Once(list, e.query) => \A x \in ToSet(full) : x.query = e.query => x = e
             /\ ToSet(full) \subseteq ToSet(list) \union {e}
  <2>1. /\ DOMAIN full = DOMAIN list /\ i \in DOMAIN list /\ full[i] = e
        /\ \A j \in DOMAIN list : j # i => full[j] = list[j]
        /\ \A j \in DOMAIN list : full[j].query = list[j].query
    BY <1>2 DEF Replaces
  <2>2. Once(list, e.query) => \A x \in ToSet(full) : x.query = e.query => x = e
    BY <1>2, <2>1 DEF Once, ToSet, Replaces
  <2> QED  BY <2>1, <2>2 DEF Once, Twice, ToSet
<1> QED  BY <1>1, <1>2

\* An entry stored later than all others is in the list after it.
LEMMA AddedStays ==
  ASSUME FabricAssumption, NEW list \in Seq(Entry), NEW e \in Entry,
         NEW stamps \in [1..MaxClock -> Nat],
         \A x \in ToSet(list) : stamps[x.at] < stamps[e.at]
  PROVE  e \in ToSet(AddSemantic(list, e, stamps))
<1>1. PICK full \in Seq(Entry) :
        /\ AddSemantic(list, e, stamps) = Evict(full, stamps)
        /\ Extends(full, list, e) \/ \E i : Replaces(full, list, e, i)
  BY AddsEntry
<1>2. DOMAIN list = 1..Len(list) /\ Len(list) \in Nat
      /\ \A j \in DOMAIN list : stamps[list[j].at] < stamps[e.at]
  BY DEF ToSet
<1>3. \E i \in DOMAIN full : full[i] = e /\ \A j \in DOMAIN full \ {i} : j \in DOMAIN list /\ full[j] = list[j]
  <2>1. CASE Extends(full, list, e)
    <3>1. /\ DOMAIN full = 1..(Len(list) + 1)
          /\ \A j \in 1..Len(list) : full[j] = list[j]
          /\ full[Len(list) + 1] = e
      BY <2>1 DEF Extends
    <3>2. \A j \in DOMAIN full \ {Len(list) + 1} : j \in DOMAIN list /\ full[j] = list[j]
      BY <1>2, <3>1
    <3>3. Len(list) + 1 \in DOMAIN full
      BY <1>2, <3>1
    <3> QED  BY <3>1, <3>2, <3>3
  <2>2. ASSUME NEW i, Replaces(full, list, e, i)
        PROVE  i \in DOMAIN full /\ full[i] = e /\ \A j \in DOMAIN full \ {i} : j \in DOMAIN list /\ full[j] = list[j]
    BY <2>2 DEF Replaces
  <2> QED  BY <1>1, <2>1, <2>2
<1>4. PICK i \in DOMAIN full :
        full[i] = e /\ \A j \in DOMAIN full \ {i} : stamps[full[j].at] < stamps[full[i].at]
  BY <1>2, <1>3
<1> QED  BY <1>1, <1>4, EvictList

\* add_semantic_entry in one.
LEMMA AddedList ==
  ASSUME FabricAssumption, NEW list \in Seq(Entry), NEW e \in Entry,
         NEW stamps \in [1..MaxClock -> Nat]
  PROVE  LET t == AddSemantic(list, e, stamps) IN
         /\ t \in Seq(Entry) /\ ToSet(t) \subseteq ToSet(list) \union {e}
         /\ \A q : (Once(list, q) => Once(t, q)) /\ (Twice(list, q) => Twice(t, q))
         /\ Once(list, e.query) => \A x \in ToSet(t) : x.query = e.query => x = e
<1>1. PICK full \in Seq(Entry) :
        /\ AddSemantic(list, e, stamps) = Evict(full, stamps)
        /\ Extends(full, list, e) \/ \E i : Replaces(full, list, e, i)
  BY AddsEntry
<1>2. PICK t : t = Evict(full, stamps)
  OBVIOUS
<1>3. t \in Seq(Entry) /\ Thins(t, full) /\ ToSet(t) \subseteq ToSet(full)
  BY <1>2, EvictList, ThinnerSet
<1>4. /\ \A q : (Once(list, q) => Once(full, q)) /\ (Twice(list, q) => Twice(full, q))
      /\ Once(list, e.query) => \A x \in ToSet(full) : x.query = e.query => x = e
      /\ ToSet(full) \subseteq ToSet(list) \union {e}
  BY <1>1, AddedCopies
<1>5. \A q : (Once(full, q) => Once(t, q)) /\ (Twice(full, q) => Twice(t, q))
  BY <1>3, ThinnerCopies
<1> QED  BY <1>1, <1>2, <1>3, <1>4, <1>5

\* Adding the first copy of a key again changes nothing but what eviction does.
LEMMA AddedAgain ==
  ASSUME FabricAssumption, NEW list \in Seq(Entry), NEW stamps \in [1..MaxClock -> Nat],
         NEW i \in DOMAIN list, \A j \in 1..(i - 1) : list[j].query # list[i].query
  PROVE  /\ AddSemantic(list, list[i], stamps) \in Seq(Entry)
         /\ Thins(AddSemantic(list, list[i], stamps), list)
<1>1. list[i] \in Entry /\ DOMAIN list = 1..Len(list) /\ Len(list) \in Nat
  OBVIOUS
<1>2. PICK full \in Seq(Entry) :
        /\ AddSemantic(list, list[i], stamps) = Evict(full, stamps)
        /\ Extends(full, list, list[i]) \/ \E j : Replaces(full, list, list[i], j)
  BY <1>1, AddsEntry
<1>3. ~Extends(full, list, list[i])
  BY DEF Extends
<1>4. PICK j : Replaces(full, list, list[i], j)
  BY <1>2, <1>3
<1>5. j = i
  BY <1>1, <1>4 DEF Replaces
<1>6. full = list
  BY <1>4, <1>5 DEF Replaces
<1> QED  BY <1>2, <1>6, EvictList

----------------------------------------------------------------------------
(* The invariant *)

OneEach(S) == \A e, f \in S : e.query = f.query => e = f
OnDisk == db \union InTransit

Shapes ==
  /\ l1 \subseteq Entry /\ db \subseteq Entry /\ talks \subseteq Entry
  /\ l2 \in [Org -> Seq(Entry)] /\ tasks \in Seq(Entry) /\ queue \in Seq(Entry)
  /\ used \in [1..MaxClock -> 1..MaxClock]
  /\ calls \in [Caller -> Call]
  /\ expired \subseteq 1..MaxClock /\ clock \in 0..MaxClock
  /\ deleted \subseteq Entry /\ escaped \subseteq Entry
  /\ crossed \subseteq Query /\ restored \subseteq Query
\* A dict, and a table with a primary key.
OneEntry == OneEach(l1) /\ OneEach(db)
\* Nothing is stamped with a time that has not come.
Past ==
  /\ \A e \in l1 \union Semantic \union talks \union OnDisk \union deleted : e.at <= clock
  /\ \A n \in expired : n < clock
  /\ \A n \in 1..MaxClock : IF n > clock THEN used[n] = n ELSE used[n] <= clock
\* On its way to the disk an entry is in one place, and no two have one time.
Apart ==
  /\ \A e, f \in OnDisk : e.at = f.at => e = f
  /\ IsInjective(tasks) /\ IsInjective(queue)
  /\ ToSet(tasks) \intersect ToSet(queue) = {}
\* L2 keeps single-turn queries, by organisation.
Placed ==
  \A o \in Org : \A e \in ToSet(l2[o]) : e.query \in Single /\ OrgOf[e.query] = o
\* What was stored last is in L2 while L1 has it.
KeptNow ==
  \A e \in l1 : e.at = clock /\ e.query \in Single => e \in ToSet(l2[OrgOf[e.query]])
\* What was deleted is not on its way back either.
Gone == (l1 \union Semantic \union OnDisk) \intersect deleted \subseteq escaped
\* The copies of a query in L2.
Copies ==
  \A q \in Query :
    /\ Twice(l2[OrgOf[q]], q)
    /\ q \notin restored =>
         /\ Once(l2[OrgOf[q]], q)
         /\ \A e \in Of(ToSet(l2[OrgOf[q]]), q), f \in Of(l1, q) : e = f

IInv ==
  /\ Shapes /\ OneEntry /\ Past /\ Apart /\ Placed /\ KeptNow /\ Gone /\ Copies
  /\ LatestIsPersisted

----------------------------------------------------------------------------
(* The rows that writes leave *)

\* The last writes of two lists, one after the other.
LEMMA LastsOfBoth ==
  ASSUME NEW S, NEW s \in Seq(S), NEW t \in Seq(S)
  PROVE  /\ ToSet(s \o t) = ToSet(s) \union ToSet(t)
         /\ Lasts(s \o t) = Lasts(t) \union {e \in Lasts(s) : Of(ToSet(t), e.query) = {}}
<1>1. PICK u, m, n : u = s \o t /\ m = Len(s) /\ n = Len(t)
  OBVIOUS
<1>2. /\ m \in Nat /\ n \in Nat /\ DOMAIN s = 1..m /\ DOMAIN t = 1..n /\ DOMAIN u = 1..(m + n)
      /\ \A i \in 1..m : u[i] = s[i]
      /\ \A i \in 1..n : u[m + i] = t[i]
  BY <1>1
<1>3. \A i \in 1..m : i \in 1..(m + n)
  BY <1>2
<1>4. \A i \in 1..n : m + i \in 1..(m + n)
  BY <1>2
<1>5. \A i \in 1..(m + n) : i \in 1..m \/ (i - m \in 1..n /\ i = m + (i - m))
  BY <1>2
<1>6. ToSet(u) = ToSet(s) \union ToSet(t)
  <2>1. ASSUME NEW i \in 1..(m + n) PROVE u[i] \in ToSet(s) \union ToSet(t)
    <3>1. CASE i \in 1..m
      BY <1>2, <3>1 DEF ToSet
    <3>2. CASE i - m \in 1..n /\ i = m + (i - m)
      <4>1. u[i] = t[i - m]
        BY <1>2, <3>2
      <4> QED  BY <1>2, <3>2, <4>1 DEF ToSet
    <3> QED  BY <1>5, <3>1, <3>2
  <2>2. ToSet(s) \subseteq ToSet(u)
    BY <1>2, <1>3 DEF ToSet
  <2>3. ToSet(t) \subseteq ToSet(u)
    BY <1>2, <1>4 DEF ToSet
  <2>4. ToSet(u) \subseteq ToSet(s) \union ToSet(t)
    BY <1>2, <2>1 DEF ToSet
  <2> QED  BY <2>2, <2>3, <2>4
<1>7. ASSUME NEW e \in Lasts(u)
      PROVE  e \in Lasts(t) \/ (e \in Lasts(s) /\ Of(ToSet(t), e.query) = {})
  <2>1. PICK i \in 1..(m + n) :
          u[i] = e /\ \A k \in 1..(m + n) : k > i => u[k].query # u[i].query
    BY <1>2 DEF Lasts
  <2>2. CASE i \in 1..m
    <3>1. \A k \in 1..m : k > i => s[k].query # s[i].query
      BY <1>2, <1>3, <2>1, <2>2
    <3>2. \A k \in 1..n : t[k].query # e.query
      <4>1. \A k \in 1..n : m + k > i
        BY <1>2, <2>2
      <4> QED  BY <1>2, <1>4, <2>1, <4>1
    <3>3. e \in Lasts(s)
      BY <1>2, <2>1, <2>2, <3>1 DEF Lasts
    <3> QED  BY <1>2, <3>2, <3>3 DEF Of, ToSet
  <2>3. CASE i - m \in 1..n /\ i = m + (i - m)
    <3>1. PICK j \in 1..n : i = m + j
      BY <2>3
    <3>2. \A k \in 1..n : k > j => m + k > i
      BY <1>2, <3>1
    <3>3. \A k \in 1..n : k > j => t[k].query # t[j].query
      BY <1>2, <1>4, <2>1, <3>1, <3>2
    <3> QED  BY <1>2, <2>1, <3>1, <3>3 DEF Lasts
  <2> QED  BY <1>5, <2>2, <2>3
<1>8. ASSUME NEW e \in Lasts(t) PROVE e \in Lasts(u)
  <2>1. PICK j \in 1..n : t[j] = e /\ \A k \in 1..n : k > j => t[k].query # t[j].query
    BY <1>2 DEF Lasts
  <2>2. \A k \in 1..(m + n) : k > m + j => k - m \in 1..n /\ k = m + (k - m) /\ k - m > j
    BY <1>2
  <2>3. \A k \in 1..(m + n) : k > m + j => u[k].query # u[m + j].query
    BY <1>2, <2>1, <2>2
  <2>4. m + j \in 1..(m + n) /\ u[m + j] = e
    BY <1>2, <1>4, <2>1
  <2> QED  BY <1>2, <2>3, <2>4 DEF Lasts
<1>9. ASSUME NEW e \in Lasts(s), Of(ToSet(t), e.query) = {} PROVE e \in Lasts(u)
  <2>1. PICK i \in 1..m : s[i] = e /\ \A k \in 1..m : k > i => s[k].query # s[i].query
    BY <1>2 DEF Lasts
  <2>2. \A k \in 1..n : t[k].query # e.query
    BY <1>2, <1>9 DEF Of, ToSet
  <2>3. ASSUME NEW k \in 1..(m + n), k > i PROVE u[k].query # u[i].query
    BY <1>2, <1>5, <2>1, <2>2, <2>3
  <2>4. i \in 1..(m + n) /\ u[i] = e
    BY <1>2, <1>3, <2>1
  <2> QED  BY <1>2, <2>3, <2>4 DEF Lasts
<1> QED  BY <1>1, <1>6, <1>7, <1>8, <1>9

\* Writing one list after the other is writing both.
LEMMA WrittenInTurn ==
  ASSUME NEW table, NEW s \in Seq(Entry), NEW t \in Seq(Entry)
  PROVE  Written(Written(table, s), t) = Written(table, s \o t)
<1>1. /\ ToSet(s \o t) = ToSet(s) \union ToSet(t)
      /\ Lasts(s \o t) = Lasts(t) \union {e \in Lasts(s) : Of(ToSet(t), e.query) = {}}
  BY LastsOfBoth
<1>2. \A q : Of(ToSet(s \o t), q) = Of(ToSet(s), q) \union Of(ToSet(t), q)
  BY <1>1 DEF Of
<1>3. \A e : e \in Written(Written(table, s), t) <=> e \in Written(table, s \o t)
  BY <1>1, <1>2 DEF Written
<1> QED  BY <1>3

\* The rows come from the table and the list, one for each query.
LEMMA WrittenRows ==
  ASSUME NEW table, NEW list \in Seq(Entry)
  PROVE  /\ Lasts(list) \subseteq ToSet(list)
         /\ Written(table, list) \subseteq table \union ToSet(list)
         /\ OneEach(table) => OneEach(Written(table, list))
<1>1. Lasts(list) \subseteq ToSet(list)
  BY DEF Lasts, ToSet
<1>2. OneEach(Lasts(list))
  <2>1. DOMAIN list = 1..Len(list) /\ Len(list) \in Nat
    OBVIOUS
  <2> QED  BY <2>1 DEF OneEach, Lasts
<1> QED  BY <1>1, <1>2 DEF Written, OneEach, Of

\* No write leaves the table, one replaces the row of its query.
LEMMA WrittenOne ==
  ASSUME NEW table, NEW e
  PROVE  Written(table, <<>>) = table /\ Written(table, <<e>>) = Put(table, e)
<1>1. Lasts(<<>>) = {} /\ ToSet(<<>>) = {}
  BY DEF Lasts, ToSet
<1>2. Lasts(<<e>>) = {e} /\ ToSet(<<e>>) = {e}
  <2>1. DOMAIN <<e>> = {1} /\ <<e>>[1] = e
    OBVIOUS
  <2> QED  BY <2>1 DEF Lasts, ToSet
<1> QED  BY <1>1, <1>2 DEF Written, Put, Of

\* Lists of one length with the same items are one list.
LEMMA SameList ==
  ASSUME NEW S, NEW s \in Seq(S), NEW t \in Seq(S), Len(s) = Len(t),
         \A i \in 1..Len(s) : s[i] = t[i]
  PROVE  s = t
<1>1. DOMAIN s = 1..Len(s) /\ DOMAIN t = 1..Len(s)
  OBVIOUS
<1>2. s = [i \in DOMAIN s |-> s[i]] /\ t = [i \in DOMAIN t |-> t[i]]
  OBVIOUS
<1> QED  BY <1>1, <1>2

\* A list after a list.
LEMMA Joined ==
  ASSUME NEW S, NEW s \in Seq(S), NEW t \in Seq(S)
  PROVE  s \o t \in Seq(S) /\ Len(s \o t) = Len(s) + Len(t)
  OBVIOUS

\* A list is its head and its tail, and any front and the rest.
LEMMA HeadAndTail ==
  ASSUME NEW S, NEW list \in Seq(S), list # <<>>
  PROVE  /\ Head(list) \in S /\ Tail(list) \in Seq(S)
         /\ list = <<Head(list)>> \o Tail(list)
<1>1. Head(list) \in S /\ Tail(list) \in Seq(S)
  OBVIOUS
<1>2. PICK t : t = <<Head(list)>> \o Tail(list)
  OBVIOUS
<1>3. t \in Seq(S) /\ Len(t) = Len(list) /\ \A i \in 1..Len(t) : t[i] = list[i]
  BY <1>1, <1>2
<1>4. t = list
  BY <1>3, SameList
<1> QED  BY <1>1, <1>2, <1>4
\* A list is its first n items and the rest.
LEMMA FrontAndRest ==
  ASSUME NEW S, NEW list \in Seq(S), NEW n \in 0..Len(list)
  PROVE  /\ SubSeq(list, 1, n) \in Seq(S) /\ SubSeq(list, n + 1, Len(list)) \in Seq(S)
         /\ list = SubSeq(list, 1, n) \o SubSeq(list, n + 1, Len(list))
<1>1. PICK s, t, m : /\ s = SubSeq(list, 1, n) /\ t = SubSeq(list, n + 1, Len(list))
                     /\ m = Len(list)
  OBVIOUS
<1>2. /\ s \in Seq(S) /\ Len(s) = n /\ \A i \in 1..n : s[i] = list[i]
      /\ m \in Nat /\ n \in 0..m
  BY <1>1
<1>3. /\ t \in Seq(S) /\ Len(t) = m - n
      /\ \A i \in 1..(m - n) : t[i] = list[n + i]
  BY <1>1
<1>4. PICK u : u = s \o t
  OBVIOUS
<1>5. u \in Seq(S) /\ Len(u) = m /\ Len(list) = m
  <2>1. u \in Seq(S) /\ Len(u) = Len(s) + Len(t)
    BY <1>2, <1>3, <1>4, Joined
  <2>2. Len(s) = n /\ Len(t) = m - n
    BY <1>2, <1>3
  <2>3. Len(u) = m
    BY <1>2, <2>1, <2>2
  <2> QED  BY <1>1, <2>1, <2>3
<1>6. ASSUME NEW i \in 1..m PROVE u[i] = list[i]
  <2>1. CASE i \in 1..n
    BY <1>2, <1>3, <1>4, <2>1
  <2>2. CASE i \notin 1..n
    <3>1. i - n \in 1..(m - n) /\ i = n + (i - n)
      BY <1>2, <2>2
    <3>2. u[i] = t[i - n]
      BY <1>2, <1>3, <1>4, <2>2
    <3> QED  BY <1>3, <3>1, <3>2
  <2> QED  BY <2>1, <2>2
<1>7. u = list
  BY <1>5, <1>6, SameList
<1> QED  BY <1>1, <1>2, <1>3, <1>4, <1>7

\* One item at the end of a list, and lists without repetition.
LEMMA AppendJoins ==
  ASSUME NEW S, NEW s \in Seq(S), NEW x \in S
  PROVE  /\ <<x>> \in Seq(S) /\ ToSet(<<x>>) = {x} /\ IsInjective(<<x>>)
         /\ Append(s, x) \in Seq(S) /\ Append(s, x) = s \o <<x>>
<1>1. PICK u, v : u = Append(s, x) /\ v = s \o <<x>>
  OBVIOUS
<1>2. <<x>> \in Seq(S) /\ Len(<<x>>) = 1 /\ DOMAIN <<x>> = {1} /\ <<x>>[1] = x
  OBVIOUS
<1>3. u \in Seq(S) /\ v \in Seq(S) /\ Len(u) = Len(s) + 1 /\ Len(v) = Len(s) + 1
  BY <1>1, <1>2, Joined
<1>4. \A i \in 1..Len(u) : u[i] = v[i]
  BY <1>1, <1>2
<1>5. u = v
  BY <1>3, <1>4, SameList
<1> QED  BY <1>1, <1>2, <1>3, <1>5 DEF ToSet, IsInjective
\* One item more.
LEMMA OneMore ==
  ASSUME NEW S, NEW s \in Seq(S), NEW x \in S
  PROVE  /\ Append(s, x) = s \o <<x>> /\ s \o <<x>> \in Seq(S)
         /\ ToSet(s \o <<x>>) = ToSet(s) \union {x}
         /\ ToSet(<<x>> \o s) = ToSet(s) \union {x}
<1>1. <<x>> \in Seq(S) /\ ToSet(<<x>>) = {x} /\ Append(s, x) = s \o <<x>>
  BY AppendJoins
<1>2. PICK t \in Seq(S) : t = <<x>>
  BY <1>1
<1>3. s \o t \in Seq(S) /\ ToSet(s \o t) = ToSet(s) \union ToSet(t)
  BY Joined, LastsOfBoth
<1>4. ToSet(t \o s) = ToSet(t) \union ToSet(s)
  BY LastsOfBoth
<1> QED  BY <1>1, <1>2, <1>3, <1>4
\* Two lists without repetitions have none together if they share nothing.
LEMMA JoinedInjective ==
  ASSUME NEW S, NEW s \in Seq(S), NEW t \in Seq(S)
  PROVE  IsInjective(s \o t) <=>
           IsInjective(s) /\ IsInjective(t) /\ ToSet(s) \intersect ToSet(t) = {}
<1>1. PICK u, m, n : u = s \o t /\ m = Len(s) /\ n = Len(t)
  OBVIOUS
<1>2. /\ m \in Nat /\ n \in Nat /\ DOMAIN s = 1..m /\ DOMAIN t = 1..n /\ DOMAIN u = 1..(m + n)
      /\ \A i \in 1..m : u[i] = s[i]
      /\ \A i \in 1..n : u[m + i] = t[i]
  BY <1>1
<1>3. \A i \in 1..m : i \in 1..(m + n)
  BY <1>2
<1>4. \A i \in 1..n : m + i \in 1..(m + n) /\ m + i \notin 1..m
  BY <1>2
<1>5. \A i \in (1..(m + n)) \ (1..m) : i - m \in 1..n /\ i = m + (i - m) /\ u[i] = t[i - m]
  <2>1. \A i \in (1..(m + n)) \ (1..m) : i - m \in 1..n /\ i = m + (i - m)
    BY <1>2
  <2> QED  BY <1>2, <2>1
<1>6. ASSUME IsInjective(u)
      PROVE  IsInjective(s) /\ IsInjective(t) /\ ToSet(s) \intersect ToSet(t) = {}
  <2>1. IsInjective(s)
    BY <1>2, <1>3, <1>6 DEF IsInjective
  <2>2. ASSUME NEW i \in 1..n, NEW j \in 1..n, t[i] = t[j] PROVE i = j
    <3>1. m + i = m + j
      BY <1>2, <1>4, <1>6, <2>2 DEF IsInjective
    <3> QED  BY <1>2, <3>1
  <2>3. ASSUME NEW i \in 1..m, NEW j \in 1..n PROVE s[i] # t[j]
    <3>1. u[i] = s[i] /\ u[m + j] = t[j] /\ i # m + j
      BY <1>2, <1>4
    <3> QED  BY <1>2, <1>3, <1>4, <1>6, <3>1 DEF IsInjective
  <2> QED  BY <1>2, <2>1, <2>2, <2>3 DEF IsInjective, ToSet
<1>7. ASSUME IsInjective(s), IsInjective(t), ToSet(s) \intersect ToSet(t) = {}
      PROVE  IsInjective(u)
  <2>1. ASSUME NEW i \in 1..(m + n), NEW j \in 1..(m + n), u[i] = u[j] PROVE i = j
    <3>1. CASE i \in 1..m /\ j \in 1..m
      BY <1>2, <1>7, <2>1, <3>1 DEF IsInjective
    <3>2. CASE i \notin 1..m /\ j \notin 1..m
      <4>1. PICK a \in 1..n, b \in 1..n : i = m + a /\ j = m + b /\ u[i] = t[a] /\ u[j] = t[b]
        BY <1>5, <3>2
      <4>2. a = b
        BY <1>2, <1>7, <2>1, <4>1 DEF IsInjective
      <4> QED  BY <4>1, <4>2
    <3>3. CASE i \in 1..m /\ j \notin 1..m
      <4>1. u[i] \in ToSet(s) /\ u[j] \in ToSet(t)
        BY <1>2, <1>5, <3>3 DEF ToSet
      <4> QED  BY <1>7, <2>1, <4>1
    <3>4. CASE i \notin 1..m /\ j \in 1..m
      <4>1. u[j] \in ToSet(s) /\ u[i] \in ToSet(t)
        BY <1>2, <1>5, <3>4 DEF ToSet
      <4> QED  BY <1>7, <2>1, <4>1
    <3> QED  BY <3>1, <3>2, <3>3, <3>4
  <2> QED  BY <1>2, <2>1 DEF IsInjective
<1> QED  BY <1>1, <1>6, <1>7
LEMMA OneMoreSet ==
  ASSUME NEW S, NEW s \in Seq(S), NEW x \in S
  PROVE  ToSet(Append(s, x)) = ToSet(s) \union {x}
<1>1. Append(s, x) = s \o <<x>> /\ ToSet(s \o <<x>>) = ToSet(s) \union {x}
  BY OneMore
<1> QED  BY <1>1
LEMMA OneMoreInjective ==
  ASSUME NEW S, NEW s \in Seq(S), NEW x \in S, IsInjective(s), x \notin ToSet(s)
  PROVE  IsInjective(Append(s, x))
<1>1. <<x>> \in Seq(S) /\ ToSet(<<x>>) = {x} /\ IsInjective(<<x>>) /\ Append(s, x) = s \o <<x>>
  BY AppendJoins
<1>2. PICK t \in Seq(S) : t = <<x>>
  BY <1>1
<1>3. IsInjective(t) /\ ToSet(s) \intersect ToSet(t) = {}
  BY <1>1, <1>2
<1>4. IsInjective(s \o t)
  BY <1>3, JoinedInjective
<1> QED  BY <1>1, <1>2, <1>4

\* A set of entries with one for each query counts one at most, and a list's
\* positions of a query as many as it has copies.
LEMMA CountOne ==
  ASSUME NEW T, \A a, b \in T : a = b
  PROVE  IsFiniteSet(T) /\ Cardinality(T) <= 1
<1>1. CASE T = {}
  BY <1>1, FS_EmptySet
<1>2. ASSUME NEW a \in T PROVE IsFiniteSet(T) /\ Cardinality(T) <= 1
  <2>1. T = {a}
    OBVIOUS
  <2>2. IsFiniteSet({a}) /\ Cardinality({a}) = 1
    BY FS_Singleton
  <2> QED  BY <2>1, <2>2
<1> QED  BY <1>1, <1>2
\* Of any three the same two: at most two.
LEMMA CountTwo ==
  ASSUME NEW T, \A a, b, c \in T : a = b \/ b = c \/ a = c
  PROVE  Cardinality(T) <= 2
<1>1. CASE T = {}
  BY <1>1, FS_EmptySet
<1>2. ASSUME NEW a \in T PROVE Cardinality(T) <= 2
  <2>1. \A b, c \in T \ {a} : b = c
    OBVIOUS
  <2>2. IsFiniteSet(T \ {a}) /\ Cardinality(T \ {a}) <= 1
    BY <2>1, CountOne
  <2>3. Cardinality(T \ {a}) \in Nat
    BY <2>2, FS_CardinalityType
  <2>4. Cardinality((T \ {a}) \cup {a}) = Cardinality(T \ {a}) + 1
    BY <2>2, FS_AddElement
  <2>5. (T \ {a}) \cup {a} = T
    OBVIOUS
  <2> QED  BY <2>2, <2>3, <2>4, <2>5
<1> QED  BY <1>1, <1>2

\* What load_into_cache puts into L2: each row of an organisation once, and
\* twice when it runs again.
LEMMA LoadedOnce ==
  ASSUME FabricAssumption, Shapes, OneEntry, Apart, NEW o \in Org, NEW rank \in RowOrders
  PROVE  /\ Loaded(o, rank) \in Seq(Entry)
         /\ ToSet(Loaded(o, rank)) = {e \in Rows : e.query \in Single /\ OrgOf[e.query] = o}
         /\ \A q : Once(Loaded(o, rank), q)
<1>1. PICK mine : mine = {e \in Rows : e.query \in Single /\ OrgOf[e.query] = o}
  OBVIOUS
<1>2. mine \subseteq Rows /\ mine \subseteq Entry
  BY <1>1 DEF Rows, Shapes
<1>3. IsFiniteSet(Rows)
  <2>1. PICK at : at = [e \in Rows |-> e.at]
    OBVIOUS
  <2>2. at \in Injection(Rows, 1..MaxClock)
    BY <2>1 DEF Rows, Apart, OnDisk, Shapes, Entry, Injection, IsInjective
  <2>3. IsFiniteSet(1..MaxClock)
    BY FS_Interval DEF FabricAssumption
  <2> QED  BY <2>2, <2>3, FS_Injection
<1>4. PICK n \in Nat : n = Cardinality(Rows)
  BY <1>3, FS_CardinalityType
<1>5. IsFiniteSet(mine) /\ \A e, f \in mine : (rank[e] = rank[f] => e = f) /\ rank[e] \in 1..n
  <2>1. \A e, f \in mine : (rank[e] = rank[f] => e = f) /\ rank[e] \in 1..n
    BY <1>2, <1>4 DEF RowOrders, Injection, IsInjective
  <2> QED  BY <1>2, <1>3, <2>1, FS_Subset
<1>6. PICK before : before = [e \in mine |-> {f \in mine : rank[f] < rank[e]}]
  OBVIOUS
<1>7. Orders(before)
  <2>1. DOMAIN before = mine /\ \A e \in mine : before[e] = {f \in mine : rank[f] < rank[e]}
    BY <1>6
  <2>2. \A e, f \in mine : e # f => rank[e] < rank[f] \/ rank[f] < rank[e]
    BY <1>5
  <2>3. \A e, f, g \in mine : rank[e] < rank[f] /\ rank[f] < rank[g] => rank[e] < rank[g]
    BY <1>5
  <2>4. \A e \in mine : ~(rank[e] < rank[e])
    BY <1>5
  <2>5. \A e \in mine : before[e] \subseteq mine \ {e}
    BY <2>1, <2>4
  <2>6. \A e, f \in mine : e # f => e \in before[f] \/ f \in before[e]
    BY <2>1, <2>2
  <2>7. \A e, f \in mine : e \in before[f] => before[e] \subseteq before[f]
    BY <2>1, <2>3
  <2> QED  BY <1>5, <2>1, <2>5, <2>6, <2>7 DEF Orders
<1>8. PICK list : list = [e \in mine |-> e]
  OBVIOUS
<1>9. DOMAIN before = mine /\ DOMAIN list = mine /\ \A e \in mine : list[e] = e
  BY <1>6, <1>8
<1>10. PICK out : out = Arrange(list, before)
  OBVIOUS
<1>11. out \in Seq(Entry)
  BY <1>2, <1>7, <1>9, <1>10, ArrangedSeq
<1>12. ToSet(out) = mine /\ Thins(out, list)
  <2>1. {list[e] : e \in mine} = mine
    BY <1>9
  <2>2. DOMAIN before \subseteq DOMAIN list
    BY <1>9
  <2> QED  BY <1>7, <1>9, <1>10, <2>1, <2>2, Arranged
<1>13. ASSUME NEW q PROVE Once(list, q)
  BY <1>2, <1>9 DEF Once, OneEntry, OneEach, Rows
<1>14. ASSUME NEW q PROVE Once(out, q)
  BY <1>12, <1>13, ThinnerCopies
<1>15. Loaded(o, rank) = out
  BY <1>1, <1>6, <1>8, <1>10 DEF Loaded
<1> QED  BY <1>1, <1>11, <1>12, <1>14, <1>15
\* A list of one entry a query, loaded over itself, holds each entry twice.
LEMMA DoubledList ==
  ASSUME NEW s \in Seq(Entry), NEW q, Once(s, q)
  PROVE  Twice(s \o s, q)
<1>1. PICK u, m : u = s \o s /\ m = Len(s)
  OBVIOUS
<1>2. /\ m \in Nat /\ DOMAIN s = 1..m /\ DOMAIN u = 1..(m + m)
      /\ \A i \in 1..m : u[i] = s[i]
      /\ \A i \in 1..m : u[m + i] = s[i]
  BY <1>1
<1>3. \A i \in (1..(m + m)) \ (1..m) : i - m \in 1..m /\ i = m + (i - m) /\ u[i] = s[i - m]
  <2>1. \A i \in (1..(m + m)) \ (1..m) : i - m \in 1..m /\ i = m + (i - m)
    BY <1>2
  <2> QED  BY <1>2, <2>1
<1>4. \A i, j \in 1..m : u[i].query = q /\ u[j].query = q => i = j
  BY <1>2 DEF Once
<1>5. ASSUME NEW i \in (1..(m + m)) \ (1..m), NEW j \in (1..(m + m)) \ (1..m),
             u[i].query = q, u[j].query = q
      PROVE  i = j
  <2>1. i - m = j - m
    BY <1>2, <1>3, <1>5 DEF Once
  <2> QED  BY <1>2, <2>1
<1>6. Twice(u, q)
  BY <1>2, <1>4, <1>5 DEF Twice
<1> QED  BY <1>1, <1>6
LEMMA DoubledSet ==
  ASSUME NEW s \in Seq(Entry)
  PROVE  s \o s \in Seq(Entry) /\ ToSet(s \o s) = ToSet(s)
<1>1. s \o s \in Seq(Entry)
  BY Joined
<1>2. ToSet(s \o s) = ToSet(s) \union ToSet(s)
  BY LastsOfBoth
<1> QED  BY <1>1, <1>2

----------------------------------------------------------------------------
(* What a step does *)

\* L2 after a step, list by list.
Thinned == l2' \in [Org -> Seq(Entry)] /\ \A o \in Org : Thins(l2'[o], l2[o])
\* A request looks, or ends with nothing to keep.
Looks ==
  /\ l1' \subseteq l1 /\ Thinned /\ talks' \subseteq talks
  /\ UNCHANGED <<disk, expired, history>>
  /\ \/ /\ UNCHANGED <<used, clock>>
        /\ \A o \in Org : \A e \in ToSet(l2[o]) : IsLive(e) => e \in ToSet(l2'[o])
     \/ Tick /\ \E e \in l1 \union Semantic : used' = Touched(e)
\* An answer is stored.
Stores(e) ==
  /\ Tick /\ e.at = clock + 1 /\ StoreBoth(e)
  /\ talks' \subseteq talks \union {e}
  /\ \/ /\ tasks' = Append(tasks, e) /\ UNCHANGED queue
        /\ crossed' = crossed \ {e.query}
     \/ /\ queue' = Append(queue, e) /\ UNCHANGED tasks
        /\ crossed' = IF Of(ToSet(tasks), e.query) = {}
                      THEN crossed \ {e.query} ELSE crossed \union {e.query}
  /\ UNCHANGED <<db, expired, deleted, escaped, restored>>
\* What is deleted leaves the memory.
Covers(gone) ==
  /\ Tick /\ l1' \subseteq l1 \ gone /\ ForgetL2(gone) /\ talks' \subseteq talks
  /\ DeleteRows(gone) \/ NotOnDisk(gone)
  /\ Forgotten(gone) /\ Elsewhere
Does ==
  \/ Looks \/ RunTask \/ Commit \/ Restart
  \/ \E e \in Entry : Stores(e)
  \/ \E e \in l1 \union Semantic \union db : Expire(e)
  \/ \E gone \in SUBSET Known : Covers(gone)

\* What lookup leaves of the list it searched.
LEMMA Searched ==
  ASSUME FabricAssumption, Shapes, NEW q \in Query
  PROVE  /\ Active(q) \in Seq(Entry)
         /\ q \in Single =>
              /\ Thins(Active(q), l2[OrgOf[q]])
              /\ ToSet(Active(q)) = {e \in ToSet(l2[OrgOf[q]]) : IsLive(e)}
         /\ q \notin Single => Active(q) = <<>>
<1>1. CASE q \in Single
  <2>1. PICK list, gone :
          /\ list = l2[OrgOf[q]] /\ gone = {e \in ToSet(list) : ~IsLive(e)}
          /\ list \in Seq(Entry)
    BY DEF FabricAssumption, Shapes
  <2>2. Active(q) = Without(list, gone)
    BY <1>1, <2>1 DEF Active
  <2>3. ToSet(list) \ gone = {e \in ToSet(list) : IsLive(e)}
    BY <2>1
  <2> QED  BY <1>1, <2>1, <2>2, <2>3, WithoutList
<1>2. CASE q \notin Single
  BY <1>2 DEF Active
<1> QED  BY <1>1, <1>2
\* A search leaves lists of entries, thinner than they were.
LEMMA SearchedLists ==
  ASSUME FabricAssumption, Shapes, NEW q \in Query, NEW list \in Seq(Entry),
         q \in Single => Thins(list, l2[OrgOf[q]])
  PROVE  /\ AfterSearch(q, list) \in [Org -> Seq(Entry)]
         /\ \A o \in Org : Thins(AfterSearch(q, list)[o], l2[o])
<1>1. l2 \in [Org -> Seq(Entry)] /\ OrgOf[q] \in Org
  BY DEF Shapes, FabricAssumption
<1> QED  BY <1>1, ThinsItself DEF AfterSearch

\* The step of a request that is not answered from the tiers.
LEMMA NotCachedLooks ==
  ASSUME FabricAssumption, Shapes, NEW q \in Query, NotCached(q),
         UNCHANGED <<disk, expired, history>>
  PROVE  Looks
<1>1. l1' \subseteq l1 /\ talks' \subseteq talks /\ UNCHANGED <<used, clock>>
  BY DEF NotCached, AfterGetExact
<1>2. l2' = AfterSearch(q, Active(q))
  BY DEF NotCached
<1>3. Thinned
  BY <1>2, Searched, SearchedLists DEF Thinned
<1>4. ASSUME NEW o \in Org, NEW e \in ToSet(l2[o]), IsLive(e) PROVE e \in ToSet(l2'[o])
  <2>1. l2 \in [Org -> Seq(Entry)] /\ OrgOf[q] \in Org
    BY DEF Shapes, FabricAssumption
  <2>2. CASE q \in Single /\ o = OrgOf[q]
    <3>1. l2'[o] = Active(q)
      BY <1>2, <2>1, <2>2 DEF AfterSearch
    <3> QED  BY <1>4, <2>2, <3>1, Searched
  <2>3. CASE ~(q \in Single /\ o = OrgOf[q])
    BY <1>2, <1>4, <2>1, <2>3 DEF AfterSearch
  <2> QED  BY <2>2, <2>3
<1> QED  BY <1>1, <1>3, <1>4 DEF Looks
\* A step that leaves tiers, disk and history alone.
LEMMA StandingLooks ==
  ASSUME Shapes, UNCHANGED <<memory, disk, expired, clock, history>>
  PROVE  Looks
<1>1. Thinned
  BY ThinsItself DEF Thinned, Shapes, memory
<1> QED  BY <1>1 DEF Looks, memory

\* A request that is looked up, hit or miss.
LEMMA LookupLooks ==
  ASSUME FabricAssumption, Shapes, Past, NEW c \in Caller, NEW q \in Query, Lookup(c, q)
  PROVE  Looks
<1>1. UNCHANGED <<disk, calls, expired, history>>
  BY DEF Lookup
<1>2. CASE HitExact(q)
  <2>1. PICK e \in GetExact(q) : used' = Touched(e)
    BY <1>2 DEF HitExact
  <2>2. e \in l1
    BY <2>1 DEF GetExact, Of
  <2>3. Thinned
    BY <1>2, ThinsItself DEF HitExact, Thinned, Shapes
  <2> QED  BY <1>1, <1>2, <2>1, <2>2, <2>3 DEF HitExact, Looks
<1>3. CASE HitSemantic(q)
  <2>1. PICK i \in Matches(q) :
          /\ used' = Touched(Active(q)[i])
          /\ l2' = AfterSearch(q, AddSemantic(Active(q), Active(q)[i], Touched(Active(q)[i])))
    BY <1>3 DEF HitSemantic
  <2>2. PICK list, e : list = Active(q) /\ e = list[i]
    OBVIOUS
  <2>3. i \in DOMAIN list /\ \A j \in 1..(i - 1) : list[j].query # e.query
    BY <2>1, <2>2 DEF Matches
  <2>4. list \in Seq(Entry)
    BY <2>2, Searched
  <2>5. q \in Single
    BY <2>2, <2>3, Searched
  <2>6. Thins(list, l2[OrgOf[q]]) /\ ToSet(list) \subseteq ToSet(l2[OrgOf[q]])
    BY <2>2, <2>5, Searched
  <2>7. e \in ToSet(list) /\ e \in Entry
    BY <2>2, <2>3, <2>4 DEF ToSet
  <2>8. e \in Semantic
    BY <2>6, <2>7 DEF Semantic, FabricAssumption
  <2>9. PICK stamps : stamps = Touched(e)
    OBVIOUS
  <2>10. stamps \in [1..MaxClock -> Nat]
    <3>1. clock + 1 \in Nat
      BY DEF Shapes
    <3>2. \A n \in 1..MaxClock : n \in Nat
      BY DEF FabricAssumption
    <3> QED  BY <2>9, <3>1, <3>2 DEF Touched, Shapes
  <2>11. PICK new : new = AddSemantic(list, e, stamps)
    OBVIOUS
  <2>12. new \in Seq(Entry) /\ Thins(new, list)
    BY <2>2, <2>3, <2>4, <2>10, <2>11, AddedAgain
  <2>13. Thins(new, l2[OrgOf[q]])
    BY <2>6, <2>12, ThinnerThins
  <2>14. l2' = AfterSearch(q, new)
    BY <2>1, <2>2, <2>9, <2>11
  <2>15. Thinned
    BY <2>12, <2>13, <2>14, SearchedLists DEF Thinned
  <2>16. l1' \subseteq l1 /\ UNCHANGED talks /\ Tick
    BY <1>3 DEF HitSemantic, AfterGetExact
  <2> QED  BY <1>1, <2>1, <2>2, <2>8, <2>15, <2>16 DEF Looks
<1>4. CASE HitTalk(q)
  BY <1>1, <1>4, NotCachedLooks DEF HitTalk
<1> QED  BY <1>2, <1>3, <1>4 DEF Lookup
\* A request that goes upstream.
LEMMA GoUpstreamLooks ==
  ASSUME FabricAssumption, Shapes, NEW c \in Caller, NEW q \in Query, GoUpstream(c, q)
  PROVE  Looks
<1>1. UNCHANGED <<disk, expired, history>>
  BY DEF GoUpstream
<1>2. CASE NotCached(q)
  BY <1>1, <1>2, NotCachedLooks
<1>3. CASE UNCHANGED <<memory, clock>>
  BY <1>1, <1>3, StandingLooks
<1> QED  BY <1>2, <1>3 DEF GoUpstream

\* An answer that is kept is stored in both tiers and as a task.
LEMMA KeepStores ==
  ASSUME FabricAssumption, Shapes, NEW q \in Query, Keep(q)
  PROVE  \E e \in Entry : Stores(e)
<1>7. PICK t \in Tags(q) :
        LET e == [query |-> q, tag |-> t, at |-> clock + 1] IN
        StoreBoth(e) /\ tasks' = Append(tasks, e) /\ talks' = InsertTalk(e)
  BY DEF Keep
<1>1. PICK e :
        /\ e = [query |-> q, tag |-> t, at |-> clock + 1]
        /\ StoreBoth(e) /\ tasks' = Append(tasks, e) /\ talks' = InsertTalk(e)
  BY <1>7
<1>2. Tick /\ crossed' = crossed \ {q}
      /\ UNCHANGED <<queue, db, expired, deleted, escaped, restored>>
  BY DEF Keep
<1>3. t \in Tag \union {NoTag}
  BY DEF Tags
<1>4. clock + 1 \in 1..MaxClock
  BY <1>2 DEF Tick, Shapes, FabricAssumption
<1>5. e \in Entry
  BY <1>1, <1>3, <1>4 DEF Entry
<1>6. talks' \subseteq talks \union {e}
  BY <1>1 DEF InsertTalk
<1> QED  BY <1>1, <1>2, <1>5, <1>6 DEF Stores
\* A store by the MCP tool is a store.
LEMMA McpStoreStores ==
  ASSUME FabricAssumption, Shapes, NEW q \in Query, NEW t \in Tag \union {NoTag}, McpStore(q, t)
  PROVE  \E e \in Entry : Stores(e)
<1>1. PICK e : e = [query |-> q, tag |-> t, at |-> clock + 1]
  OBVIOUS
<1>2. Tick
  BY DEF McpStore
<1>3. clock + 1 \in 1..MaxClock
  BY <1>2 DEF Tick, Shapes, FabricAssumption
<1>4. e \in Entry
  BY <1>1, <1>3 DEF Entry
<1> QED  BY <1>1, <1>2, <1>4 DEF McpStore, Stores

\* A delete forgets what it covers in every list.
LEMMA Forgets ==
  ASSUME Shapes, NEW gone, ForgetL2(gone)
  PROVE  Thinned /\ \A o \in Org : ToSet(l2'[o]) = ToSet(l2[o]) \ gone
<1>1. ASSUME NEW o \in Org
      PROVE  /\ l2'[o] \in Seq(Entry) /\ Thins(l2'[o], l2[o])
             /\ ToSet(l2'[o]) = ToSet(l2[o]) \ gone
  <2>1. PICK list \in Seq(Entry) : list = l2[o]
    BY DEF Shapes
  <2>2. l2'[o] = Without(list, gone)
    BY <2>1 DEF ForgetL2
  <2> QED  BY <2>1, <2>2, WithoutList
<1>2. l2' = [o \in Org |-> l2'[o]]
  BY DEF ForgetL2
<1> QED  BY <1>1, <1>2 DEF Thinned

\* Every step is of one of these kinds.
LEMMA EveryStep ==
  ASSUME FabricAssumption, Shapes, Past, [Next]_vars
  PROVE  Does
<1>1. CASE \E c \in Caller, q \in Query :
             ChatHit(c, q) \/ MessagesHit(c, q) \/ ChatMiss(c, q) \/ MessagesMiss(c, q)
  BY <1>1, LookupLooks, GoUpstreamLooks DEF ChatHit, MessagesHit, ChatMiss, MessagesMiss, Does
<1>2. ASSUME NEW c \in Caller, EndFlight(c) \/ EndStream(c) PROVE Does
  <2>1. calls[c] \in Call
    BY DEF Shapes
  <2>2. calls[c].query \in Query
    <3>1. calls[c].state \in {"fetch", "stream"}
      BY <1>2 DEF EndFlight, EndStream
    <3>2. calls[c] # Idle
      BY <3>1 DEF Idle
    <3> QED  BY <2>1, <3>2 DEF Call
  <2>3. Keep(calls[c].query) \/ Discard
    BY <1>2 DEF EndFlight, EndStream
  <2>4. CASE Keep(calls[c].query)
    BY <2>2, <2>4, KeepStores DEF Does
  <2>5. CASE Discard
    BY <2>5, StandingLooks DEF Discard, Does
  <2> QED  BY <2>3, <2>4, <2>5
<1>3. CASE \E c \in Caller :
             \/ ChatDone(c) \/ MessagesDone(c) \/ Promote(c)
             \/ ChatStreamDone(c) \/ MessagesStreamDone(c)
  <2>1. ASSUME NEW c \in Caller, Promote(c) PROVE Does
    BY <2>1, StandingLooks DEF Promote, Does
  <2> QED  BY <1>2, <1>3, <2>1
             DEF ChatDone, MessagesDone, ChatStreamDone, MessagesStreamDone
<1>4. CASE \E q \in Query, t \in Tag \union {NoTag} : McpStore(q, t)
  BY <1>4, McpStoreStores DEF Does
<1>5. CASE RunTask \/ Commit \/ Restart
  BY <1>5 DEF Does
<1>6. CASE \E e \in l1 \union Semantic \union db : Expire(e)
  BY <1>6 DEF Does
<1>7. CASE \E o \in Org \union {"every"} :
             \/ Purge(o)
             \/ \E t \in Tag : InvalidateTag(t, o)
             \/ \E q \in Query : DeleteEntry(q, o)
  <2>1. PICK o \in Org \union {"every"} :
          \/ Purge(o)
          \/ \E t \in Tag : InvalidateTag(t, o)
          \/ \E q \in Query : DeleteEntry(q, o)
    BY <1>7
  <2>2. CASE Purge(o)
    <3>1. PICK gone \in SUBSET Known : gone = {e \in Known : Scoped(o, e.query)}
      OBVIOUS
    <3>2. Covers(gone)
      BY <2>2, <3>1 DEF Purge, Covers
    <3> QED  BY <3>2 DEF Does
  <2>3. ASSUME NEW t \in Tag, InvalidateTag(t, o) PROVE Does
    <3>1. PICK gone \in SUBSET Known : gone = {e \in Known : e.tag = t /\ Scoped(o, e.query)}
      OBVIOUS
    <3>2. Covers(gone)
      BY <2>3, <3>1 DEF InvalidateTag, Covers
    <3> QED  BY <3>2 DEF Does
  <2>4. ASSUME NEW q \in Query, DeleteEntry(q, o) PROVE Does
    <3>1. PICK gone : gone = {e \in Of(Known, q) : Scoped(o, q)}
      OBVIOUS
    <3>2. gone \in SUBSET Known /\ l1 \ Of(l1, q) \subseteq l1 \ gone
      BY <3>1 DEF Of
    <3>3. Covers(gone)
      BY <2>4, <3>1, <3>2 DEF DeleteEntry, Covers
    <3> QED  BY <3>2, <3>3 DEF Does
  <2> QED  BY <2>1, <2>2, <2>3, <2>4
<1>8. CASE Tombstone
  <2>1. CASE TombstoneAll
    <3>1. Covers(Known)
      BY <2>1 DEF TombstoneAll, Covers
    <3> QED  BY <3>1 DEF Does
  <2>2. ASSUME NEW gone \in SUBSET Known, TombstoneSome(gone) PROVE Does
    <3>1. Covers(gone)
      BY <2>2 DEF TombstoneSome, Covers
    <3> QED  BY <3>1 DEF Does
  <2>3. ASSUME NEW t \in Tag, TombstoneSome({e \in Known : e.tag = t}) PROVE Does
    <3>1. {e \in Known : e.tag = t} \in SUBSET Known
      OBVIOUS
    <3> QED  BY <2>2, <2>3, <3>1
  <2>4. ASSUME NEW q \in Query, TombstoneSome(Of(Known, q)) PROVE Does
    <3>1. Of(Known, q) \in SUBSET Known
      BY DEF Of
    <3> QED  BY <2>2, <2>4, <3>1
  <2> QED  BY <1>8, <2>1, <2>3, <2>4 DEF Tombstone
<1>9. CASE UNCHANGED vars
  BY <1>9, StandingLooks DEF vars, memory, disk, history, Does
<1> QED  BY <1>1, <1>3, <1>4, <1>5, <1>6, <1>7, <1>8, <1>9 DEF Next

\* Whatever it does, the requests under way keep their type.
LEMMA CallsTyped ==
  ASSUME FabricAssumption, Shapes, [Next]_vars
  PROVE  calls' \in [Caller -> Call]
<1>1. calls \in [Caller -> Call] /\ Idle \in Call
  BY DEF Shapes, Call
<1>2. ASSUME NEW c \in Caller, NEW q \in Query,
             ChatHit(c, q) \/ MessagesHit(c, q) \/ ChatMiss(c, q) \/ MessagesMiss(c, q)
      PROVE  calls' \in [Caller -> Call]
  <2>1. CASE Lookup(c, q)
    BY <1>1, <2>1 DEF Lookup
  <2>2. CASE GoUpstream(c, q)
    <3>1. PICK s \in {"fetch", "wait", "stream"} :
            calls' = [calls EXCEPT ![c] = [state |-> s, query |-> q]]
      BY <2>2 DEF GoUpstream
    <3>2. [state |-> s, query |-> q] \in Call
      BY DEF Call
    <3> QED  BY <1>1, <3>1, <3>2
  <2> QED  BY <1>2, <2>1, <2>2 DEF ChatHit, MessagesHit, ChatMiss, MessagesMiss
<1>3. ASSUME NEW c \in Caller,
             \/ ChatDone(c) \/ MessagesDone(c) \/ Promote(c)
             \/ ChatStreamDone(c) \/ MessagesStreamDone(c)
      PROVE  calls' \in [Caller -> Call]
  <2>1. CASE EndFlight(c)
    BY <1>1, <2>1 DEF EndFlight
  <2>2. CASE EndStream(c)
    BY <1>1, <2>2 DEF EndStream
  <2>3. CASE Promote(c)
    <3>1. PICK was \in Call : was = calls[c] /\ was.state = "wait"
      BY <1>1, <2>3 DEF Promote
    <3>2. was \in [state : {"fetch", "wait", "stream"}, query : Query]
      BY <3>1 DEF Call, Idle
    <3>3. [was EXCEPT !.state = "fetch"] \in Call
      BY <3>2 DEF Call
    <3>4. calls' = [calls EXCEPT ![c] = [was EXCEPT !.state = "fetch"]]
      BY <2>3, <3>1 DEF Promote
    <3> QED  BY <1>1, <3>3, <3>4
  <2> QED  BY <1>3, <2>1, <2>2, <2>3
             DEF ChatDone, MessagesDone, ChatStreamDone, MessagesStreamDone
<1>4. CASE Restart
  BY <1>1, <1>4 DEF Restart
<1>5. CASE \/ \E q \in Query, t \in Tag \union {NoTag} : McpStore(q, t)
           \/ RunTask \/ Commit \/ UNCHANGED vars
           \/ \E e \in l1 \union Semantic \union db : Expire(e)
  BY <1>1, <1>5 DEF McpStore, RunTask, Commit, Expire, vars
<1>6. CASE \/ \E o \in Org \union {"every"} :
                \/ Purge(o)
                \/ \E t \in Tag : InvalidateTag(t, o)
                \/ \E q \in Query : DeleteEntry(q, o)
           \/ Tombstone
  <2>1. UNCHANGED calls
    BY <1>6 DEF Purge, InvalidateTag, DeleteEntry, Tombstone, TombstoneAll, TombstoneSome, Elsewhere
  <2> QED  BY <1>1, <2>1
<1> QED  BY <1>2, <1>3, <1>4, <1>5, <1>6 DEF Next

\* What a store does to the tiers: the new entry is in both, after all others.
LEMMA Stored ==
  ASSUME FabricAssumption, Shapes, Past, NEW e \in Entry, Stores(e)
  PROVE  /\ l1' = Put(l1, e) /\ l2' \in [Org -> Seq(Entry)]
         /\ \A o \in Org :
              /\ ToSet(l2'[o]) \subseteq ToSet(l2[o]) \union {e}
              /\ e \in ToSet(l2'[o]) => e \in ToSet(l2[o]) \/ (e.query \in Single /\ o = OrgOf[e.query])
              /\ \A q : (Once(l2[o], q) => Once(l2'[o], q)) /\ (Twice(l2[o], q) => Twice(l2'[o], q))
         /\ e.query \in Single =>
              /\ e \in ToSet(l2'[OrgOf[e.query]])
              /\ Once(l2[OrgOf[e.query]], e.query) =>
                   \A x \in ToSet(l2'[OrgOf[e.query]]) : x.query = e.query => x = e
<1>1. /\ l1' = Put(l1, e) /\ e.at = clock + 1
      /\ l2' = IF e.query \in Single
               THEN [l2 EXCEPT ![OrgOf[e.query]] = AddSemantic(@, e, used)] ELSE l2
  BY DEF Stores, StoreBoth
<1>2. l2 \in [Org -> Seq(Entry)]
  BY DEF Shapes
<1>3. CASE e.query \notin Single
  BY <1>1, <1>2, <1>3
<1>4. CASE e.query \in Single
  <2>1. PICK o \in Org : o = OrgOf[e.query]
    BY DEF Entry, FabricAssumption
  <2>2. PICK list \in Seq(Entry) : list = l2[o]
    BY <1>2
  <2>3. used \in [1..MaxClock -> Nat]
    <3>1. \A n \in 1..MaxClock : n \in Nat
      BY DEF FabricAssumption
    <3> QED  BY <3>1 DEF Shapes
  <2>4. PICK t : t = AddSemantic(list, e, used)
    OBVIOUS
  <2>5. /\ t \in Seq(Entry) /\ ToSet(t) \subseteq ToSet(list) \union {e}
        /\ \A q : (Once(list, q) => Once(t, q)) /\ (Twice(list, q) => Twice(t, q))
        /\ Once(list, e.query) => \A x \in ToSet(t) : x.query = e.query => x = e
    BY <2>3, <2>4, AddedList
  <2>6. e \in ToSet(t)
    <3>1. ASSUME NEW x \in ToSet(list) PROVE used[x.at] < used[e.at]
      <4>1. x \in Semantic /\ x \in Entry
        BY <2>1, <2>2 DEF Semantic, ToSet
      <4>2. x.at \in 1..MaxClock /\ e.at \in 1..MaxClock /\ x.at <= clock /\ clock \in Nat
        BY <4>1 DEF Entry, Past, Shapes
      <4>3. used[x.at] <= clock /\ used[e.at] = e.at
        BY <1>1, <4>2 DEF Past
      <4> QED  BY <1>1, <2>3, <4>2, <4>3
    <3> QED  BY <2>3, <2>4, <3>1, AddedStays
  <2>7. l2' = [l2 EXCEPT ![o] = t]
    BY <1>1, <1>4, <2>1, <2>2, <2>4
  <2>8. l2' \in [Org -> Seq(Entry)] /\ l2'[o] = t /\ \A p \in Org \ {o} : l2'[p] = l2[p]
    BY <1>2, <2>5, <2>7
  <2> QED  BY <1>1, <1>4, <2>1, <2>2, <2>5, <2>6, <2>8
<1> QED  BY <1>3, <1>4

\* The rows and the writes that wait after DeleteRows.
LEMMA RowsDeleted ==
  ASSUME Shapes, NEW gone, DeleteRows(gone)
  PROVE  \E s \in Seq(Entry), t \in Seq(Entry) :
           /\ queue = s \o t /\ queue' = t /\ tasks' = tasks
           /\ db' = Written(db, s) \ gone
           /\ escaped' = escaped \union ((ToSet(t) \union ToSet(tasks)) \intersect gone)
<1>1. PICK n \in 0..Len(queue) :
        LET left == SubSeq(queue, n + 1, Len(queue)) IN
        /\ db' = Written(db, SubSeq(queue, 1, n)) \ gone
        /\ queue' = left /\ UNCHANGED tasks
        /\ escaped' = escaped \union ((ToSet(left) \union ToSet(tasks)) \intersect gone)
  BY DEF DeleteRows
<1>2. queue \in Seq(Entry)
  BY DEF Shapes
<1> QED  BY <1>1, <1>2, FrontAndRest

\* Nothing comes to the disk but what is stored.
LEMMA DiskMoves ==
  ASSUME Shapes, Does
  PROVE  /\ \/ OnDisk' \subseteq OnDisk
            \/ \E e \in Entry : Stores(e) /\ OnDisk' = OnDisk \union {e}
         /\ db' \subseteq Entry /\ tasks' \in Seq(Entry) /\ queue' \in Seq(Entry)
         /\ OneEach(db) => OneEach(db')
<1>1. queue \in Seq(Entry) /\ tasks \in Seq(Entry) /\ db \subseteq Entry
  BY DEF Shapes
<1>2. CASE UNCHANGED disk
  BY <1>1, <1>2 DEF disk, OnDisk, InTransit
<1>3. CASE RunTask
  <2>1. PICK h \in Entry, t \in Seq(Entry) : h = Head(tasks) /\ t = Tail(tasks) /\ tasks = <<h>> \o t
    BY <1>1, <1>3, HeadAndTail DEF RunTask
  <2>4. /\ Append(queue, h) = queue \o <<h>> /\ queue \o <<h>> \in Seq(Entry)
        /\ ToSet(queue \o <<h>>) = ToSet(queue) \union {h}
    BY <1>1, <2>1, OneMore
  <2>5. ToSet(<<h>> \o t) = ToSet(t) \union {h}
    BY OneMore
  <2>2. queue' = queue \o <<h>> /\ tasks' = t /\ UNCHANGED db /\ queue' \in Seq(Entry)
    BY <1>3, <2>1, <2>4 DEF RunTask
  <2>3. ToSet(queue') = ToSet(queue) \union {h} /\ ToSet(tasks) = {h} \union ToSet(t)
    BY <2>1, <2>2, <2>4, <2>5
  <2> QED  BY <1>1, <2>1, <2>2, <2>3 DEF OnDisk, InTransit
<1>4. CASE Commit
  <2>1. PICK h \in Entry, t \in Seq(Entry) : h = Head(queue) /\ t = Tail(queue) /\ queue = <<h>> \o t
    BY <1>1, <1>4, HeadAndTail DEF Commit
  <2>2. queue' = t /\ db' = Put(db, h) /\ UNCHANGED tasks
    BY <1>4, <2>1 DEF Commit
  <2>4. ToSet(<<h>> \o t) = ToSet(t) \union {h}
    BY OneMore
  <2>3. ToSet(queue) = {h} \union ToSet(t)
    BY <2>1, <2>4
  <2> QED  BY <1>1, <2>1, <2>2, <2>3 DEF OnDisk, InTransit, Put, Of, OneEach
<1>5. CASE Restart
  <2>1. ToSet(<<>>) = {}
    BY DEF ToSet
  <2> QED  BY <1>1, <1>5, <2>1 DEF Restart, OnDisk, InTransit
<1>6. ASSUME NEW e \in Entry, Stores(e)
      PROVE  /\ OnDisk' = OnDisk \union {e}
             /\ db' = db /\ tasks' \in Seq(Entry) /\ queue' \in Seq(Entry)
  <2>1. db' = db
    BY <1>6 DEF Stores
  <2>4. Append(tasks, e) = tasks \o <<e>> /\ Append(queue, e) = queue \o <<e>>
    BY <1>1, OneMore
  <2>2. \/ tasks' = tasks \o <<e>> /\ queue' = queue
        \/ queue' = queue \o <<e>> /\ tasks' = tasks
    BY <1>6, <2>4 DEF Stores
  <2>3. \A s \in Seq(Entry) : s \o <<e>> \in Seq(Entry) /\ ToSet(s \o <<e>>) = ToSet(s) \union {e}
    BY OneMore
  <2> QED  BY <1>1, <2>1, <2>2, <2>3 DEF OnDisk, InTransit
<1>7. ASSUME NEW gone, DeleteRows(gone)
      PROVE  /\ OnDisk' \subseteq OnDisk
             /\ db' \subseteq Entry /\ tasks' \in Seq(Entry) /\ queue' \in Seq(Entry)
             /\ OneEach(db) => OneEach(db')
  <2>1. PICK s \in Seq(Entry), t \in Seq(Entry) :
          /\ queue = s \o t /\ queue' = t /\ tasks' = tasks /\ db' = Written(db, s) \ gone
    BY <1>7, RowsDeleted
  <2>2. ToSet(queue) = ToSet(s) \union ToSet(t)
    BY <2>1, LastsOfBoth
  <2>3. Written(db, s) \subseteq db \union ToSet(s) /\ (OneEach(db) => OneEach(Written(db, s)))
    BY WrittenRows
  <2>4. ToSet(s) \subseteq Entry
    BY DEF ToSet
  <2> QED  BY <1>1, <2>1, <2>2, <2>3, <2>4 DEF OnDisk, InTransit, OneEach
<1>8. CASE Looks \/ \E e \in l1 \union Semantic \union db : Expire(e)
  BY <1>2, <1>8 DEF Looks, Expire
<1>9. ASSUME NEW gone \in SUBSET Known, Covers(gone)
      PROVE  DeleteRows(gone) \/ UNCHANGED disk
  BY <1>9 DEF Covers, NotOnDisk
<1> QED  BY <1>1, <1>2, <1>3, <1>4, <1>5, <1>6, <1>7, <1>8, <1>9 DEF Does

----------------------------------------------------------------------------
(* The invariant is inductive *)

\* A start reads the rows into both tiers, into L2 twice.
LEMMA RestartLists ==
  ASSUME FabricAssumption, Shapes, OneEntry, Apart, Restart
  PROVE  /\ l1' \subseteq db /\ l2' \in [Org -> Seq(Entry)]
         /\ \A o \in Org :
              /\ ToSet(l2'[o]) = {e \in Rows : e.query \in Single /\ OrgOf[e.query] = o}
              /\ \A q : Twice(l2'[o], q)
<1>1. PICK rank \in RowOrders :
        l1' \subseteq db /\ l2' = [o \in Org |-> Loaded(o, rank) \o Loaded(o, rank)]
  BY DEF Restart, Rows
<1>2. ASSUME NEW o \in Org
      PROVE  /\ l2'[o] \in Seq(Entry)
             /\ ToSet(l2'[o]) = {e \in Rows : e.query \in Single /\ OrgOf[e.query] = o}
             /\ \A q : Twice(l2'[o], q)
  <2>1. /\ Loaded(o, rank) \in Seq(Entry)
        /\ ToSet(Loaded(o, rank)) = {e \in Rows : e.query \in Single /\ OrgOf[e.query] = o}
        /\ \A q : Once(Loaded(o, rank), q)
    BY LoadedOnce
  <2>2. PICK s \in Seq(Entry) : s = Loaded(o, rank) /\ (\A q : Once(s, q)) /\ l2'[o] = s \o s
    BY <1>1, <2>1
  <2>3. s \o s \in Seq(Entry) /\ ToSet(s \o s) = ToSet(s) /\ \A q : Twice(s \o s, q)
    BY <2>2, DoubledList, DoubledSet
  <2> QED  BY <2>1, <2>2, <2>3
<1>3. l2' = [o \in Org |-> l2'[o]]
  BY <1>1
<1> QED  BY <1>1, <1>2, <1>3

\* Where the entries of a step come from.
LEMMA TiersMove ==
  ASSUME FabricAssumption, Shapes, OneEntry, Past, Apart, Does
  PROVE  /\ l1' \subseteq Entry /\ OneEach(l1')
         /\ l2' \in [Org -> Seq(Entry)]
         /\ \/ /\ l1' \subseteq l1 /\ Thinned
            \/ /\ l1' \subseteq db /\ Restart
               /\ \A o \in Org :
                    /\ ToSet(l2'[o]) \subseteq {e \in db : e.query \in Single /\ OrgOf[e.query] = o}
                    /\ \A q : Twice(l2'[o], q)
            \/ \E e \in Entry : Stores(e)
<1>1. l1 \subseteq Entry /\ OneEach(l1) /\ db \subseteq Entry /\ OneEach(db)
      /\ l2 \in [Org -> Seq(Entry)]
  BY DEF Shapes, OneEntry
<1>2. CASE l1' \subseteq l1 /\ Thinned
  BY <1>1, <1>2 DEF Thinned, OneEach
<1>3. CASE Looks
  BY <1>2, <1>3 DEF Looks
<1>4. CASE RunTask \/ Commit \/ \E e \in l1 \union Semantic \union db : Expire(e)
  <2>1. UNCHANGED <<l1, l2>>
    BY <1>4 DEF RunTask, Commit, Expire, memory
  <2> QED  BY <1>1, <1>2, <2>1, ThinsItself DEF Thinned
<1>5. ASSUME NEW gone \in SUBSET Known, Covers(gone)
      PROVE  l1' \subseteq l1 /\ Thinned
  BY <1>5, Forgets DEF Covers
<1>6. ASSUME NEW e \in Entry, Stores(e)
      PROVE  l1' \subseteq Entry /\ OneEach(l1') /\ l2' \in [Org -> Seq(Entry)]
  BY <1>1, <1>6, Stored DEF Put, Of, OneEach
<1>7. CASE Restart
  BY <1>1, <1>7, RestartLists DEF OneEach, Rows
<1> QED  BY <1>2, <1>3, <1>4, <1>5, <1>6, <1>7 DEF Does

\* What is in L2 then.
LEMMA SemanticMoves ==
  ASSUME FabricAssumption, Shapes, OneEntry, Past, Apart, Does
  PROVE  \/ l1' \subseteq l1 /\ Semantic' \subseteq Semantic
         \/ l1' \subseteq db /\ Semantic' \subseteq db
         \/ \E e \in Entry : /\ Stores(e) /\ l1' \subseteq l1 \union {e}
                             /\ Semantic' \subseteq Semantic \union {e}
<1>1. CASE l1' \subseteq l1 /\ Thinned
  <2>1. \A o \in Org : ToSet(l2'[o]) \subseteq ToSet(l2[o])
    BY <1>1, ThinnerSet DEF Thinned
  <2> QED  BY <1>1, <2>1 DEF Semantic
<1>2. CASE l1' \subseteq db /\ \A o \in Org :
             ToSet(l2'[o]) \subseteq {e \in db : e.query \in Single /\ OrgOf[e.query] = o}
  BY <1>2 DEF Semantic
<1>3. ASSUME NEW e \in Entry, Stores(e)
      PROVE  l1' \subseteq l1 \union {e} /\ Semantic' \subseteq Semantic \union {e}
  <2>1. l1' = Put(l1, e) /\ \A o \in Org : ToSet(l2'[o]) \subseteq ToSet(l2[o]) \union {e}
    BY <1>3, Stored
  <2>2. Semantic' = UNION {ToSet(l2'[o]) : o \in Org}
    BY DEF Semantic
  <2>3. \A x \in Semantic' : \E o \in Org : x \in ToSet(l2'[o])
    BY <2>2
  <2>4. \A x : (\E o \in Org : x \in ToSet(l2[o])) => x \in Semantic
    BY DEF Semantic
  <2> QED  BY <2>1, <2>3, <2>4 DEF Put, Of
<1> QED  BY <1>1, <1>2, <1>3, TiersMove

\* Nothing is stamped later than the clock.
LEMMA PastNext ==
  ASSUME FabricAssumption, Shapes, OneEntry, Past, Apart, Does
  PROVE  /\ Past' /\ used' \in [1..MaxClock -> 1..MaxClock]
         /\ clock' \in 0..MaxClock /\ expired' \subseteq 1..MaxClock
         /\ talks' \subseteq Entry /\ deleted' \subseteq Entry /\ escaped' \subseteq Entry
<1> DEFINE All == l1 \union Semantic \union talks \union OnDisk \union deleted
<1>1. /\ MaxClock \in Nat /\ clock \in 0..MaxClock
      /\ used \in [1..MaxClock -> 1..MaxClock] /\ expired \subseteq 1..MaxClock
  BY DEF Shapes, FabricAssumption
<1>2. All \subseteq Entry /\ l1 \union Semantic \union db \subseteq Entry /\ Known \subseteq Entry
      /\ escaped \subseteq Entry /\ InTransit \subseteq Entry
  <2>1. ToSet(tasks) \subseteq Entry /\ ToSet(queue) \subseteq Entry
    BY DEF Shapes, ToSet
  <2>2. \A o \in Org : ToSet(l2[o]) \subseteq Entry
    BY DEF Shapes, ToSet
  <2>3. Semantic \subseteq Entry
    BY <2>2 DEF Semantic
  <2> QED  BY <2>1, <2>3 DEF Shapes, OnDisk, InTransit, Known
<1>3. \A e \in All : e.at \in 1..MaxClock /\ e.at <= clock
  BY <1>2 DEF Past, Entry
<1>4. Known \subseteq All
  BY DEF Known, OnDisk
<1>5. \/ clock' = clock /\ used' = used /\ expired' = expired
      \/ Tick
  BY DEF Does, Looks, RunTask, Commit, Restart, Expire, Stores, Covers, memory
<1>6. Tick => clock' = clock + 1 /\ clock' \in 0..MaxClock
  BY <1>1 DEF Tick
<1>7. clock <= clock' /\ clock' \in 0..MaxClock
  BY <1>1, <1>5, <1>6
<1>8. /\ used' \in [1..MaxClock -> 1..MaxClock]
      /\ \A n \in 1..MaxClock : IF n > clock' THEN used'[n] = n ELSE used'[n] <= clock'
  <2>5. \A n \in 1..MaxClock : IF n > clock THEN used[n] = n ELSE used[n] <= clock
    BY DEF Past
  <2>1. CASE used' = used
    <3>1. clock' \in {clock, clock + 1}
      BY <1>5, <1>6
    <3> QED  BY <1>1, <2>1, <2>5, <3>1
  <2>2. ASSUME Tick, NEW e \in All, used' = Touched(e)
        PROVE  /\ used' \in [1..MaxClock -> 1..MaxClock]
               /\ \A n \in 1..MaxClock : IF n > clock' THEN used'[n] = n ELSE used'[n] <= clock'
    <3>1. e.at \in 1..MaxClock /\ e.at <= clock /\ clock' = clock + 1 /\ clock + 1 \in 1..MaxClock
      BY <1>1, <1>3, <1>6, <2>2
    <3>2. used' = [used EXCEPT ![e.at] = clock + 1]
      BY <2>2 DEF Touched
    <3> QED  BY <1>1, <2>5, <3>1, <3>2
  <2>3. CASE Tick /\ used' = [n \in 1..MaxClock |-> n]
    BY <1>1, <1>6, <2>3
  <2>4. \/ used' = used
        \/ Tick /\ \E e \in All : used' = Touched(e)
        \/ Tick /\ used' = [n \in 1..MaxClock |-> n]
    BY DEF Does, Looks, RunTask, Commit, Restart, Expire, Stores, StoreBoth, Covers,
           Elsewhere, memory
  <2> QED  BY <2>1, <2>2, <2>3, <2>4
<1>9. /\ expired' \subseteq 1..MaxClock /\ \A n \in expired' : n < clock'
  <2>1. CASE expired' = expired
    BY <1>1, <1>7, <2>1 DEF Past
  <2>2. ASSUME NEW e \in l1 \union Semantic \union db, Expire(e)
        PROVE  expired' \subseteq 1..MaxClock /\ \A n \in expired' : n < clock'
    <3>1. e.at \in 1..MaxClock /\ e.at <= clock
      BY <1>3 DEF OnDisk
    <3>2. expired' = expired \union {e.at} /\ clock' = clock + 1
      BY <2>2 DEF Expire, Tick
    <3>3. \A n \in expired : n < clock /\ n \in 1..MaxClock
      BY <1>1 DEF Past
    <3>4. \A n \in expired' : n \in 1..MaxClock /\ n <= clock
      BY <1>1, <3>1, <3>2, <3>3
    <3>5. clock' = clock + 1 /\ clock \in Nat
      BY <1>1, <3>2
    <3>6. \A n \in 1..MaxClock : n <= clock => n < clock'
      BY <1>1, <3>5
    <3> QED  BY <3>4, <3>6
  <2>3. UNCHANGED expired \/ \E e \in l1 \union Semantic \union db : Expire(e)
    BY DEF Does, Looks, RunTask, Commit, Restart, Stores, Covers, Elsewhere
  <2> QED  BY <2>1, <2>2, <2>3
<1>10. /\ talks' \subseteq Entry
       /\ \/ talks' \subseteq talks
          \/ \E e \in Entry : Stores(e) /\ talks' \subseteq talks \union {e}
  <2>1. talks \subseteq Entry
    BY DEF Shapes
  <2>2. \/ talks' \subseteq talks
        \/ \E e \in Entry : Stores(e) /\ talks' \subseteq talks \union {e}
    BY DEF Does, Looks, RunTask, Commit, Restart, Expire, Stores, Covers, memory
  <2> QED  BY <2>1, <2>2
<1>11. deleted' \subseteq deleted \union Known
  BY DEF Does, Looks, RunTask, Commit, Restart, Expire, Stores, Covers, Forgotten, history
<1>12. escaped' \subseteq escaped \union OnDisk
  <2>1. ASSUME NEW gone, DeleteRows(gone) PROVE escaped' \subseteq escaped \union OnDisk
    <3>1. PICK s \in Seq(Entry), t \in Seq(Entry) :
            /\ queue = s \o t
            /\ escaped' = escaped \union ((ToSet(t) \union ToSet(tasks)) \intersect gone)
      BY <2>1, RowsDeleted
    <3>2. ToSet(queue) = ToSet(s) \union ToSet(t)
      BY <3>1, LastsOfBoth
    <3> QED  BY <3>1, <3>2 DEF OnDisk, InTransit
  <2>2. \/ escaped' = escaped
        \/ \E gone : DeleteRows(gone) \/ NotOnDisk(gone)
    BY DEF Does, Looks, RunTask, Commit, Restart, Expire, Stores, Covers, history
  <2> QED  BY <2>1, <2>2 DEF NotOnDisk, OnDisk
<1>13. ASSUME NEW e \in All' PROVE e.at <= clock'
  <2>1. e \in All \/ \E x \in Entry : Stores(x) /\ e = x
    BY <1>4, <1>10, <1>11, DiskMoves, SemanticMoves DEF OnDisk
  <2>2. CASE e \in All
    BY <1>1, <1>3, <1>7, <2>2
  <2>3. ASSUME NEW x \in Entry, Stores(x) PROVE x.at <= clock'
    BY <1>1, <1>7, <2>3 DEF Stores, Tick
  <2> QED  BY <2>1, <2>2, <2>3
<1>14. deleted' \subseteq Entry /\ escaped' \subseteq Entry
  BY <1>2, <1>11, <1>12 DEF Shapes, OnDisk
<1> QED  BY <1>7, <1>8, <1>9, <1>10, <1>13, <1>14 DEF Past

\* The tiers, the disk and the calls keep their shapes, the exact tier and the
\* table one entry a query.
LEMMA ShapesNext ==
  ASSUME FabricAssumption, Shapes, OneEntry, Past, Apart, [Next]_vars
  PROVE  Shapes' /\ OneEntry'
<1>1. Does
  BY EveryStep
<1>2. l1' \subseteq Entry /\ OneEach(l1') /\ l2' \in [Org -> Seq(Entry)]
  BY <1>1, TiersMove
<1>3. db' \subseteq Entry /\ tasks' \in Seq(Entry) /\ queue' \in Seq(Entry) /\ OneEach(db')
  BY <1>1, DiskMoves DEF OneEntry
<1>4. calls' \in [Caller -> Call]
  BY CallsTyped
<1>5. crossed' \subseteq Query /\ restored' \subseteq Query
  <2>1. crossed \subseteq Query /\ restored \subseteq Query /\ db \subseteq Entry
    BY DEF Shapes
  <2>2. crossed' \subseteq Query
    BY <1>1, <2>1 DEF Does, Looks, RunTask, Commit, Restart, Expire, Stores, Covers,
                      Elsewhere, history, Entry
  <2>3. restored' \subseteq Query
    BY <1>1, <2>1 DEF Does, Looks, RunTask, Commit, Restart, Expire, Stores, Covers,
                      Elsewhere, history, Entry, Rows
  <2> QED  BY <2>2, <2>3
<1> QED  BY <1>1, <1>2, <1>3, <1>4, <1>5, PastNext DEF Shapes, OneEntry

\* No entry is twice between the callers and the table.
LEMMA ApartNext ==
  ASSUME FabricAssumption, Shapes, OneEntry, Past, Apart, Does
  PROVE  Apart'
<1>1. queue \in Seq(Entry) /\ tasks \in Seq(Entry) /\ clock \in 0..MaxClock
  BY DEF Shapes
<1>2. /\ \A e, f \in OnDisk : e.at = f.at => e = f
      /\ IsInjective(tasks) /\ IsInjective(queue)
      /\ ToSet(tasks) \intersect ToSet(queue) = {}
  BY DEF Apart
<1>3. ASSUME NEW e \in Entry, Stores(e)
      PROVE  \A f \in OnDisk : f.at # e.at
  <2>1. \A f \in OnDisk : f.at <= clock /\ f \in Entry
    BY DEF Past, Shapes, OnDisk, InTransit, ToSet
  <2>2. \A f \in OnDisk : f.at \in Nat /\ f.at <= clock
    BY <2>1 DEF Entry
  <2>3. e.at = clock + 1
    BY <1>3 DEF Stores
  <2> QED  BY <1>1, <2>2, <2>3
<1>4. \A e, f \in OnDisk' : e.at = f.at => e = f
  <2>1. ASSUME NEW x \in Entry, Stores(x), OnDisk' = OnDisk \union {x}
        PROVE  \A e, f \in OnDisk' : e.at = f.at => e = f
    BY <1>2, <1>3, <2>1
  <2>2. ASSUME OnDisk' \subseteq OnDisk
        PROVE  \A e, f \in OnDisk' : e.at = f.at => e = f
    BY <1>2, <2>2
  <2> QED  BY <2>1, <2>2, DiskMoves
<1>5. ASSUME NEW s, NEW t, IsInjective(s), IsInjective(t), ToSet(s) \intersect ToSet(t) = {},
             tasks' = s, queue' = t
      PROVE  Apart'
  BY <1>4, <1>5 DEF Apart
<1>6. CASE UNCHANGED <<tasks, queue>>
  BY <1>2, <1>5, <1>6
<1>7. ToSet(<<>>) = {} /\ IsInjective(<<>>)
  BY DEF ToSet, IsInjective
<1>8. CASE RunTask
  <2>1. PICK h \in Entry, t \in Seq(Entry) : h = Head(tasks) /\ t = Tail(tasks) /\ tasks = <<h>> \o t
    BY <1>1, <1>8, HeadAndTail DEF RunTask
  <2>2. PICK one \in Seq(Entry) : one = <<h>> /\ ToSet(one) = {h} /\ IsInjective(one)
    BY AppendJoins
  <2>3. Append(queue, h) = queue \o one
    BY <1>1, <2>2, OneMore
  <2>4. queue' = queue \o one /\ tasks' = t /\ tasks = one \o t
    BY <1>8, <2>1, <2>2, <2>3 DEF RunTask
  <2>5. IsInjective(t) /\ ToSet(one) \intersect ToSet(t) = {}
    BY <1>2, <2>4, JoinedInjective
  <2>6. ToSet(tasks) = ToSet(one) \union ToSet(t)
    BY <2>4, LastsOfBoth
  <2>7. ToSet(queue \o one) = ToSet(queue) \union ToSet(one)
    BY <1>1, LastsOfBoth
  <2>8. ToSet(queue) \intersect ToSet(one) = {}
    BY <1>2, <2>6
  <2>9. IsInjective(queue \o one)
    BY <1>1, <1>2, <2>2, <2>8, JoinedInjective
  <2>10. ToSet(t) \intersect ToSet(queue \o one) = {}
    BY <1>2, <2>5, <2>6, <2>7
  <2> QED  BY <1>5, <2>4, <2>5, <2>9, <2>10
<1>9. ASSUME NEW s \in Seq(Entry), NEW t \in Seq(Entry), queue = s \o t, queue' = t,
             UNCHANGED tasks
      PROVE  Apart'
  <2>1. IsInjective(t)
    BY <1>2, <1>9, JoinedInjective
  <2>2. ToSet(queue) = ToSet(s) \union ToSet(t)
    BY <1>9, LastsOfBoth
  <2> QED  BY <1>2, <1>5, <1>9, <2>1, <2>2
<1>10. CASE Commit
  <2>1. PICK h \in Entry, t \in Seq(Entry) : h = Head(queue) /\ t = Tail(queue) /\ queue = <<h>> \o t
    BY <1>1, <1>10, HeadAndTail DEF Commit
  <2>2. <<h>> \in Seq(Entry) /\ queue' = t /\ UNCHANGED tasks
    BY <1>10, <2>1 DEF Commit
  <2> QED  BY <1>9, <2>1, <2>2
<1>11. CASE Restart
  BY <1>5, <1>7, <1>11 DEF Restart
<1>12. ASSUME NEW e \in Entry, Stores(e) PROVE Apart'
  <2>1. e \notin ToSet(queue) /\ e \notin ToSet(tasks)
    BY <1>3, <1>12 DEF OnDisk, InTransit
  <2>2. IsInjective(Append(queue, e)) /\ IsInjective(Append(tasks, e))
    BY <1>1, <1>2, <2>1, OneMoreInjective
  <2>3. /\ ToSet(Append(queue, e)) = ToSet(queue) \union {e}
        /\ ToSet(Append(tasks, e)) = ToSet(tasks) \union {e}
    BY <1>1, OneMoreSet
  <2>4. \/ tasks' = Append(tasks, e) /\ queue' = queue
        \/ queue' = Append(queue, e) /\ tasks' = tasks
    BY <1>12 DEF Stores
  <2>5. CASE tasks' = Append(tasks, e) /\ queue' = queue
    <3>1. ToSet(tasks') \intersect ToSet(queue') = {}
      BY <1>2, <2>1, <2>3, <2>5
    <3>2. IsInjective(tasks') /\ IsInjective(queue')
      BY <1>2, <2>2, <2>5
    <3> QED  BY <1>5, <3>1, <3>2
  <2>6. CASE queue' = Append(queue, e) /\ tasks' = tasks
    <3>1. ToSet(tasks') \intersect ToSet(queue') = {}
      BY <1>2, <2>1, <2>3, <2>6
    <3>2. IsInjective(tasks') /\ IsInjective(queue')
      BY <1>2, <2>2, <2>6
    <3> QED  BY <1>5, <3>1, <3>2
  <2> QED  BY <2>4, <2>5, <2>6
<1>13. ASSUME NEW gone, DeleteRows(gone) PROVE Apart'
  BY <1>9, <1>13, RowsDeleted
<1>14. CASE Looks \/ \E e \in l1 \union Semantic \union db : Expire(e)
  BY <1>6, <1>14 DEF Looks, Expire, disk
<1>15. ASSUME NEW gone, Covers(gone) PROVE DeleteRows(gone) \/ UNCHANGED <<tasks, queue>>
  BY <1>15 DEF Covers, NotOnDisk, disk
<1> QED  BY <1>6, <1>8, <1>10, <1>11, <1>12, <1>13, <1>14, <1>15 DEF Does

\* Each organisation keeps its own list.
LEMMA PlacedNext ==
  ASSUME FabricAssumption, Shapes, OneEntry, Past, Apart, Placed, Does
  PROVE  Placed'
<1>1. CASE Thinned
  BY <1>1, ThinnerSet DEF Thinned, Placed
<1>2. CASE \A o \in Org :
             ToSet(l2'[o]) \subseteq {e \in db : e.query \in Single /\ OrgOf[e.query] = o}
  BY <1>2 DEF Placed
<1>3. ASSUME NEW e \in Entry, Stores(e) PROVE Placed'
  <2>1. \A o \in Org :
          /\ ToSet(l2'[o]) \subseteq ToSet(l2[o]) \union {e}
          /\ e \in ToSet(l2'[o]) => e \in ToSet(l2[o]) \/ (e.query \in Single /\ o = OrgOf[e.query])
    BY <1>3, Stored
  <2> QED  BY <2>1 DEF Placed
<1> QED  BY <1>1, <1>2, <1>3, TiersMove

\* What was stored last is in L2 while L1 has it.
LEMMA KeptNowNext ==
  ASSUME FabricAssumption, Shapes, OneEntry, Past, Apart, Placed, KeptNow, Does
  PROVE  KeptNow'
<1>1. \A e \in l1 \union db : e.at <= clock /\ e.at \in Nat
  BY DEF Past, OnDisk, Shapes, Entry
<1>2. clock \in Nat
  BY DEF Shapes
<1>3. ASSUME NEW e \in Entry, Stores(e) PROVE KeptNow'
  <2>1. /\ l1' = Put(l1, e) /\ clock' = clock + 1
        /\ e.query \in Single => e \in ToSet(l2'[OrgOf[e.query]])
    BY <1>3, Stored DEF Stores, Tick
  <2>2. \A x \in l1 : x.at # clock + 1
    BY <1>1, <1>2
  <2> QED  BY <2>1, <2>2 DEF KeptNow, Put, Of
<1>4. CASE Tick /\ l1' \subseteq l1 \union db
  <2>1. \A x \in l1' : x.at # clock'
    BY <1>1, <1>2, <1>4 DEF Tick
  <2> QED  BY <2>1 DEF KeptNow
<1>5. CASE Looks /\ ~Tick
  <2>1. /\ l1' \subseteq l1 /\ clock' = clock
        /\ \A o \in Org : \A e \in ToSet(l2[o]) : IsLive(e) => e \in ToSet(l2'[o])
    BY <1>5 DEF Looks
  <2>2. ASSUME NEW e \in l1', e.at = clock, e.query \in Single
        PROVE  e \in ToSet(l2'[OrgOf[e.query]])
    <3>1. e \in l1 /\ e \in ToSet(l2[OrgOf[e.query]]) /\ OrgOf[e.query] \in Org
      BY <2>1, <2>2 DEF KeptNow, FabricAssumption
    <3>2. \A n \in expired : n # clock
      BY <1>2 DEF Past, Shapes
    <3>3. IsLive(e)
      BY <2>2, <3>2 DEF IsLive
    <3> QED  BY <2>1, <3>1, <3>3
  <2> QED  BY <2>1, <2>2 DEF KeptNow
<1>6. CASE RunTask \/ Commit
  BY <1>6 DEF RunTask, Commit, memory, KeptNow
<1>7. \/ Tick \/ RunTask \/ Commit \/ Looks
      \/ \E e \in Entry : Stores(e)
  BY DEF Does, Restart, Expire, Covers
<1>8. l1' \subseteq l1 \union db \/ \E e \in Entry : Stores(e)
  BY TiersMove
<1> QED  BY <1>3, <1>4, <1>5, <1>6, <1>7, <1>8

\* What was deleted is nowhere, unless it crossed the delete.
LEMMA GoneNext ==
  ASSUME FabricAssumption, Shapes, OneEntry, Past, Apart, Gone, Does
  PROVE  Gone'
<1>1. CASE deleted' = deleted /\ escaped' = escaped /\ ~\E e \in Entry : Stores(e)
  <2>1. OnDisk' \subseteq OnDisk
    BY <1>1, DiskMoves
  <2>2. l1' \union Semantic' \subseteq l1 \union Semantic \union OnDisk
    BY <1>1, SemanticMoves DEF OnDisk
  <2> QED  BY <1>1, <2>1, <2>2 DEF Gone
<1>2. ASSUME NEW e \in Entry, Stores(e) PROVE Gone'
  <2>1. UNCHANGED <<deleted, escaped>> /\ e.at = clock + 1
    BY <1>2 DEF Stores
  <2>2. e \notin deleted
    <3>1. \A x \in deleted : x.at <= clock /\ x.at \in Nat
      BY DEF Past, Shapes, Entry
    <3>2. clock \in Nat
      BY DEF Shapes
    <3> QED  BY <2>1, <3>1, <3>2
  <2>3. l1' \union Semantic' \union OnDisk' \subseteq l1 \union Semantic \union OnDisk \union {e}
    <3>1. l1' = Put(l1, e) /\ \A o \in Org : ToSet(l2'[o]) \subseteq ToSet(l2[o]) \union {e}
      BY <1>2, Stored
    <3>2. l1' \subseteq l1 \union {e}
      BY <3>1 DEF Put, Of
    <3>3. \A x \in Semantic' : \E o \in Org : x \in ToSet(l2'[o])
      BY DEF Semantic
    <3>4. \A x : (\E o \in Org : x \in ToSet(l2[o])) => x \in Semantic
      BY DEF Semantic
    <3>5. OnDisk' \subseteq OnDisk \union {e}
      <4>1. ASSUME NEW x \in Entry, Stores(x) PROVE x = e
        <5>1. l1' = Put(l1, x) /\ l1' = Put(l1, e) /\ x.at = clock + 1
          BY <1>2, <4>1, Stored DEF Stores
        <5>2. x \in l1' /\ x \notin l1
          <6>1. \A y \in l1 : y.at <= clock /\ y.at \in Nat
            BY DEF Past, Shapes, Entry
          <6>2. clock \in Nat
            BY DEF Shapes
          <6> QED  BY <5>1, <6>1, <6>2 DEF Put
        <5> QED  BY <5>1, <5>2 DEF Put, Of
      <4> QED  BY <4>1, DiskMoves
    <3> QED  BY <3>1, <3>2, <3>3, <3>4, <3>5
  <2> QED  BY <2>1, <2>2, <2>3 DEF Gone
<1>3. ASSUME NEW gone \in SUBSET Known, Covers(gone) PROVE Gone'
  <2>1. l1' \subseteq l1 \ gone /\ deleted' = deleted \union gone
    BY <1>3 DEF Covers, Forgotten
  <2>2. Semantic' \subseteq Semantic \ gone
    <3>1. \A o \in Org : ToSet(l2'[o]) = ToSet(l2[o]) \ gone
      BY <1>3, Forgets DEF Covers
    <3>2. \A x \in Semantic' : \E o \in Org : x \in ToSet(l2'[o])
      BY DEF Semantic
    <3>3. \A x : (\E o \in Org : x \in ToSet(l2[o])) => x \in Semantic
      BY DEF Semantic
    <3> QED  BY <3>1, <3>2, <3>3
  <2>3. OnDisk' \subseteq OnDisk /\ escaped \subseteq escaped' /\ OnDisk' \intersect gone \subseteq escaped'
    <3>1. CASE NotOnDisk(gone)
      BY <3>1 DEF NotOnDisk, disk, OnDisk, InTransit
    <3>2. CASE DeleteRows(gone)
      <4>1. PICK s \in Seq(Entry), t \in Seq(Entry) :
              /\ queue = s \o t /\ queue' = t /\ tasks' = tasks /\ db' = Written(db, s) \ gone
              /\ escaped' = escaped \union ((ToSet(t) \union ToSet(tasks)) \intersect gone)
        BY <3>2, RowsDeleted
      <4>2. ToSet(queue) = ToSet(s) \union ToSet(t)
        BY <4>1, LastsOfBoth
      <4>3. Written(db, s) \subseteq db \union ToSet(s)
        BY WrittenRows
      <4> QED  BY <4>1, <4>2, <4>3 DEF OnDisk, InTransit
    <3> QED  BY <1>3, <3>1, <3>2 DEF Covers
  <2> QED  BY <2>1, <2>2, <2>3 DEF Gone
<1>4. \/ UNCHANGED <<deleted, escaped>>
      \/ \E gone \in SUBSET Known : Covers(gone)
  BY DEF Does, Looks, RunTask, Commit, Restart, Expire, Stores, history
<1> QED  BY <1>1, <1>2, <1>3, <1>4

\* A query has at most one entry in the list, or two the same after a restart.
LEMMA CopiesNext ==
  ASSUME FabricAssumption, Shapes, OneEntry, Past, Apart, Placed, Copies, Does
  PROVE  Copies'
<1> DEFINE List(q) == l2[OrgOf[q]]
           Good(l, r, t, q) ==
             /\ Twice(l[OrgOf[q]], q)
             /\ q \notin r =>
                  /\ Once(l[OrgOf[q]], q)
                  /\ \A e \in Of(ToSet(l[OrgOf[q]]), q), f \in Of(t, q) : e = f
<1>1. \A q \in Query : OrgOf[q] \in Org
  BY DEF FabricAssumption
<1>2. \A q \in Query : Good(l2, restored, l1, q)
  BY DEF Copies
<1>3. ASSUME l1' \subseteq l1, Thinned, restored' = restored, NEW q \in Query
      PROVE  Good(l2', restored', l1', q)
  <2>1. PICK s, t : s = l2[OrgOf[q]] /\ t = l2'[OrgOf[q]]
    OBVIOUS
  <2>2. Thins(t, s) /\ ToSet(t) \subseteq ToSet(s)
    BY <1>1, <1>3, <2>1, ThinnerSet DEF Thinned
  <2>3. (Once(s, q) => Once(t, q)) /\ (Twice(s, q) => Twice(t, q))
    BY <2>2, ThinnerCopies
  <2> QED  BY <1>2, <1>3, <2>1, <2>2, <2>3 DEF Of
<1>4. ASSUME Restart, NEW q \in Query
      PROVE  Good(l2', restored', l1', q)
  <2>1. PICK o \in Org : o = OrgOf[q]
    BY <1>1
  <2>2. /\ ToSet(l2'[o]) = {e \in Rows : e.query \in Single /\ OrgOf[e.query] = o}
        /\ Twice(l2'[o], q)
    BY <1>4, RestartLists
  <2>3. restored' = {e.query : e \in Rows} \intersect Single
    BY <1>4 DEF Restart
  <2>4. q \notin restored' => Of(ToSet(l2'[o]), q) = {}
    BY <2>2, <2>3 DEF Of
  <2>5. q \notin restored' => Once(l2'[o], q)
    BY <2>4 DEF Once, Of, ToSet
  <2> QED  BY <2>1, <2>2, <2>4, <2>5
<1>5. ASSUME NEW e \in Entry, Stores(e), NEW q \in Query
      PROVE  Good(l2', restored', l1', q)
  <2>1. PICK o \in Org : o = OrgOf[q]
    BY <1>1
  <2>2. /\ ToSet(l2'[o]) \subseteq ToSet(l2[o]) \union {e}
        /\ (Once(l2[o], q) => Once(l2'[o], q)) /\ (Twice(l2[o], q) => Twice(l2'[o], q))
        /\ e \in ToSet(l2'[o]) => e \in ToSet(l2[o]) \/ (e.query \in Single /\ o = OrgOf[e.query])
    BY <1>5, Stored
  <2>3. l1' = Put(l1, e) /\ restored' = restored
    BY <1>5, Stored DEF Stores
  <2>4. ASSUME q \notin restored, NEW x \in Of(ToSet(l2'[o]), q), NEW f \in Of(l1', q)
        PROVE  x = f
    <3>1. CASE q # e.query
      <4>1. f \in Of(l1, q) /\ x \in Of(ToSet(l2[o]), q)
        BY <2>2, <2>3, <2>4, <3>1 DEF Of, Put
      <4> QED  BY <1>2, <2>1, <2>4, <4>1
    <3>2. CASE q = e.query
      <4>1. f = e
        BY <2>3, <2>4, <3>2 DEF Of, Put
      <4>2. q \in Single
        <5>1. \A y \in ToSet(l2[o]) : y.query \in Single
          BY DEF Placed
        <5>2. x \in ToSet(l2[o]) \/ x = e
          BY <2>2, <2>4 DEF Of
        <5> QED  BY <2>2, <2>4, <3>2, <5>1, <5>2 DEF Of
      <4>3. Once(l2[o], q)
        BY <1>2, <2>1, <2>4
      <4>4. \A y \in ToSet(l2'[o]) : y.query = q => y = e
        BY <1>5, <2>1, <3>2, <4>2, <4>3, Stored
      <4> QED  BY <2>4, <4>1, <4>4 DEF Of
    <3> QED  BY <3>1, <3>2
  <2> QED  BY <1>2, <2>1, <2>2, <2>3, <2>4
<1>6. restored' = restored \/ Restart
  BY DEF Does, Looks, RunTask, Commit, Expire, Stores, Covers, Elsewhere, history
<1>7. CASE Restart
  BY <1>4, <1>7 DEF Copies
<1>8. CASE l1' \subseteq l1 /\ Thinned /\ restored' = restored
  BY <1>3, <1>8 DEF Copies
<1>9. CASE \E e \in Entry : Stores(e)
  BY <1>5, <1>9 DEF Copies
<1> QED  BY <1>6, <1>7, <1>8, <1>9, TiersMove

\* Moving writes along changes nothing of what they leave in the end.
LEMMA WritesMove ==
  ASSUME Shapes, UNCHANGED disk \/ RunTask \/ Commit
  PROVE  Written(db', queue' \o tasks') = Written(db, queue \o tasks)
<1>1. queue \in Seq(Entry) /\ tasks \in Seq(Entry)
  BY DEF Shapes
<1>2. CASE UNCHANGED disk
  BY <1>2 DEF disk
<1>3. Written(db, queue \o tasks) = Written(Written(db, queue), tasks)
  BY <1>1, WrittenInTurn
<1>4. CASE RunTask
  <2>1. PICK h \in Entry, t \in Seq(Entry) : h = Head(tasks) /\ t = Tail(tasks) /\ tasks = <<h>> \o t
    BY <1>1, <1>4, HeadAndTail DEF RunTask
  <2>2. PICK one \in Seq(Entry) : one = <<h>>
    BY AppendJoins
  <2>3. Append(queue, h) = queue \o <<h>> /\ queue \o <<h>> \in Seq(Entry)
    BY <1>1, OneMore
  <2>4. PICK more \in Seq(Entry) : more = queue \o one /\ queue' = more
    BY <1>4, <2>1, <2>2, <2>3 DEF RunTask
  <2>5. db' = db /\ tasks' = t /\ tasks = one \o t
    BY <1>4, <2>1, <2>2 DEF RunTask
  <2>6. Written(db, more \o t) = Written(Written(db, more), t)
    BY WrittenInTurn
  <2>7. Written(db, queue \o one) = Written(Written(db, queue), one)
    BY <1>1, WrittenInTurn
  <2>8. Written(Written(db, queue), one \o t) = Written(Written(Written(db, queue), one), t)
    BY WrittenInTurn
  <2> QED  BY <1>3, <2>4, <2>5, <2>6, <2>7, <2>8
<1>5. CASE Commit
  <2>1. PICK h \in Entry, t \in Seq(Entry) : h = Head(queue) /\ t = Tail(queue) /\ queue = <<h>> \o t
    BY <1>1, <1>5, HeadAndTail DEF Commit
  <2>2. PICK one \in Seq(Entry) : one = <<h>>
    <3>1. <<h>> \in Seq(Entry)
      OBVIOUS
    <3> QED  BY <3>1
  <2>3. db' = Put(db, h) /\ queue' = t /\ tasks' = tasks /\ queue = one \o t
    BY <1>5, <2>1, <2>2 DEF Commit
  <2>4. Written(db, one) = Put(db, h)
    BY <2>2, WrittenOne
  <2>5. Written(db, one \o t) = Written(Written(db, one), t)
    BY WrittenInTurn
  <2>6. Written(db', t \o tasks) = Written(Written(db', t), tasks)
    BY <1>1, WrittenInTurn
  <2> QED  BY <1>3, <2>3, <2>4, <2>5, <2>6
<1> QED  BY <1>2, <1>4, <1>5

\* The lines of writes end with what the exact tier holds.
LEMMA LatestNext ==
  ASSUME FabricAssumption, Shapes, OneEntry, Past, Apart, LatestIsPersisted, Does
  PROVE  LatestIsPersisted'
<1>1. queue \in Seq(Entry) /\ tasks \in Seq(Entry) /\ OneEach(l1) /\ OneEach(db)
  BY DEF Shapes, OneEntry
<1>2. PICK final : final = Written(db, queue \o tasks)
  OBVIOUS
<1>3. PICK rows : rows = Written(db, queue)
  OBVIOUS
<1>4. final = Written(rows, tasks)
  BY <1>1, <1>2, <1>3, WrittenInTurn
<1>5. \A q \in Query \ crossed : Of(l1, q) # {} => Of(final, q) = Of(l1, q)
  BY <1>2 DEF LatestIsPersisted, LastWrite
<1>6. ASSUME NEW q \in Query \ crossed, l1' \subseteq l1, Of(l1', q) # {}
      PROVE  Of(l1', q) = Of(l1, q) /\ Of(final, q) = Of(l1', q)
             /\ \E e \in l1' : Of(final, q) = {e}
  BY <1>1, <1>5, <1>6 DEF Of, OneEach
<1>7. CASE l1' \subseteq l1 /\ UNCHANGED crossed /\ (UNCHANGED disk \/ RunTask \/ Commit)
  <2>1. Written(db', queue' \o tasks') = final
    BY <1>2, <1>7, WritesMove
  <2> QED  BY <1>6, <1>7, <2>1 DEF LatestIsPersisted, LastWrite
<1>8. ASSUME NEW e \in Entry, Stores(e) PROVE LatestIsPersisted'
  <2>1. PICK one \in Seq(Entry) : one = <<e>>
    BY <1>1, AppendJoins
  <2>2. \A table : Written(table, one) = Put(table, e)
    BY <2>1, WrittenOne
  <2>3. l1' = Put(l1, e) /\ db' = db
    BY <1>8, Stored DEF Stores
  <2>4. \A T, q : Of(Put(T, e), q) = IF q = e.query THEN {e} ELSE Of(T, q)
    BY DEF Put, Of
  <2>5. CASE tasks' = Append(tasks, e) /\ queue' = queue /\ crossed' = crossed \ {e.query}
    <3>7. tasks' = tasks \o one /\ tasks' \in Seq(Entry)
      BY <1>1, <2>1, <2>5, OneMore
    <3>1. PICK more \in Seq(Entry) : more = tasks' /\ tasks' = tasks \o one
      BY <3>7
    <3>8. Written(db, queue \o more) = Written(Written(db, queue), more)
      BY <1>1, WrittenInTurn
    <3>5. Written(db, queue \o tasks') = Written(Written(db, queue), tasks')
      BY <3>1, <3>8
    <3>2. Written(db', queue' \o tasks') = Written(rows, tasks')
      BY <1>3, <2>3, <2>5, <3>5
    <3>3. Written(rows, tasks \o one) = Written(Written(rows, tasks), one)
      BY <1>1, WrittenInTurn
    <3>4. Written(db', queue' \o tasks') = Put(final, e)
      BY <1>4, <2>2, <3>1, <3>2, <3>3
    <3>6. ASSUME NEW q \in Query \ crossed', Of(l1', q) # {}
          PROVE  Of(Put(final, e), q) = Of(l1', q)
      BY <1>5, <2>3, <2>4, <2>5, <3>6
    <3> QED  BY <3>4, <3>6 DEF LatestIsPersisted, LastWrite
  <2>6. CASE /\ queue' = Append(queue, e) /\ tasks' = tasks
             /\ crossed' = IF Of(ToSet(tasks), e.query) = {}
                           THEN crossed \ {e.query} ELSE crossed \union {e.query}
    <3>9. queue' = queue \o one /\ queue' \in Seq(Entry)
      BY <1>1, <2>1, <2>6, OneMore
    <3>1. PICK more \in Seq(Entry) : more = queue' /\ queue' = queue \o one
      BY <3>9
    <3>10. Written(db, more \o tasks) = Written(Written(db, more), tasks)
      BY <1>1, WrittenInTurn
    <3>8. Written(db, queue' \o tasks) = Written(Written(db, queue'), tasks)
      BY <3>1, <3>10
    <3>2. Written(db', queue' \o tasks') = Written(Written(db, queue'), tasks)
      BY <2>3, <2>6, <3>8
    <3>3. Written(db, queue \o one) = Written(Written(db, queue), one)
      BY <1>1, WrittenInTurn
    <3>4. Written(db', queue' \o tasks') = Written(Put(rows, e), tasks)
      BY <1>3, <2>2, <3>1, <3>2, <3>3
    <3>5. ASSUME NEW q, q # e.query PROVE Of(Written(Put(rows, e), tasks), q) = Of(final, q)
      BY <1>4, <3>5 DEF Written, Put, Of
    <3>6. ASSUME Of(ToSet(tasks), e.query) = {}
          PROVE  Of(Written(Put(rows, e), tasks), e.query) = {e}
      <4>1. Of(Lasts(tasks), e.query) = {}
        <5>1. Lasts(tasks) \subseteq ToSet(tasks)
          BY <1>1, WrittenRows
        <5> QED  BY <3>6, <5>1 DEF Of
      <4> QED  BY <3>6, <4>1 DEF Written, Put, Of
    <3>7. ASSUME NEW q \in Query \ crossed', Of(l1', q) # {}
          PROVE  Of(Written(Put(rows, e), tasks), q) = Of(l1', q)
      <4>1. CASE q = e.query
        BY <2>3, <2>4, <2>6, <3>6, <3>7, <4>1
      <4>2. CASE q # e.query
        BY <1>5, <2>3, <2>4, <2>6, <3>5, <3>7, <4>2
      <4> QED  BY <4>1, <4>2
    <3> QED  BY <3>4, <3>7 DEF LatestIsPersisted, LastWrite
  <2> QED  BY <1>8, <2>5, <2>6 DEF Stores
<1>9. CASE Restart
  <2>1. db' = db /\ l1' = Rows /\ queue' = <<>> /\ tasks' = <<>>
    BY <1>9 DEF Restart
  <2>2. <<>> \in Seq(Entry)
    OBVIOUS
  <2>3. Written(db, <<>> \o <<>>) = db
    <3>1. PICK none \in Seq(Entry) : none = <<>>
      BY <2>2
    <3>2. Written(db, none \o none) = Written(Written(db, none), none)
      BY WrittenInTurn
    <3>3. Written(db, none) = db
      BY <3>1, WrittenOne
    <3> QED  BY <3>1, <3>2, <3>3
  <2>4. \A q : Of(Rows, q) # {} => Of(db, q) = Of(Rows, q)
    BY <1>1 DEF Of, Rows, OneEach
  <2> QED  BY <2>1, <2>3, <2>4 DEF LatestIsPersisted, LastWrite
<1>10. ASSUME NEW gone \in SUBSET Known, Covers(gone) PROVE LatestIsPersisted'
  <2>1. l1' \subseteq l1 \ gone /\ UNCHANGED crossed
    BY <1>10 DEF Covers, Elsewhere
  <2>2. CASE NotOnDisk(gone)
    BY <1>7, <2>1, <2>2 DEF NotOnDisk
  <2>3. CASE DeleteRows(gone)
    <3>1. PICK s \in Seq(Entry), t \in Seq(Entry) :
            /\ queue = s \o t /\ queue' = t /\ tasks' = tasks /\ db' = Written(db, s) \ gone
      BY <2>3, RowsDeleted
    <3>2. PICK table : table = Written(db, s)
      OBVIOUS
    <3>3. PICK pending \in Seq(Entry) : pending = t \o tasks
      BY <1>1, Joined
    <3>4. rows = Written(table, t)
      BY <1>3, <3>1, <3>2, WrittenInTurn
    <3>5. Written(table, pending) = Written(Written(table, t), tasks)
      BY <1>1, <3>3, WrittenInTurn
    <3>6. final = Written(table, pending)
      BY <1>4, <3>4, <3>5
    <3>7. Written(db', queue' \o tasks') = Written(table \ gone, pending)
      BY <3>1, <3>2, <3>3
    <3>8. ASSUME NEW q \in Query \ crossed, Of(l1', q) # {}
          PROVE  Of(Written(table \ gone, pending), q) = Of(l1', q)
      <4>1. l1' \subseteq l1
        BY <2>1
      <4>2. Of(final, q) = Of(l1', q)
        BY <1>6, <3>8, <4>1
      <4>3. PICK e \in l1' : Of(final, q) = {e}
        BY <1>6, <3>8, <4>1
      <4>4. e \notin gone
        BY <2>1
      <4>6. Of(Written(table, pending), q) = {e}
        BY <3>6, <4>3
      <4>5. Of(Written(table \ gone, pending), q) = {e}
        BY <4>4, <4>6 DEF Written, Of
      <4> QED  BY <4>2, <4>3, <4>5
    <3> QED  BY <2>1, <3>7, <3>8 DEF LatestIsPersisted, LastWrite
  <2> QED  BY <1>10, <2>2, <2>3 DEF Covers
<1>11. \/ l1' \subseteq l1 /\ UNCHANGED crossed /\ (UNCHANGED disk \/ RunTask \/ Commit)
       \/ Restart \/ \E e \in Entry : Stores(e)
       \/ \E gone \in SUBSET Known : Covers(gone)
  BY DEF Does, Looks, RunTask, Commit, Expire, history, memory
<1> QED  BY <1>7, <1>8, <1>9, <1>10, <1>11

\* The parts together: at the start, after any step, always.
LEMMA Initially == FabricAssumption /\ Init => IInv
<1> SUFFICES ASSUME FabricAssumption, Init PROVE IInv
  OBVIOUS
<1>1. MaxClock \in Nat
  BY DEF FabricAssumption
<1>2. Shapes
  BY <1>1 DEF Init, Shapes, Call
<1>3. \A o \in Org : l2[o] = <<>>
  BY DEF Init
<1>4. ToSet(<<>>) = {} /\ IsInjective(<<>>) /\ DOMAIN <<>> = {}
  BY DEF ToSet, IsInjective
<1>5. Semantic = {} /\ OnDisk = {} /\ Placed
  BY <1>3, <1>4 DEF Init, Semantic, OnDisk, InTransit, Placed
<1>6. OneEntry /\ Apart /\ KeptNow /\ Gone /\ LatestIsPersisted
  BY <1>4, <1>5 DEF Init, OneEntry, OneEach, Apart, KeptNow, Gone, LatestIsPersisted, Of
<1>7. Past
  BY <1>1, <1>5 DEF Init, Past
<1>8. Copies
  <2>1. \A q \in Query : l2[OrgOf[q]] = <<>>
    BY <1>3 DEF FabricAssumption
  <2> QED  BY <1>4, <2>1 DEF Copies, Once, Twice, Of
<1> QED  BY <1>2, <1>5, <1>6, <1>7, <1>8 DEF IInv

LEMMA Inductive == FabricAssumption /\ IInv /\ [Next]_vars => IInv'
<1> SUFFICES ASSUME FabricAssumption, IInv, [Next]_vars PROVE IInv'
  OBVIOUS
<1>1. /\ Shapes /\ OneEntry /\ Past /\ Apart /\ Placed /\ KeptNow /\ Gone /\ Copies
      /\ LatestIsPersisted
  BY DEF IInv
<1>2. Does
  BY <1>1, EveryStep
<1>3. Shapes' /\ OneEntry'
  BY <1>1, ShapesNext
<1>4. Past'
  BY <1>1, <1>2, PastNext
<1> QED  BY <1>1, <1>2, <1>3, <1>4, ApartNext, PlacedNext, KeptNowNext, GoneNext,
            CopiesNext, LatestNext DEF IInv

LEMMA Always == Spec => []IInv
<1>1. FabricAssumption
  BY FabricAssumption
<1>2. Init => IInv
  BY <1>1, Initially
<1>3. IInv /\ [Next]_vars => IInv'
  BY <1>1, Inductive
<1> QED  BY <1>2, <1>3, PTL DEF Spec

----------------------------------------------------------------------------
(* The properties *)

\* The types of the state: one entry for each query in L1 and in the table, and
\* no entry twice on its way to the disk.
THEOREM Typed == Spec => []TypeOK
<1>1. IInv => TypeOK
  <2> SUFFICES ASSUME IInv PROVE TypeOK
    OBVIOUS
  <2>1. Shapes /\ OneEntry /\ Apart
    BY DEF IInv
  <2>2. \A q \in Query : Cardinality(Of(l1, q)) <= 1 /\ Cardinality(Of(db, q)) <= 1
    <3>1. ASSUME NEW S, OneEach(S), NEW q PROVE Cardinality(Of(S, q)) <= 1
      <4>1. \A a, b \in Of(S, q) : a = b
        BY <3>1 DEF OneEach, Of
      <4> QED  BY <4>1, CountOne
    <3> QED  BY <2>1, <3>1 DEF OneEntry
  <2>3. IsInjective(tasks \o queue)
    <3>1. tasks \in Seq(Entry) /\ queue \in Seq(Entry)
      BY <2>1 DEF Shapes
    <3> QED  BY <2>1, <3>1, JoinedInjective DEF Apart
  <2> QED  BY <2>1, <2>2, <2>3 DEF TypeOK, Shapes
<1> QED  BY <1>1, Always, PTL

\* What a delete covered comes back in neither tier and in no row, after any
\* number of restarts, unless it was out of the delete's reach on its way to
\* the disk.
THEOREM Deleted == Spec => []DeletedStaysGone
<1>1. IInv => DeletedStaysGone
  BY DEF IInv, Gone, DeletedStaysGone, OnDisk
<1> QED  BY <1>1, Always, PTL

\* Once the writes that wait have reached SQLite, the row of a query is what L1
\* answers, unless omnicache_store overtook a task.
THEOREM Persisted == Spec => []LatestIsPersisted
<1>1. IInv => LatestIsPersisted
  BY DEF IInv
<1> QED  BY <1>1, Always, PTL

\* L2 has no copy of what L1 has replaced and no entry twice, but for queries
\* restored at the start, which it has twice at most.
THEOREM Stale == Spec => []StaleOnlyIfRestored
<1>1. FabricAssumption
  BY FabricAssumption
<1>2. IInv => StaleOnlyIfRestored
  <2> SUFFICES ASSUME IInv, NEW q \in Query
               PROVE  /\ Cardinality(CopiesOf(q)) <= IF q \in restored THEN 2 ELSE 1
                      /\ \A e \in Of(Semantic, q), f \in Of(l1, q) : e # f => q \in restored
    BY DEF StaleOnlyIfRestored
  <2>1. /\ Twice(l2[OrgOf[q]], q)
        /\ q \notin restored =>
             /\ Once(l2[OrgOf[q]], q)
             /\ \A e \in Of(ToSet(l2[OrgOf[q]]), q), f \in Of(l1, q) : e = f
    BY DEF IInv, Copies
  <2>2. CASE q \in restored
    <3>1. \A a, b, c \in CopiesOf(q) : a = b \/ b = c \/ a = c
      BY <2>1 DEF CopiesOf, Twice
    <3> QED  BY <2>2, <3>1, CountTwo
  <2>3. CASE q \notin restored
    <3>1. \A a, b \in CopiesOf(q) : a = b
      BY <2>1, <2>3 DEF CopiesOf, Once
    <3>2. Cardinality(CopiesOf(q)) <= 1
      BY <3>1, CountOne
    <3>3. Of(Semantic, q) \subseteq Of(ToSet(l2[OrgOf[q]]), q)
      BY DEF IInv, Placed, Semantic, Of
    <3> QED  BY <2>1, <2>3, <3>2, <3>3
  <2> QED  BY <2>2, <2>3
<1> QED  BY <1>2, Always, PTL

\* Storing never evicts what is being stored.
THEOREM Kept == Spec => StoredIsKept
<1>1. IInv' => \A e \in l1' :
        (e.at = clock' /\ e.query \in Single) => e \in ToSet(l2'[OrgOf[e.query]])
  BY DEF IInv, KeptNow
<1> QED  BY <1>1, Always, PTL DEF StoredIsKept
=============================================================================
