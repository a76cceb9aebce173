------------------------ MODULE RocksdbBackend_proofs ------------------------
(***************************************************************************)
(* Theorems about RocksdbBackend for any set of keys and values, any cache *)
(* and commits of any number of deltas. That a directory with objects      *)
(* opens again needs to know only how far each phase has come with the     *)
(* column families and the metadata. That the cache agrees with the        *)
(* directory, and the size with the objects, needs to know which keys the  *)
(* write batch holds, which ones the stack still writes and removes, which *)
(* ones a commit wrote and removed again, and when the size may be wrong.  *)
(* The types need that the entries of the cache fit, for which             *)
(* _cache_size, a sum over the list, is followed through a front, a        *)
(* removal and an eviction.                                                *)
(***************************************************************************)
EXTENDS RocksdbBackend, FiniteSetTheorems, SequenceTheorems, Induction, TLAPS

\* The phases in which the backend has an open directory behind it.
OpenPhases == {"genesis", "ready", "commit", "store", "closing"}
Phases == OpenPhases \cup {"closed", "setup", "clearing"}

\* The fields of the two records; what they hold is stated where it matters.
Records ==
  /\ disk = [families |-> disk.families, objects |-> disk.objects, metadata |-> disk.metadata]
  /\ rdb = [size |-> rdb.size, node |-> rdb.node, cache |-> rdb.cache, batch |-> rdb.batch]
  /\ rdb.cache = [lru |-> rdb.cache.lru, object |-> rdb.cache.object]

Complete == disk.families = Families /\ DOMAIN disk.metadata = Range(Fields)

\* How far each phase has come with the directory.
Progress ==
  /\ phase \in Phases
  /\ phase \in OpenPhases => Complete
  /\ phase = "setup" => disk.objects = NoObjects
  /\ DataOpensAgain

DataInv == Records /\ Progress

-----------------------------------------------------------------------------
(* Records *)

\* What the cache of an open backend becomes stays a record.
LEMMA CacheRecords ==
  ASSUME NEW k, NEW v, Records
  PROVE  /\ AfterGet(k) = [lru |-> AfterGet(k).lru, object |-> AfterGet(k).object]
         /\ CachePut(AfterGet(k), k, v) = [lru    |-> CachePut(AfterGet(k), k, v).lru,
                                           object |-> CachePut(AfterGet(k), k, v).object]
<1>1. \A c, w : CachePut(c, k, w) = [lru |-> CachePut(c, k, w).lru, object |-> CachePut(c, k, w).object]
  BY DEF CachePut
<1>2. IsCached(rdb.cache, k) => AfterGet(k) = [rdb.cache EXCEPT !.lru = Touched(@, k)]
  BY DEF AfterGet, CacheGet
<1>3. ~IsCached(rdb.cache, k) => AfterGet(k) = CachePut(rdb.cache, k, disk.objects[k])
  BY DEF AfterGet
<1> QED
  BY <1>1, <1>2, <1>3 DEF Records

\* The backend and the directory after a put.
LEMMA PutRecords ==
  ASSUME NEW k, NEW v, Records, Put(k, v)
  PROVE  /\ Records'
         /\ disk'.families = disk.families
         /\ disk'.metadata = disk.metadata
         /\ disk'.objects = IF Batched THEN disk.objects ELSE [disk.objects EXCEPT ![k] = v]
         /\ rdb'.size = IF Got(k) = Absent THEN (rdb.size + 1) % SizeLimit ELSE rdb.size
         /\ rdb'.cache = CachePut(AfterGet(k), k, v)
         /\ rdb'.batch = IF Batched THEN Store(rdb.batch, k, v) ELSE rdb.batch
<1>1. /\ rdb' = [rdb EXCEPT
             !.size  = IF Got(k) = Absent THEN (@ + 1) % SizeLimit ELSE @,
             !.cache = CachePut(AfterGet(k), k, v),
             !.batch = IF Batched THEN Store(@, k, v) ELSE @]
      /\ disk' = IF Batched THEN disk ELSE [disk EXCEPT !.objects[k] = v]
  BY DEF Put
<1>2. CachePut(AfterGet(k), k, v) =
        [lru |-> CachePut(AfterGet(k), k, v).lru, object |-> CachePut(AfterGet(k), k, v).object]
  BY CacheRecords
<1>3. /\ disk' = [families |-> disk'.families, objects |-> disk'.objects, metadata |-> disk'.metadata]
      /\ disk'.families = disk.families
      /\ disk'.metadata = disk.metadata
      /\ disk'.objects = IF Batched THEN disk.objects ELSE [disk.objects EXCEPT ![k] = v]
  BY <1>1 DEF Records
<1>4. /\ rdb' = [size |-> rdb'.size, node |-> rdb'.node, cache |-> rdb'.cache, batch |-> rdb'.batch]
      /\ rdb'.size = IF Got(k) = Absent THEN (rdb.size + 1) % SizeLimit ELSE rdb.size
      /\ rdb'.cache = CachePut(AfterGet(k), k, v)
      /\ rdb'.batch = IF Batched THEN Store(rdb.batch, k, v) ELSE rdb.batch
  BY <1>1 DEF Records
<1> QED
  BY <1>2, <1>3, <1>4 DEF Records

\* The same after an erase.
LEMMA EraseRecords ==
  ASSUME NEW k, Records, Erase(k)
  PROVE  /\ Records'
         /\ disk'.families = disk.families
         /\ disk'.metadata = disk.metadata
         /\ disk'.objects = [disk.objects EXCEPT ![k] = Absent]
         /\ rdb'.size = IF Got(k) # Absent THEN (rdb.size - 1) % SizeLimit ELSE rdb.size
         /\ rdb'.cache = CachePut(AfterGet(k), k, Absent)
         /\ rdb'.batch = rdb.batch
<1>1. /\ rdb' = [rdb EXCEPT
             !.size  = IF Got(k) # Absent THEN (@ - 1) % SizeLimit ELSE @,
             !.cache = CachePut(AfterGet(k), k, Absent)]
      /\ disk' = [disk EXCEPT !.objects[k] = Absent]
  BY DEF Erase
<1>2. CachePut(AfterGet(k), k, Absent) =
        [lru |-> CachePut(AfterGet(k), k, Absent).lru, object |-> CachePut(AfterGet(k), k, Absent).object]
  BY CacheRecords
<1>3. /\ disk' = [families |-> disk'.families, objects |-> disk'.objects, metadata |-> disk'.metadata]
      /\ disk'.families = disk.families
      /\ disk'.metadata = disk.metadata
      /\ disk'.objects = [disk.objects EXCEPT ![k] = Absent]
  BY <1>1 DEF Records
<1>4. /\ rdb' = [size |-> rdb'.size, node |-> rdb'.node, cache |-> rdb'.cache, batch |-> rdb'.batch]
      /\ rdb'.size = IF Got(k) # Absent THEN (rdb.size - 1) % SizeLimit ELSE rdb.size
      /\ rdb'.cache = CachePut(AfterGet(k), k, Absent)
      /\ rdb'.batch = rdb.batch
  BY <1>1 DEF Records
<1> QED
  BY <1>2, <1>3, <1>4 DEF Records

\* A backend as it is before it is opened.
LEMMA FreshRecords ==
  ASSUME Records, disk' = disk, rdb' = Fresh
  PROVE  Records'
BY DEF Records, Fresh, EmptyCache

-----------------------------------------------------------------------------
(* A directory that holds objects opens again *)

\* A put leaves the column families and the metadata as they are.
LEMMA PutProgress ==
  ASSUME NEW k, NEW v, DataInv, Put(k, v) \/ Erase(k), phase \in OpenPhases, phase' = phase
  PROVE  DataInv'
<1>1. /\ Records'
      /\ disk'.families = disk.families
      /\ disk'.metadata = disk.metadata
  BY PutRecords, EraseRecords DEF DataInv
<1>2. phase # "setup"
  BY DEF OpenPhases
<1> QED
  BY <1>1, <1>2 DEF DataInv, Progress, Complete, DataOpensAgain

\* Steps that leave the directory as it is.
LEMMA SameDirectory ==
  ASSUME DataInv, Records', disk' = disk, phase' \in Phases,
         phase' \in OpenPhases => Complete, phase' # "setup" \/ disk.objects = NoObjects
  PROVE  DataInv'
BY DEF DataInv, Progress, Complete, DataOpensAgain

LEMMA InitData ==
  ASSUME Init
  PROVE  DataInv
BY DEF Init, DataInv, Records, Progress, Phases, OpenPhases, Complete, DataOpensAgain, Empty, Fresh,
       EmptyCache

LEMMA NextData ==
  ASSUME DataInv, [Next]_vars
  PROVE  DataInv'
<1> USE DEF Phases, OpenPhases
<1>1. CASE Open
  <2>1. rdb' = [Fresh EXCEPT !.size = disk.metadata["size"], !.node = disk.metadata["revision"]]
        /\ disk' = disk /\ Complete /\ phase' \in {"genesis", "ready"}
    BY <1>1 DEF Open, Complete
  <2>2. Records'
    BY <2>1 DEF DataInv, Records, Fresh, EmptyCache
  <2> QED
    BY <2>1, <2>2, SameDirectory
<1>2. CASE Setup
  <2>1. disk' = disk /\ rdb' = rdb /\ phase' = "setup" /\ disk.families # Families
    BY <1>2 DEF Setup, Families
  <2>2. disk.objects = NoObjects
    BY <2>1 DEF DataInv, Progress, DataOpensAgain
  <2>3. Records'
    BY <2>1 DEF DataInv, Records
  <2> QED
    BY <2>1, <2>2, <2>3, SameDirectory
<1>3. CASE CreateFamily \/ PutDefault
  <2>1. /\ phase = "setup" /\ rdb' = rdb /\ phase' \in {"setup", "closed"}
        /\ \/ \E f \in Families : disk' = [disk EXCEPT !.families = @ \cup {f}]
           \/ disk' = [disk EXCEPT !.metadata = Store(@, Head(todo), 0)]
    BY <1>3 DEF CreateFamily, PutDefault
  <2>2. Records' /\ disk'.objects = disk.objects
    BY <2>1 DEF DataInv, Records
  <2> QED
    BY <2>1, <2>2 DEF DataInv, Progress, DataOpensAgain
<1>4. CASE \E k \in Keys, v \in Values : GenesisPut(k, v)
  BY <1>4, PutProgress DEF GenesisPut
<1>5. CASE \E k \in Keys : GenesisErase(k)
  BY <1>5, PutProgress DEF GenesisErase
<1>6. CASE FinishGenesis \/ Close
  BY <1>6, SameDirectory DEF FinishGenesis, Close, DataInv, Records, Progress
<1>7. CASE \E k \in Keys : Get(k) \/ Iterate(k)
  <2>1. PICK k \in Keys : Get(k) \/ Iterate(k)
    BY <1>7
  <2>2. PICK c : /\ rdb' = [rdb EXCEPT !.cache = c]
                 /\ c = [lru |-> c.lru, object |-> c.object]
    <3>1. Iterate(k) => rdb' = [rdb EXCEPT !.cache = AfterGet(k)]
      BY DEF Iterate, AfterGet
    <3> QED
      BY <2>1, <3>1, CacheRecords DEF Get, DataInv
  <2>3. disk' = disk /\ phase' = phase /\ phase \in OpenPhases
    BY <2>1 DEF Get, Iterate
  <2>4. Records'
    BY <2>2, <2>3 DEF DataInv, Records
  <2> QED
    BY <2>3, <2>4, SameDirectory DEF DataInv, Progress
<1>8. CASE \E s \in Stacks : StartCommit(s)
  <2>1. /\ rdb' = [rdb EXCEPT !.batch = [k \in {} |-> Absent]]
        /\ disk' = disk /\ phase = "ready" /\ phase' = "commit"
    BY <1>8 DEF StartCommit
  <2>2. Records'
    BY <2>1 DEF DataInv, Records
  <2> QED
    BY <2>1, <2>2, SameDirectory DEF DataInv, Progress
<1>9. CASE \E k \in Keys : CommitErase(k) \/ CommitPut(k)
  BY <1>9, PutProgress DEF CommitErase, CommitPut
<1>10. CASE PopDelta
  <2>1. /\ disk' = disk /\ phase = "commit" /\ phase' \in {"commit", "store"}
        /\ rdb' = rdb \/ rdb' = [rdb EXCEPT !.node = goal.node]
    BY <1>10 DEF PopDelta
  <2>2. Records'
    BY <2>1 DEF DataInv, Records
  <2> QED
    BY <2>1, <2>2, SameDirectory DEF DataInv, Progress
<1>11. CASE StoreField
  <2>1. /\ \E n : disk' = [disk EXCEPT !.metadata[Head(todo)] = n]
        /\ rdb' = rdb /\ phase' = phase /\ phase \in {"store", "closing"}
    BY <1>11 DEF StoreField
  <2>2. /\ Records' /\ disk'.families = disk.families
        /\ DOMAIN disk'.metadata = DOMAIN disk.metadata
    BY <2>1 DEF DataInv, Records
  <2> QED
    BY <2>1, <2>2 DEF DataInv, Progress, Complete, DataOpensAgain
<1>12. CASE EndBatch
  <2>1. /\ \E o : disk' = [disk EXCEPT !.objects = o]
        /\ rdb' = [rdb EXCEPT !.batch = NoBatch]
        /\ phase = "store" /\ phase' = "ready"
    BY <1>12 DEF EndBatch
  <2>2. Records' /\ disk'.families = disk.families /\ disk'.metadata = disk.metadata
    BY <2>1 DEF DataInv, Records
  <2> QED
    BY <2>1, <2>2 DEF DataInv, Progress, Complete, DataOpensAgain
<1>13. CASE Closed \/ Reset \/ Crash
  <2>1. disk' = disk /\ rdb' = Fresh /\ phase' \in {"closed", "clearing"}
    BY <1>13 DEF Closed, Reset, Crash
  <2>2. Records'
    BY <2>1, FreshRecords DEF DataInv
  <2> QED
    BY <2>1, <2>2, SameDirectory
<1>14. CASE DropFamily
  <2>1. /\ disk' = [disk EXCEPT !.families = {"metadata"}, !.objects = NoObjects] \/ disk' = Empty
        /\ rdb' = rdb /\ phase' \in {"clearing", "closed"}
    BY <1>14 DEF DropFamily, DataInv, Progress
  <2>2. /\ disk' = [families |-> disk'.families, objects |-> disk'.objects, metadata |-> disk'.metadata]
        /\ disk'.objects = NoObjects
    <3>1. ASSUME disk' = Empty PROVE <2>2!1 /\ <2>2!2
      BY <3>1 DEF Empty
    <3>2. ASSUME disk' = [disk EXCEPT !.families = {"metadata"}, !.objects = NoObjects]
          PROVE  <2>2!1 /\ <2>2!2
      BY <3>2 DEF DataInv, Records
    <3> QED
      BY <2>1, <3>1, <3>2
  <2>3. Records'
    BY <2>1, <2>2 DEF DataInv, Records
  <2> QED
    BY <2>1, <2>2, <2>3 DEF DataInv, Progress, DataOpensAgain
<1>15. CASE UNCHANGED vars
  BY <1>15 DEF vars, DataInv, Records, Progress, Complete, DataOpensAgain
<1> QED
  BY <1>1, <1>2, <1>3, <1>4, <1>5, <1>6, <1>7, <1>8, <1>9, <1>10, <1>11, <1>12, <1>13, <1>14, <1>15
     DEF Next, Step

\* A directory that holds an object has its column families and metadata and
\* opens again, wherever in setup_database, state_delta::commit, close or
\* clear the process ends.
THEOREM DataSafe == Spec => []DataOpensAgain
<1>1. Init => DataInv
  BY InitData
<1>2. DataInv /\ [Next]_vars => DataInv'
  BY NextData
<1>3. DataInv => DataOpensAgain
  BY DEF DataInv, Progress
<1> QED
  BY <1>1, <1>2, <1>3, PTL DEF Spec

-----------------------------------------------------------------------------
(* The bytes of the cache *)

\* A sum over each set of positions, the last position first.
SumsOver(g, n, w) ==
  /\ g \in [SUBSET (1 .. n) -> Nat]
  /\ \A S \in SUBSET (1 .. n) : g[S] = IF S = {} THEN 0 ELSE g[S \ {Max(S)}] + w[Max(S)]

LEMMA MaxOfPositions ==
  ASSUME NEW n \in Nat, NEW S \in SUBSET (1 .. n), S # {}
  PROVE  Max(S) \in S /\ \A i \in S : i <= Max(S)
<1>1. S \in SUBSET Nat /\ \A i \in S : i <= n
  OBVIOUS
<1> QED
  BY <1>1, MaxIs

\* Sums over the sets of one position more.
LEMMA SumsGrow ==
  ASSUME NEW n \in Nat, NEW w, w[n + 1] \in Nat, NEW g, SumsOver(g, n, w)
  PROVE  \E h : SumsOver(h, n + 1, w)
<1> DEFINE h == [S \in SUBSET (1 .. n + 1) |->
                   IF n + 1 \in S THEN g[S \ {n + 1}] + w[n + 1] ELSE g[S]]
<1>1. \A S \in SUBSET (1 .. n + 1) : /\ S \ {n + 1} \in SUBSET (1 .. n)
                                     /\ n + 1 \notin S => S \in SUBSET (1 .. n)
  OBVIOUS
<1>2. h \in [SUBSET (1 .. n + 1) -> Nat]
  BY <1>1 DEF SumsOver
<1>3. ASSUME NEW S \in SUBSET (1 .. n + 1)
      PROVE  h[S] = IF S = {} THEN 0 ELSE h[S \ {Max(S)}] + w[Max(S)]
  <2>1. CASE S = {}
    BY <1>1, <2>1 DEF SumsOver
  <2>2. CASE n + 1 \in S
    <3>1. Max(S) \in S /\ \A i \in S : i <= Max(S)
      <4>1. n + 1 \in Nat /\ S # {}
        BY <2>2
      <4> HIDE DEF h
      <4> QED
        BY <4>1, MaxOfPositions
    <3>2. Max(S) = n + 1
      <4> HIDE DEF h
      <4>1. Max(S) \in 1 .. n + 1 /\ n + 1 <= Max(S)
        BY <2>2, <3>1
      <4> QED
        BY <4>1
    <3>3. h[S] = g[S \ {n + 1}] + w[n + 1]
      BY <2>2
    <3>4. h[S \ {n + 1}] = g[S \ {n + 1}]
      BY <1>1
    <3> HIDE DEF h
    <3> QED
      BY <2>2, <3>2, <3>3, <3>4
  <2>3. CASE S # {} /\ n + 1 \notin S
    <3>1. S \in SUBSET (1 .. n)
      BY <1>1, <2>3
    <3>2. h[S] = g[S] /\ h[S \ {Max(S)}] = g[S \ {Max(S)}]
      BY <2>3, <3>1
    <3>3. g[S] = g[S \ {Max(S)}] + w[Max(S)]
      BY <2>3, <3>1 DEF SumsOver
    <3> HIDE DEF h
    <3> QED
      BY <2>3, <3>2, <3>3
  <2> QED
    BY <2>1, <2>2, <2>3
<1>4. SumsOver(h, n + 1, w)
  <2> HIDE DEF h
  <2> QED
    BY <1>2, <1>3 DEF SumsOver
<1> QED
  BY <1>4

\* There are such sums: no least number of positions is without.
LEMMA SumsExist ==
  ASSUME NEW n \in Nat, NEW w, \A i \in 1 .. n : w[i] \in Nat
  PROVE  \E g : SumsOver(g, n, w)
<1> DEFINE Bad == {m \in 0 .. n : ~ \E g : SumsOver(g, m, w)}
<1> SUFFICES ASSUME Bad # {} PROVE FALSE
  OBVIOUS
<1>1. Bad \in SUBSET Nat
  OBVIOUS
<1>2. PICK m \in Bad : \A k \in Bad : m <= k
  <2> HIDE DEF Bad
  <2> QED
    BY <1>1, LeastNatural
<1>3. m # 0
  <2>1. SumsOver([S \in SUBSET (1 .. 0) |-> 0], 0, w)
    <3>1. SUBSET (1 .. 0) = {{}}
      OBVIOUS
    <3> QED
      BY <3>1 DEF SumsOver
  <2> QED
    BY <2>1
<1>4. m - 1 \in Nat /\ m - 1 \in 0 .. n /\ (m - 1) + 1 = m /\ m \in 1 .. n
  BY <1>3
<1>5. \E g : SumsOver(g, m - 1, w)
  BY <1>2, <1>4
<1>6. \E h : SumsOver(h, (m - 1) + 1, w)
  <2> HIDE DEF Bad
  <2> QED
    BY <1>4, <1>5, SumsGrow
<1> QED
  BY <1>4, <1>6

\* The sums of the bytes of the first entries of a list.
Sums(c, s, F) ==
  /\ F \in [0 .. Len(s) -> Nat]
  /\ F[0] = 0
  /\ \A i \in 1 .. Len(s) : F[i] = F[i - 1] + EntrySize[c.object[s[i]]]

\* The objects on a list have sizes.
Weighed(c, s) == s \in Seq(Keys) /\ \A i \in 1 .. Len(s) : EntrySize[c.object[s[i]]] \in Nat

\* _cache_size is the last of them.
LEMMA UsedExists ==
  ASSUME NEW c, NEW s, Weighed(c, s)
  PROVE  \E F : Sums(c, s, F) /\ UsedBy(c, s) = F[Len(s)]
<1> DEFINE n == Len(s)
           w == [i \in 1 .. n |-> EntrySize[c.object[s[i]]]]
           P(g) == g = [S \in SUBSET DOMAIN s |->
                          IF S = {} THEN 0 ELSE g[S \ {Max(S)}] + EntrySize[c.object[s[Max(S)]]]]
           iter == CHOOSE g : P(g)
<1>1. n \in Nat /\ DOMAIN s = 1 .. n /\ \A i \in 1 .. n : w[i] \in Nat
  BY DEF Weighed
<1>2. PICK g : SumsOver(g, n, w)
  <2> HIDE DEF n, w
  <2> QED
    BY <1>1, SumsExist
<1>3. ASSUME NEW S \in SUBSET (1 .. n), S # {}
      PROVE  Max(S) \in 1 .. n /\ w[Max(S)] = EntrySize[c.object[s[Max(S)]]]
  <2>1. Max(S) \in S
    BY <1>1, <1>3, MaxOfPositions
  <2> QED
    BY <2>1
<1>4. P(g)
  <2>1. \A S \in SUBSET DOMAIN s :
          g[S] = IF S = {} THEN 0 ELSE g[S \ {Max(S)}] + EntrySize[c.object[s[Max(S)]]]
    <3> HIDE DEF n, w
    <3> QED
      BY <1>1, <1>2, <1>3 DEF SumsOver
  <2>2. DOMAIN g = SUBSET DOMAIN s /\ g = [S \in DOMAIN g |-> g[S]]
    <3> HIDE DEF n, w
    <3> QED
      BY <1>1, <1>2 DEF SumsOver
  <2> QED
    BY <2>1, <2>2
<1>5. P(iter)
  <2> HIDE DEF P
  <2> QED
    BY <1>4
<1>6. UsedBy(c, s) = iter[1 .. n]
  <2>1. UsedBy(c, s) = iter[DOMAIN s]
    BY DEF UsedBy, FoldLeft, MapThenFoldSet
  <2> HIDE DEF iter
  <2> QED
    BY <1>1, <2>1
<1> HIDE DEF iter
<1> DEFINE F == [i \in 0 .. n |-> iter[1 .. i]]
<1>7. \A S \in SUBSET (1 .. n) : iter[S] = IF S = {} THEN 0 ELSE iter[S \ {Max(S)}] + w[Max(S)]
  BY <1>1, <1>3, <1>5
<1>8. F[0] = 0
  <2>1. 1 .. 0 = {} /\ {} \in SUBSET (1 .. n)
    OBVIOUS
  <2>2. iter[{}] = 0
    BY <1>7, <2>1
  <2> QED
    BY <1>1, <2>1, <2>2
<1>9. ASSUME NEW i \in 1 .. n
      PROVE  F[i] = F[i - 1] + w[i]
  <2>1. /\ 1 .. i \in SUBSET (1 .. n) /\ 1 .. i # {}
        /\ i \in Nat /\ i - 1 \in 0 .. n /\ i \in 0 .. n
        /\ (1 .. i) \ {i} = 1 .. (i - 1)
    <3> HIDE DEF n, w, F
    <3> QED
      BY <1>1
  <2>2. Max(1 .. i) \in 1 .. i /\ \A j \in 1 .. i : j <= Max(1 .. i)
    <3>1. \A S \in SUBSET (1 .. i) : S # {} => Max(S) \in S /\ \A j \in S : j <= Max(S)
      BY <2>1, MaxOfPositions
    <3> QED
      BY <2>1, <3>1
  <2>3. Max(1 .. i) = i
    BY <2>1, <2>2
  <2>4. iter[1 .. i] = iter[(1 .. i) \ {i}] + w[i]
    BY <1>7, <2>1, <2>3
  <2> QED
    BY <2>1, <2>4
<1>10. \A i \in 0 .. n : F[i] \in Nat
  <2> DEFINE Bad == {i \in 0 .. n : F[i] \notin Nat}
  <2> SUFFICES ASSUME Bad # {} PROVE FALSE
    OBVIOUS
  <2> HIDE DEF F, w, n
  <2>1. Bad \in SUBSET Nat
    BY <1>1
  <2>2. PICK i \in Bad : \A j \in Bad : i <= j
    BY <2>1, LeastNatural
  <2>3. i \in 1 .. n /\ i - 1 \in 0 .. n /\ i - 1 \notin Bad
    BY <1>1, <1>8, <2>2
  <2>4. F[i - 1] \in Nat /\ w[i] \in Nat /\ F[i] = F[i - 1] + w[i]
    BY <1>1, <1>9, <2>3
  <2> QED
    BY <2>2, <2>4
<1>11. Sums(c, s, F)
  <2>1. F \in [0 .. n -> Nat]
    BY <1>10
  <2>2. \A i \in 1 .. n : F[i] = F[i - 1] + EntrySize[c.object[s[i]]]
    BY <1>9
  <2> HIDE DEF F
  <2> QED
    BY <1>8, <2>1, <2>2 DEF Sums
<1>12. UsedBy(c, s) = F[n]
  BY <1>1, <1>6
<1> QED
  BY <1>11, <1>12

\* The sums are unique, so that any sums tell _cache_size.
LEMMA UsedIs ==
  ASSUME NEW c, NEW s, Weighed(c, s), NEW F, Sums(c, s, F)
  PROVE  UsedBy(c, s) = F[Len(s)]
<1>1. PICK G : Sums(c, s, G) /\ UsedBy(c, s) = G[Len(s)]
  BY UsedExists
<1>2. Len(s) \in Nat
  BY DEF Weighed
<1> DEFINE Bad == {i \in 0 .. Len(s) : F[i] # G[i]}
<1>3. Bad = {}
  <2> SUFFICES ASSUME Bad # {} PROVE FALSE
    OBVIOUS
  <2>1. Bad \in SUBSET Nat
    BY <1>2
  <2>2. PICK i \in Bad : \A j \in Bad : i <= j
    <3> HIDE DEF Bad
    <3> QED
      BY <2>1, LeastNatural
  <2>3. i # 0
    BY <1>1 DEF Sums
  <2>4. i \in 1 .. Len(s) /\ i - 1 \in 0 .. Len(s) /\ ~ (i <= i - 1)
    BY <1>2, <2>3
  <2>5. F[i - 1] = G[i - 1]
    BY <2>2, <2>4
  <2>6. F[i] = G[i]
    BY <1>1, <2>4, <2>5 DEF Sums
  <2> QED
    BY <2>6
<1> QED
  BY <1>1, <1>2, <1>3

LEMMA UsedType ==
  ASSUME NEW c, NEW s, Weighed(c, s)
  PROVE  UsedBy(c, s) \in Nat
<1>1. PICK G : Sums(c, s, G) /\ UsedBy(c, s) = G[Len(s)]
  BY UsedExists
<1>2. Len(s) \in Nat
  BY DEF Weighed
<1> QED
  BY <1>1, <1>2 DEF Sums

\* An empty list has no bytes.
LEMMA UsedNone ==
  ASSUME NEW c
  PROVE  UsedBy(c, <<>>) = 0
<1>1. Weighed(c, <<>>) /\ Len(<<>>) = 0
  BY DEF Weighed
<1>2. Sums(c, <<>>, [i \in 0 .. 0 |-> 0])
  BY DEF Sums
<1> QED
  BY <1>1, <1>2, UsedIs

\* The bytes are those of the objects on the list.
LEMMA UsedSame ==
  ASSUME NEW c, NEW d, NEW s, Weighed(c, s), \A i \in 1 .. Len(s) : d.object[s[i]] = c.object[s[i]]
  PROVE  Weighed(d, s) /\ UsedBy(d, s) = UsedBy(c, s)
<1>1. PICK F : Sums(c, s, F) /\ UsedBy(c, s) = F[Len(s)]
  BY UsedExists
<1>2. Sums(d, s, F)
  BY <1>1 DEF Sums
<1>3. Weighed(d, s)
  BY DEF Weighed
<1> QED
  BY <1>1, <1>2, <1>3, UsedIs

\* A new front adds its bytes.
LEMMA UsedFront ==
  ASSUME NEW c, NEW s, Weighed(c, s), NEW k \in Keys, EntrySize[c.object[k]] \in Nat
  PROVE  /\ Weighed(c, <<k>> \o s)
         /\ UsedBy(c, <<k>> \o s) = EntrySize[c.object[k]] + UsedBy(c, s)
<1> DEFINE t == <<k>> \o s
<1>1. /\ s \in Seq(Keys) /\ Len(s) \in Nat
      /\ t \in Seq(Keys) /\ Len(t) = Len(s) + 1 /\ t[1] = k
      /\ \A i \in 2 .. Len(t) : i - 1 \in 1 .. Len(s) /\ t[i] = s[i - 1]
  BY DEF Weighed
<1>2. PICK F : Sums(c, s, F) /\ UsedBy(c, s) = F[Len(s)]
  BY UsedExists
<1> DEFINE G == [i \in 0 .. Len(t) |-> IF i = 0 THEN 0 ELSE EntrySize[c.object[k]] + F[i - 1]]
<1> HIDE DEF t
<1>3. Weighed(c, t)
  <2>1. ASSUME NEW i \in 1 .. Len(t)
        PROVE  EntrySize[c.object[t[i]]] \in Nat
    <3>1. CASE i = 1
      BY <1>1, <3>1
    <3>2. CASE i # 1
      <4>1. i \in 2 .. Len(t)
        BY <1>1, <3>2
      <4> QED
        BY <1>1, <4>1 DEF Weighed
    <3> QED
      BY <3>1, <3>2
  <2> QED
    BY <1>1, <2>1 DEF Weighed
<1>4. Sums(c, t, G)
  <2>1. /\ F[0] = 0 /\ \A i \in 0 .. Len(s) : F[i] \in Nat
        /\ \A i \in 1 .. Len(s) : F[i] = F[i - 1] + EntrySize[c.object[s[i]]]
    BY <1>2 DEF Sums
  <2>2. G \in [0 .. Len(t) -> Nat] /\ G[0] = 0
    <3>1. \A i \in 1 .. Len(t) : i - 1 \in 0 .. Len(s) /\ EntrySize[c.object[k]] + F[i - 1] \in Nat
      BY <1>1, <2>1
    <3> QED
      BY <1>1, <3>1
  <2>3. ASSUME NEW i \in 1 .. Len(t)
        PROVE  G[i] = G[i - 1] + EntrySize[c.object[t[i]]]
    <3>1. i \in 0 .. Len(t) /\ i - 1 \in 0 .. Len(t) /\ i # 0 /\ i \in Int
      BY <1>1
    <3>2. G[i] = EntrySize[c.object[k]] + F[i - 1]
      BY <3>1
    <3>3. CASE i = 1
      <4>1. i - 1 = 0 /\ G[i - 1] = 0 /\ t[i] = k /\ F[i - 1] = 0
        BY <1>1, <2>1, <2>2, <3>3
      <4> HIDE DEF G
      <4> QED
        BY <3>2, <4>1
    <3>4. CASE i # 1
      <4>1. i - 1 \in 1 .. Len(s) /\ t[i] = s[i - 1] /\ i - 1 # 0 /\ i - 2 \in 0 .. Len(s)
        BY <1>1, <3>1, <3>4
      <4>2. G[i - 1] = EntrySize[c.object[k]] + F[(i - 1) - 1]
        BY <3>1, <4>1
      <4>3. F[i - 1] = F[(i - 1) - 1] + EntrySize[c.object[s[i - 1]]] /\ (i - 1) - 1 = i - 2
        BY <2>1, <4>1
      <4>4. EntrySize[c.object[s[i - 1]]] \in Nat /\ F[i - 2] \in Nat
        BY <2>1, <4>1 DEF Weighed
      <4> HIDE DEF G
      <4> QED
        BY <3>2, <4>1, <4>2, <4>3, <4>4
    <3> QED
      BY <3>3, <3>4
  <2> HIDE DEF G
  <2> QED
    BY <2>2, <2>3 DEF Sums
<1>5. UsedBy(c, t) = G[Len(t)]
  <2> HIDE DEF G
  <2> QED
    BY <1>3, <1>4, UsedIs
<1>6. G[Len(t)] = EntrySize[c.object[k]] + F[Len(s)]
  BY <1>1
<1> QED
  BY <1>2, <1>3, <1>5, <1>6 DEF t

\* A list without the entry at a position.
LEMMA RemoveAtIs ==
  ASSUME NEW S, NEW s \in Seq(S), NEW p \in 1 .. Len(s)
  PROVE  /\ RemoveAt(s, p) \in Seq(S)
         /\ Len(RemoveAt(s, p)) = Len(s) - 1
         /\ \A i \in 1 .. Len(s) - 1 : RemoveAt(s, p)[i] = IF i < p THEN s[i] ELSE s[i + 1]
<1> DEFINE a == SubSeq(s, 1, p - 1)
           b == SubSeq(s, p + 1, Len(s))
<1>1. Len(s) \in Nat /\ p \in Nat
  OBVIOUS
<1>2. a \in Seq(S) /\ Len(a) = p - 1 /\ \A i \in 1 .. p - 1 : a[i] = s[i]
  BY <1>1
<1>3. b \in Seq(S) /\ Len(b) = Len(s) - p /\ \A i \in 1 .. Len(s) - p : b[i] = s[i + p]
  BY <1>1
<1>4. RemoveAt(s, p) = a \o b
  BY DEF RemoveAt
<1> HIDE DEF a, b
<1>5. a \o b \in Seq(S) /\ Len(a \o b) = Len(s) - 1
  <2>1. a \o b \in Seq(S) /\ Len(a \o b) = Len(a) + Len(b)
    BY <1>2, <1>3, ConcatProperties
  <2> QED
    BY <1>1, <1>2, <1>3, <2>1
<1>6. ASSUME NEW i \in 1 .. Len(s) - 1
      PROVE  (a \o b)[i] = IF i < p THEN s[i] ELSE s[i + 1]
  <2>1. CASE i < p
    BY <1>1, <1>2, <1>3, <2>1
  <2>2. CASE ~ (i < p)
    <3>1. i - (p - 1) \in 1 .. Len(s) - p /\ (i - (p - 1)) + p = i + 1
      BY <1>1, <2>2
    <3>2. (a \o b)[i] = b[i - (p - 1)]
      BY <1>1, <1>2, <1>3, <2>2
    <3> QED
      BY <1>3, <2>2, <3>1, <3>2
  <2> QED
    BY <2>1, <2>2
<1> QED
  BY <1>4, <1>5, <1>6

\* One entry less has its bytes less.
LEMMA UsedWithout ==
  ASSUME NEW c, NEW s, Weighed(c, s), NEW p \in 1 .. Len(s)
  PROVE  /\ Weighed(c, RemoveAt(s, p))
         /\ UsedBy(c, s) = EntrySize[c.object[s[p]]] + UsedBy(c, RemoveAt(s, p))
<1> DEFINE t == RemoveAt(s, p)
           w == EntrySize[c.object[s[p]]]
<1>1. /\ s \in Seq(Keys) /\ Len(s) \in Nat /\ w \in Nat
      /\ t \in Seq(Keys) /\ Len(t) = Len(s) - 1
      /\ \A i \in 1 .. Len(t) : t[i] = IF i < p THEN s[i] ELSE s[i + 1]
  <2>1. s \in Seq(Keys) /\ Len(s) \in Nat /\ w \in Nat
    BY DEF Weighed
  <2>2. /\ t \in Seq(Keys) /\ Len(t) = Len(s) - 1
        /\ \A i \in 1 .. Len(s) - 1 : t[i] = IF i < p THEN s[i] ELSE s[i + 1]
    BY <2>1, RemoveAtIs
  <2> QED
    BY <2>1, <2>2
<1>2. PICK F : Sums(c, s, F) /\ UsedBy(c, s) = F[Len(s)]
  BY UsedExists
<1>3. /\ F[0] = 0 /\ \A i \in 0 .. Len(s) : F[i] \in Nat
      /\ \A i \in 1 .. Len(s) : F[i] = F[i - 1] + EntrySize[c.object[s[i]]]
  BY <1>2 DEF Sums
<1> HIDE DEF t, w
<1>4. Weighed(c, t)
  <2>1. ASSUME NEW i \in 1 .. Len(t)
        PROVE  EntrySize[c.object[t[i]]] \in Nat
    <3>1. i \in 1 .. Len(s) /\ i + 1 \in 1 .. Len(s)
      BY <1>1
    <3> QED
      BY <1>1, <3>1 DEF Weighed
  <2> QED
    BY <1>1, <2>1 DEF Weighed
<1>5. \A i \in p .. Len(s) : F[i] >= w
  <2> DEFINE Bad == {i \in p .. Len(s) : ~ (F[i] >= w)}
  <2> SUFFICES ASSUME Bad # {} PROVE FALSE
    OBVIOUS
  <2>1. Bad \in SUBSET Nat
    BY <1>1
  <2>2. PICK i \in Bad : \A j \in Bad : i <= j
    <3> HIDE DEF Bad
    <3> QED
      BY <2>1, LeastNatural
  <2>3. i \in 1 .. Len(s) /\ i - 1 \in 0 .. Len(s) /\ ~ (i <= i - 1)
    BY <1>1
  <2>4. F[i] = F[i - 1] + EntrySize[c.object[s[i]]] /\ F[i - 1] \in Nat
        /\ EntrySize[c.object[s[i]]] \in Nat
    BY <1>3, <2>3 DEF Weighed
  <2>5. CASE i = p
    <3>1. F[i] = F[i - 1] + w
      BY <2>4, <2>5 DEF w
    <3> QED
      BY <1>1, <2>2, <2>4, <3>1
  <2>6. CASE i # p
    <3>1. i - 1 \in p .. Len(s) /\ i - 1 \notin Bad
      BY <1>1, <2>2, <2>3, <2>6
    <3>2. F[i - 1] >= w
      BY <3>1
    <3> QED
      BY <1>1, <2>2, <2>4, <3>2
  <2> QED
    BY <2>5, <2>6
<1> DEFINE G == [i \in 0 .. Len(t) |-> IF i < p THEN F[i] ELSE F[i + 1] - w]
<1>6. Sums(c, t, G)
  <2>1. ASSUME NEW i \in 0 .. Len(t)
        PROVE  (IF i < p THEN F[i] ELSE F[i + 1] - w) \in Nat
    <3>1. CASE i < p
      <4>1. i \in 0 .. Len(s)
        BY <1>1
      <4> QED
        BY <1>3, <3>1, <4>1
    <3>2. CASE ~ (i < p)
      <4>1. i + 1 \in p .. Len(s) /\ i + 1 \in 0 .. Len(s)
        BY <1>1, <3>2
      <4>2. F[i + 1] \in Nat /\ F[i + 1] >= w
        BY <1>3, <1>5, <4>1
      <4> QED
        BY <1>1, <3>2, <4>2
    <3> QED
      BY <3>1, <3>2
  <2>2. G \in [0 .. Len(t) -> Nat] /\ G[0] = 0
    BY <1>1, <1>3, <2>1
  <2>3. ASSUME NEW i \in 1 .. Len(t)
        PROVE  G[i] = G[i - 1] + EntrySize[c.object[t[i]]]
    <3>1. i \in 0 .. Len(t) /\ i - 1 \in 0 .. Len(t) /\ i \in 1 .. Len(s) /\ i + 1 \in 1 .. Len(s)
      BY <1>1
    <3>2. /\ F[i] = F[i - 1] + EntrySize[c.object[s[i]]]
          /\ F[i + 1] = F[(i + 1) - 1] + EntrySize[c.object[s[i + 1]]]
          /\ (i + 1) - 1 = i
      BY <1>3, <3>1
    <3>3. CASE i < p
      <4>1. G[i] = F[i] /\ G[i - 1] = F[i - 1] /\ t[i] = s[i]
        BY <1>1, <3>1, <3>3
      <4> QED
        BY <3>2, <4>1
    <3>4. CASE i = p
      <4>1. G[i] = F[i + 1] - w /\ G[i - 1] = F[i - 1] /\ t[i] = s[i + 1]
        BY <1>1, <3>1, <3>4
      <4>2. F[i] = F[i - 1] + w
        BY <3>2, <3>4 DEF w
      <4>3. F[i - 1] \in Nat /\ EntrySize[c.object[s[i + 1]]] \in Nat
        BY <1>1, <1>3, <3>1 DEF Weighed
      <4> HIDE DEF G
      <4> QED
        BY <1>1, <3>2, <4>1, <4>2, <4>3
    <3>5. CASE p < i
      <4>1. G[i] = F[i + 1] - w /\ G[i - 1] = F[(i - 1) + 1] - w /\ (i - 1) + 1 = i /\ t[i] = s[i + 1]
        BY <1>1, <3>1, <3>5
      <4>2. F[i] \in Nat /\ EntrySize[c.object[s[i + 1]]] \in Nat
        BY <1>1, <1>3, <3>1 DEF Weighed
      <4> HIDE DEF G
      <4> QED
        BY <1>1, <3>2, <4>1, <4>2
    <3> QED
      BY <1>1, <3>1, <3>3, <3>4, <3>5
  <2> HIDE DEF G
  <2> QED
    BY <2>2, <2>3 DEF Sums
<1>7. UsedBy(c, t) = G[Len(t)]
  <2> HIDE DEF G
  <2> QED
    BY <1>4, <1>6, UsedIs
<1>8. F[Len(s)] = w + G[Len(t)]
  <2>1. Len(t) \in Nat /\ Len(s) \in 0 .. Len(s) /\ Len(t) \in 0 .. Len(t)
    BY <1>1
  <2>2. CASE p = Len(s)
    <3>1. G[Len(t)] = F[Len(s) - 1] /\ F[Len(s)] = F[Len(s) - 1] + w /\ F[Len(s) - 1] \in Nat
      BY <1>1, <1>3, <2>1, <2>2 DEF w
    <3> HIDE DEF G
    <3> QED
      BY <1>1, <3>1
  <2>3. CASE p # Len(s)
    <3>1. G[Len(t)] = F[Len(s)] - w /\ F[Len(s)] \in Nat
      BY <1>1, <1>3, <2>1, <2>3
    <3> HIDE DEF G
    <3> QED
      BY <1>1, <3>1
  <2> QED
    BY <2>2, <2>3
<1> QED
  BY <1>2, <1>4, <1>7, <1>8 DEF t, w

-----------------------------------------------------------------------------
(* The list and the map of the cache *)

\* No key twice.
Once(s) == \A i, j \in 1 .. Len(s) : s[i] = s[j] => i = j

\* The list and the map of a cache hold the same keys.
Listed(c) ==
  /\ c.object \in [DOMAIN c.object -> Values \cup {Absent}]
  /\ DOMAIN c.object \subseteq Keys
  /\ c.lru \in Seq(Keys)
  /\ Once(c.lru)
  /\ Range(c.lru) = DOMAIN c.object

CacheInv(c) == Listed(c) /\ UsedBy(c, c.lru) <= CacheSize

\* A list without repetition is as long as the set of its keys.
LEMMA CacheInvOK ==
  ASSUME NEW c, CacheInv(c)
  PROVE  CacheOK(c)
<1>1. Listed(c) /\ Len(c.lru) \in Nat /\ DOMAIN c.lru = 1 .. Len(c.lru)
  BY DEF CacheInv, Listed
<1>2. \A k \in DOMAIN c.object : \E i \in 1 .. Len(c.lru) : c.lru[i] = k
  BY <1>1 DEF Listed, Range
<1>3. c.lru \in [1 .. Len(c.lru) -> DOMAIN c.object]
  BY <1>1 DEF Listed, Range
<1>4. c.lru \in Bijection(1 .. Len(c.lru), DOMAIN c.object)
  BY <1>1, <1>2, <1>3 DEF Bijection, Injection, Surjection, IsInjective, Listed, Once
<1>5. Cardinality(DOMAIN c.object) = Len(c.lru)
  BY <1>1, <1>4, FS_CountingElements DEF ExistsBijection
<1> QED
  BY <1>1, <1>5 DEF CacheOK, CacheInv, Listed

\* What is on the list of a cache has a size.
LEMMA ListedWeighed ==
  ASSUME NEW c, Listed(c)
  PROVE  Weighed(c, c.lru)
<1>1. \A i \in 1 .. Len(c.lru) : c.object[c.lru[i]] \in Values \cup {Absent}
  <2>1. \A i \in 1 .. Len(c.lru) : c.lru[i] \in DOMAIN c.object
    BY DEF Listed, Range
  <2> QED
    BY <2>1 DEF Listed
<1>2. \A v \in Values \cup {Absent} : EntrySize[v] \in Nat
  BY CacheAssumption
<1> QED
  BY <1>1, <1>2 DEF Weighed, Listed

\* A key that was not on a list comes to its front.
LEMMA FrontListed ==
  ASSUME NEW s \in Seq(Keys), Once(s), NEW k \in Keys, k \notin Range(s)
  PROVE  <<k>> \o s \in Seq(Keys) /\ Once(<<k>> \o s) /\ Range(<<k>> \o s) = Range(s) \cup {k}
<1> DEFINE t == <<k>> \o s
<1>1. /\ t \in Seq(Keys) /\ Len(s) \in Nat /\ Len(t) = Len(s) + 1 /\ t[1] = k
      /\ DOMAIN t = 1 .. Len(t) /\ DOMAIN s = 1 .. Len(s)
      /\ \A i \in 2 .. Len(t) : i - 1 \in 1 .. Len(s) /\ t[i] = s[i - 1]
      /\ \A i \in 1 .. Len(s) : t[i + 1] = s[i]
  OBVIOUS
<1> HIDE DEF t
<1>2. \A i \in 2 .. Len(t) : t[i] \in Range(s)
  BY <1>1 DEF Range
<1>3. Once(t)
  <2>1. ASSUME NEW i \in 1 .. Len(t), NEW j \in 1 .. Len(t), t[i] = t[j]
        PROVE  i = j
    <3>1. CASE i = 1 \/ j = 1
      <4>1. i \in Int /\ j \in Int /\ (i = 1 \/ i \in 2 .. Len(t)) /\ (j = 1 \/ j \in 2 .. Len(t))
        BY <1>1
      <4> QED
        BY <1>1, <1>2, <2>1, <3>1, <4>1
    <3>2. CASE i # 1 /\ j # 1
      <4>1. i \in 2 .. Len(t) /\ j \in 2 .. Len(t) /\ i \in Int /\ j \in Int
        BY <1>1, <3>2
      <4>2. i - 1 \in 1 .. Len(s) /\ j - 1 \in 1 .. Len(s) /\ s[i - 1] = s[j - 1]
        BY <1>1, <2>1, <4>1
      <4>3. i - 1 = j - 1
        BY <4>2 DEF Once
      <4> QED
        BY <4>1, <4>3
    <3> QED
      BY <3>1, <3>2
  <2> QED
    BY <2>1 DEF Once
<1>4. Range(t) = Range(s) \cup {k}
  <2>1. ASSUME NEW x \in Range(t) PROVE x \in Range(s) \cup {k}
    <3>1. PICK i \in 1 .. Len(t) : x = t[i]
      BY <1>1 DEF Range
    <3>2. i = 1 \/ i \in 2 .. Len(t)
      BY <1>1
    <3> QED
      BY <1>1, <1>2, <3>1, <3>2
  <2>2. ASSUME NEW x \in Range(s) PROVE x \in Range(t)
    <3>1. PICK i \in 1 .. Len(s) : x = s[i]
      BY <1>1 DEF Range
    <3>2. i + 1 \in 1 .. Len(t) /\ t[i + 1] = x
      BY <1>1, <3>1
    <3> QED
      BY <1>1, <3>2 DEF Range
  <2>3. k \in Range(t)
    <3>1. 1 \in DOMAIN t
      BY <1>1
    <3> QED
      BY <1>1, <3>1 DEF Range
  <2> QED
    BY <2>1, <2>2, <2>3
<1> QED
  BY <1>1, <1>3, <1>4 DEF t

\* A key taken from a list that holds it once is gone.
LEMMA RemovedListed ==
  ASSUME NEW s \in Seq(Keys), Once(s), NEW k
  PROVE  LET t == RemoveFirst(s, k)
         IN  /\ t \in Seq(Keys) /\ Once(t) /\ Range(t) = Range(s) \ {k}
             /\ k \in Range(s) => \E p \in 1 .. Len(s) : s[p] = k /\ t = RemoveAt(s, p)
<1> DEFINE t == RemoveFirst(s, k)
           I == {i \in 1 .. Len(s) : s[i] = k}
<1>1. Len(s) \in Nat /\ DOMAIN s = 1 .. Len(s)
  OBVIOUS
<1>2. CASE k \notin Range(s)
  <2>1. t = s
    BY <1>1, <1>2 DEF RemoveFirst, Range
  <2> QED
    BY <1>2, <2>1
<1>3. CASE k \in Range(s)
  <2>1. I # {} /\ I \in SUBSET Nat
    BY <1>1, <1>3 DEF Range
  <2>2. t = RemoveAt(s, Min(I))
    BY <2>1 DEF RemoveFirst, SelectInSeq
  <2>3. Min(I) \in I
    <3> HIDE DEF I
    <3> QED
      BY <2>1, MinIs
  <2> DEFINE p == Min(I)
  <2>4. p \in 1 .. Len(s) /\ s[p] = k /\ t = RemoveAt(s, p)
    BY <2>2, <2>3
  <2> HIDE DEF p, t, I
  <2>5. /\ t \in Seq(Keys) /\ Len(t) = Len(s) - 1
        /\ \A i \in 1 .. Len(s) - 1 : t[i] = IF i < p THEN s[i] ELSE s[i + 1]
    BY <2>4, RemoveAtIs
  <2> DEFINE At(i) == IF i < p THEN i ELSE i + 1
  <2>6. \A i \in 1 .. Len(t) : At(i) \in 1 .. Len(s) /\ At(i) # p /\ t[i] = s[At(i)]
    BY <1>1, <2>4, <2>5
  <2>7. \A i, j \in 1 .. Len(t) : At(i) = At(j) => i = j
    BY <1>1, <2>4, <2>5
  <2>8. \A m \in 1 .. Len(s) : m # p => \E i \in 1 .. Len(t) : At(i) = m
    <3>1. ASSUME NEW m \in 1 .. Len(s), m # p PROVE \E i \in 1 .. Len(t) : At(i) = m
      <4>1. CASE m < p
        BY <1>1, <2>4, <2>5, <4>1
      <4>2. CASE ~ (m < p)
        <5>1. m - 1 \in 1 .. Len(t) /\ At(m - 1) = m
          BY <1>1, <2>4, <2>5, <3>1, <4>2
        <5> QED
          BY <5>1
      <4> QED
        BY <4>1, <4>2
    <3> QED
      BY <3>1
  <2> HIDE DEF At
  <2>9. Once(t)
    BY <2>6, <2>7 DEF Once
  <2>10. DOMAIN t = 1 .. Len(t)
    BY <2>5
  <2>11. \A m \in 1 .. Len(s) : s[m] = k => m = p
    BY <2>4 DEF Once
  <2>12. Range(t) = Range(s) \ {k}
    <3>1. ASSUME NEW x \in Range(t) PROVE x \in Range(s) \ {k}
      <4>1. PICK i \in 1 .. Len(t) : x = t[i]
        BY <2>10 DEF Range
      <4> QED
        BY <1>1, <2>6, <2>11, <4>1 DEF Range
    <3>2. ASSUME NEW x \in Range(s) \ {k} PROVE x \in Range(t)
      <4>1. PICK m \in 1 .. Len(s) : x = s[m]
        BY <1>1 DEF Range
      <4>2. m # p
        BY <2>4, <4>1
      <4>3. PICK i \in 1 .. Len(t) : At(i) = m
        BY <2>8, <4>2
      <4>4. x = t[i]
        BY <2>6, <4>1, <4>3
      <4> QED
        BY <2>10, <4>4 DEF Range
    <3> QED
      BY <3>1, <3>2
  <2> QED
    BY <2>4, <2>5, <2>9, <2>12 DEF t
<1> QED
  BY <1>2, <1>3

\* The cache of a backend that was just made.
LEMMA EmptyCacheInv == CacheInv(EmptyCache)
<1>1. EmptyCache.lru = <<>> /\ EmptyCache.object = [k \in {} |-> Absent]
  BY DEF EmptyCache
<1>2. Listed(EmptyCache)
  BY <1>1 DEF Listed, Once, Range
<1> QED
  BY <1>1, <1>2, UsedNone, CacheAssumption DEF CacheInv

\* get: the key that comes to the front leaves its place, and the bytes stay.
LEMMA CacheGetInv ==
  ASSUME NEW c, c = [lru |-> c.lru, object |-> c.object], CacheInv(c), NEW k \in Keys
  PROVE  CacheInv(CacheGet(c, k))
<1>1. CASE ~ IsCached(c, k)
  BY <1>1 DEF CacheGet
<1>2. CASE IsCached(c, k)
  <2> DEFINE d == CacheGet(c, k)
             r == RemoveFirst(c.lru, k)
  <2>1. d.object = c.object /\ d.lru = <<k>> \o r
    BY <1>2 DEF CacheGet, Touched
  <2>2. Listed(c) /\ k \in Range(c.lru) /\ c.lru \in Seq(Keys) /\ Once(c.lru)
    BY <1>2 DEF CacheInv, Listed, IsCached
  <2> HIDE DEF d, r
  <2>3. /\ r \in Seq(Keys) /\ Once(r) /\ Range(r) = Range(c.lru) \ {k}
        /\ \E p \in 1 .. Len(c.lru) : c.lru[p] = k /\ r = RemoveAt(c.lru, p)
    BY <2>2, RemovedListed DEF r
  <2>4. Listed(d)
    <3>1. /\ <<k>> \o r \in Seq(Keys) /\ Once(<<k>> \o r)
          /\ Range(<<k>> \o r) = Range(r) \cup {k}
      BY <2>3, FrontListed
    <3> QED
      BY <2>1, <2>2, <2>3, <3>1 DEF Listed
  <2>5. Weighed(c, c.lru)
    BY <2>2, ListedWeighed
  <2>6. Weighed(c, r) /\ UsedBy(c, c.lru) = EntrySize[c.object[k]] + UsedBy(c, r)
    BY <2>3, <2>5, UsedWithout
  <2>7. EntrySize[c.object[k]] \in Nat
    BY <2>3, <2>5 DEF Weighed
  <2>8. UsedBy(c, <<k>> \o r) = EntrySize[c.object[k]] + UsedBy(c, r) /\ Weighed(c, <<k>> \o r)
    BY <2>6, <2>7, UsedFront
  <2>9. UsedBy(d, d.lru) = UsedBy(c, <<k>> \o r)
    <3> DEFINE t == <<k>> \o r
    <3>1. Weighed(c, t) /\ \A i \in 1 .. Len(t) : d.object[t[i]] = c.object[t[i]]
      BY <2>1, <2>8
    <3> HIDE DEF t
    <3>2. UsedBy(d, t) = UsedBy(c, t)
      BY <3>1, UsedSame
    <3> QED
      BY <2>1, <3>2 DEF t
  <2> QED
    BY <2>4, <2>6, <2>8, <2>9 DEF CacheInv, d
<1> QED
  BY <1>1, <1>2

\* remove, also of a key that is not cached.
LEMMA CacheRemoveListed ==
  ASSUME NEW c, Listed(c), NEW k
  PROVE  Listed(CacheRemove(c, k)) /\ k \notin DOMAIN CacheRemove(c, k).object
<1> DEFINE d == CacheRemove(c, k)
<1>1. d.lru = RemoveFirst(c.lru, k) /\ d.object = Restrict(c.object, DOMAIN c.object \ {k})
  BY DEF CacheRemove
<1> HIDE DEF d
<1>2. d.lru \in Seq(Keys) /\ Once(d.lru) /\ Range(d.lru) = Range(c.lru) \ {k}
  BY <1>1, RemovedListed DEF Listed
<1>3. /\ DOMAIN d.object = DOMAIN c.object \ {k}
      /\ d.object \in [DOMAIN d.object -> Values \cup {Absent}]
  BY <1>1 DEF Listed, Restrict
<1> QED
  BY <1>2, <1>3 DEF Listed, d

\* After an eviction the new bytes fit.
LEMMA EvictListed ==
  ASSUME NEW c, Listed(c), NEW size \in Nat, size <= CacheSize
  PROVE  LET e == Evict(c, size)
         IN  /\ Listed(e) /\ DOMAIN e.object \subseteq DOMAIN c.object
             /\ UsedBy(e, e.lru) + size <= CacheSize
<1> DEFINE fitting == {n \in 0 .. Len(c.lru) : UsedBy(c, SubSeq(c.lru, 1, n)) + size <= CacheSize}
           m    == Max(fitting)
           kept == SubSeq(c.lru, 1, m)
           e    == Evict(c, size)
<1>1. e.lru = kept /\ e.object = Restrict(c.object, DOMAIN c.object \cap Range(kept))
  BY DEF Evict
<1>2. c.lru \in Seq(Keys) /\ Len(c.lru) \in Nat
  BY DEF Listed
<1>3. 0 \in fitting
  <2>1. SubSeq(c.lru, 1, 0) = <<>>
    BY SubSeqEmpty
  <2>2. UsedBy(c, SubSeq(c.lru, 1, 0)) = 0
    BY <2>1, UsedNone
  <2>3. 0 \in 0 .. Len(c.lru) /\ 0 + size <= CacheSize
    BY <1>2
  <2> QED
    BY <2>2, <2>3
<1>4. m \in fitting
  <2>1. fitting \in SUBSET Nat /\ \A n \in fitting : n <= Len(c.lru)
    BY <1>2
  <2> HIDE DEF fitting
  <2> QED
    BY <1>2, <1>3, <2>1, MaxIs
<1> HIDE DEF m, e
<1>5. m \in 0 .. Len(c.lru) /\ UsedBy(c, kept) + size <= CacheSize
  BY <1>4
<1>6. /\ kept \in Seq(Keys) /\ Len(kept) = m /\ DOMAIN kept = 1 .. m
      /\ \A i \in 1 .. m : kept[i] = c.lru[i]
  BY <1>2, <1>5
<1> HIDE DEF kept
<1>7. Once(kept)
  BY <1>2, <1>5, <1>6 DEF Once, Listed
<1>8. Range(kept) \subseteq DOMAIN c.object
  <2>1. \A i \in 1 .. m : kept[i] \in Range(c.lru)
    BY <1>2, <1>5, <1>6 DEF Range
  <2> QED
    BY <1>6, <2>1 DEF Listed, Range
<1>9. /\ DOMAIN e.object = Range(kept)
      /\ e.object \in [DOMAIN e.object -> Values \cup {Absent}]
      /\ \A k \in Range(kept) : e.object[k] = c.object[k]
  BY <1>1, <1>8 DEF Restrict, Listed
<1>10. Listed(e)
  BY <1>1, <1>6, <1>7, <1>8, <1>9 DEF Listed
<1>11. Weighed(c, kept)
  <2>1. Weighed(c, c.lru)
    BY ListedWeighed
  <2> QED
    BY <1>2, <1>5, <1>6, <2>1 DEF Weighed
<1>12. \A i \in 1 .. Len(kept) : e.object[kept[i]] = c.object[kept[i]]
  BY <1>6, <1>9 DEF Range
<1>13. UsedBy(e, kept) = UsedBy(c, kept)
  BY <1>11, <1>12, UsedSame
<1> QED
  BY <1>1, <1>5, <1>8, <1>9, <1>10, <1>13 DEF e

\* put: removed first, the key is not counted twice.
LEMMA CachePutInv ==
  ASSUME NEW c, Listed(c), NEW k \in Keys, NEW v \in Values \cup {Absent}
  PROVE  CacheInv(CachePut(c, k, v))
<1> DEFINE r == CacheRemove(c, k)
           e == Evict(r, EntrySize[v])
           d == CachePut(c, k, v)
<1>1. d.lru = <<k>> \o e.lru /\ d.object = Store(e.object, k, v)
  BY DEF CachePut
<1>2. Listed(r) /\ k \notin DOMAIN r.object
  BY CacheRemoveListed
<1>3. EntrySize[v] \in Nat /\ EntrySize[v] <= CacheSize
  BY CacheAssumption
<1> HIDE DEF r
<1>4. /\ Listed(e) /\ DOMAIN e.object \subseteq DOMAIN r.object
      /\ UsedBy(e, e.lru) + EntrySize[v] <= CacheSize
  BY <1>2, <1>3, EvictListed
<1> HIDE DEF e, d
<1>5. k \notin Range(e.lru) /\ e.lru \in Seq(Keys) /\ Once(e.lru)
  BY <1>2, <1>4 DEF Listed
<1>6. /\ DOMAIN d.object = DOMAIN e.object \cup {k} /\ d.object[k] = v
      /\ d.object \in [DOMAIN d.object -> Values \cup {Absent}]
      /\ \A j \in DOMAIN e.object : d.object[j] = e.object[j]
  BY <1>1, <1>2, <1>4 DEF Store, Listed
<1>7. Listed(d)
  <2>1. d.lru \in Seq(Keys) /\ Once(d.lru) /\ Range(d.lru) = Range(e.lru) \cup {k}
    BY <1>1, <1>5, FrontListed
  <2> QED
    BY <1>4, <1>6, <2>1 DEF Listed
<1>8. Weighed(d, e.lru) /\ UsedBy(d, e.lru) = UsedBy(e, e.lru)
  <2>1. Weighed(e, e.lru)
    BY <1>4, ListedWeighed
  <2>2. \A i \in 1 .. Len(e.lru) : e.lru[i] \in DOMAIN e.object
    BY <1>4 DEF Listed, Range
  <2>3. \A i \in 1 .. Len(e.lru) : d.object[e.lru[i]] = e.object[e.lru[i]]
    BY <1>6, <2>2
  <2> QED
    BY <2>1, <2>3, UsedSame
<1>9. UsedBy(d, d.lru) = EntrySize[v] + UsedBy(d, e.lru)
  BY <1>1, <1>3, <1>6, <1>8, UsedFront
<1>10. UsedBy(e, e.lru) \in Nat
  BY <1>4, ListedWeighed, UsedType
<1>11. UsedBy(d, d.lru) <= CacheSize
  BY <1>3, <1>4, <1>8, <1>9, <1>10, CacheAssumption
<1> QED
  BY <1>7, <1>11 DEF CacheInv, d

-----------------------------------------------------------------------------
(* Types *)

\* The deltas that touch a key.
Touching(s, k) == Writers(s, k) \cup Removers(s, k)

\* The highest delta that touches a key decides what it becomes.
LEMMA AppliedAt ==
  ASSUME NEW c, NEW s \in Seq(Delta), NEW k \in Keys
  PROVE  /\ Touching(s, k) \subseteq 1 .. Len(s)
         /\ Touching(s, k) = {} => Applied(c, s)[k] = c[k]
         /\ Touching(s, k) # {} => \E m \in Touching(s, k) : \A i \in Touching(s, k) : i <= m
         /\ \A m \in Touching(s, k) :
              (\A i \in Touching(s, k) : i <= m) => Applied(c, s)[k] = s[m].object[k]
<1> DEFINE S == Touching(s, k)
<1>1. S \subseteq 1 .. Len(s) /\ Len(s) \in Nat
  BY DEF Touching, Writers, Removers
<1>2. Applied(c, s)[k] = IF S = {} THEN c[k] ELSE s[Max(S)].object[k]
  BY DEF Applied, Touching
<1> HIDE DEF S
<1>3. S # {} => Max(S) \in S /\ \A i \in S : i <= Max(S)
  BY <1>1, MaxOfPositions
<1>4. ASSUME NEW m \in S, \A i \in S : i <= m
      PROVE  m = Max(S)
  <2>1. Max(S) \in S /\ m <= Max(S) /\ Max(S) <= m
    BY <1>3, <1>4
  <2>2. \A i \in S : i \in Nat
    BY <1>1
  <2> QED
    BY <2>1, <2>2
<1>5. /\ S = {} => Applied(c, s)[k] = c[k]
      /\ S # {} => \E m \in S : \A i \in S : i <= m
      /\ \A m \in S : (\A i \in S : i <= m) => Applied(c, s)[k] = s[m].object[k]
  BY <1>2, <1>3, <1>4
<1> QED
  BY <1>1, <1>5 DEF S

\* What a stack of any height makes of contents are contents.
LEMMA AppliedType ==
  ASSUME NEW c \in Contents, NEW s \in Seq(Delta)
  PROVE  Applied(c, s) \in Contents
<1>1. ASSUME NEW k \in Keys
      PROVE  Applied(c, s)[k] \in Values \cup {Absent}
  <2>1. CASE Touching(s, k) = {}
    BY <2>1, AppliedAt DEF Contents
  <2>2. CASE Touching(s, k) # {}
    <3>1. PICK m \in 1 .. Len(s) : Applied(c, s)[k] = s[m].object[k]
      BY <2>2, AppliedAt
    <3>2. s[m] \in Delta
      OBVIOUS
    <3> QED
      BY <3>1, <3>2 DEF Delta, Contents
  <2> QED
    BY <2>1, <2>2
<1> QED
  BY <1>1 DEF Applied, Contents

\* The values the metadata may have.
Bound(f) == IF f = "size" THEN SizeLimit - 1 ELSE MaxNode

MetadataType ==
  /\ DOMAIN disk.metadata \subseteq Range(Fields)
  /\ \A f \in DOMAIN disk.metadata : disk.metadata[f] \in 0 .. Bound(f)

\* The type invariant, part by part.
DiskType ==
  /\ disk.families \subseteq Families
  /\ disk.objects \in Contents
  /\ MetadataType

RdbType ==
  /\ rdb.size \in 0 .. SizeLimit - 1
  /\ rdb.node \in 0 .. MaxNode
  /\ CacheInv(rdb.cache)
  /\ Batched => DOMAIN rdb.batch \subseteq Keys /\ \A k \in DOMAIN rdb.batch : rdb.batch[k] \in Values

WorkType ==
  /\ phase \in Phases
  /\ stack \in Seq(Delta) /\ Len(stack) <= MaxStack
  /\ phase = "commit" => stack # <<>>
  /\ todo \in Seq(Range(Fields))
  /\ phase = "setup" => todo # <<>>

HistoryType ==
  /\ goal \in [before : Contents, removed : SUBSET Keys, written : SUBSET Keys,
              after : Contents, node : 0 .. MaxNode]
  /\ undone \in SUBSET Keys
  /\ unsaved \in BOOLEAN /\ miscounted \in BOOLEAN

TypeInv == Records /\ DiskType /\ RdbType /\ WorkType /\ HistoryType

LEMMA TypeInvOK ==
  ASSUME TypeInv
  PROVE  TypeOK
<1>1. \A f \in DOMAIN disk.metadata : disk.metadata[f] \in Nat
  <2>1. \A n, b : n \in 0 .. b => n \in Nat
    OBVIOUS
  <2> QED
    BY <2>1 DEF TypeInv, DiskType, MetadataType
<1>2. CacheOK(rdb.cache)
  BY CacheInvOK DEF TypeInv, RdbType
<1> QED
  BY <1>1, <1>2 DEF TypeOK, TypeInv, DiskType, MetadataType, RdbType, WorkType, HistoryType, Phases, OpenPhases

\* get keeps the cache in order.
LEMMA AfterGetInv ==
  ASSUME Records, DiskType, RdbType, NEW k \in Keys
  PROVE  CacheInv(AfterGet(k))
<1>1. CASE IsCached(rdb.cache, k)
  BY <1>1, CacheGetInv DEF AfterGet, Records, RdbType
<1>2. CASE ~ IsCached(rdb.cache, k)
  <2>1. disk.objects[k] \in Values \cup {Absent} /\ Listed(rdb.cache)
    BY DEF DiskType, Contents, RdbType, CacheInv
  <2> QED
    BY <1>2, <2>1, CachePutInv DEF AfterGet
<1> QED
  BY <1>1, <1>2

LEMMA BoundType ==
  ASSUME NEW f
  PROVE  Bound(f) \in Nat /\ 0 \in 0 .. Bound(f)
<1>1. SizeLimit - 1 \in Nat
  <2>1. SizeLimit \in Nat /\ SizeLimit > Cardinality(Keys) /\ Cardinality(Keys) \in Nat
    BY BackendAssumption, FS_CardinalityType
  <2> QED
    BY <2>1
<1> QED
  BY <1>1, BackendAssumption DEF Bound

\* _size wraps around in both directions.
LEMMA SizeType ==
  ASSUME NEW n \in 0 .. SizeLimit - 1
  PROVE  (n + 1) % SizeLimit \in 0 .. SizeLimit - 1 /\ (n - 1) % SizeLimit \in 0 .. SizeLimit - 1
<1>1. SizeLimit \in Nat /\ SizeLimit > 0
  <2>1. SizeLimit \in Nat /\ SizeLimit - 1 \in Nat
    BY BackendAssumption, BoundType DEF Bound
  <2> QED
    BY <2>1
<1>2. n + 1 \in Int /\ n - 1 \in Int
  BY <1>1
<1>3. \A i \in Int : i % SizeLimit \in 0 .. SizeLimit - 1
  BY <1>1
<1> QED
  BY <1>2, <1>3

\* put of an open backend, with a batch and without.
LEMMA PutType ==
  ASSUME Records, DiskType, RdbType, NEW k \in Keys, NEW v \in Values, Put(k, v)
  PROVE  Records' /\ DiskType' /\ RdbType'
<1>1. /\ Records'
      /\ disk'.families = disk.families
      /\ disk'.metadata = disk.metadata
      /\ disk'.objects = IF Batched THEN disk.objects ELSE [disk.objects EXCEPT ![k] = v]
      /\ rdb'.size = IF Got(k) = Absent THEN (rdb.size + 1) % SizeLimit ELSE rdb.size
      /\ rdb'.cache = CachePut(AfterGet(k), k, v)
      /\ rdb'.batch = IF Batched THEN Store(rdb.batch, k, v) ELSE rdb.batch
      /\ rdb'.node = rdb.node
  BY PutRecords DEF Put, Records
<1>2. DiskType'
  BY <1>1 DEF DiskType, MetadataType, Contents
<1>3. CacheInv(rdb'.cache)
  <2>1. CacheInv(AfterGet(k))
    BY AfterGetInv
  <2> QED
    BY <1>1, <2>1, CachePutInv DEF CacheInv
<1>4. rdb'.size \in 0 .. SizeLimit - 1
  BY <1>1, SizeType DEF RdbType
<1>5. Batched' => DOMAIN rdb'.batch \subseteq Keys /\ \A j \in DOMAIN rdb'.batch : rdb'.batch[j] \in Values
  <2>1. CASE Batched
    <3>1. rdb'.batch = Store(rdb.batch, k, v)
      BY <1>1, <2>1
    <3>2. DOMAIN rdb.batch \subseteq Keys /\ \A j \in DOMAIN rdb.batch : rdb.batch[j] \in Values
      BY <2>1 DEF RdbType
    <3> QED
      BY <3>1, <3>2 DEF Store
  <2>2. CASE ~ Batched
    BY <1>1, <2>2 DEF Batched
  <2> QED
    BY <2>1, <2>2
<1> QED
  BY <1>1, <1>2, <1>3, <1>4, <1>5 DEF RdbType

\* erase of an open backend.
LEMMA EraseType ==
  ASSUME Records, DiskType, RdbType, NEW k \in Keys, Erase(k)
  PROVE  Records' /\ DiskType' /\ RdbType'
<1>1. /\ Records'
      /\ disk'.families = disk.families
      /\ disk'.metadata = disk.metadata
      /\ disk'.objects = [disk.objects EXCEPT ![k] = Absent]
      /\ rdb'.size = IF Got(k) # Absent THEN (rdb.size - 1) % SizeLimit ELSE rdb.size
      /\ rdb'.cache = CachePut(AfterGet(k), k, Absent)
      /\ rdb'.batch = rdb.batch
      /\ rdb'.node = rdb.node
  BY EraseRecords DEF Erase, Records
<1>2. DiskType'
  BY <1>1 DEF DiskType, MetadataType, Contents
<1>3. CacheInv(rdb'.cache)
  <2>1. CacheInv(AfterGet(k))
    BY AfterGetInv
  <2> QED
    BY <1>1, <2>1, CachePutInv DEF CacheInv
<1>4. rdb'.size \in 0 .. SizeLimit - 1
  BY <1>1, SizeType DEF RdbType
<1>5. Batched' => DOMAIN rdb'.batch \subseteq Keys /\ \A j \in DOMAIN rdb'.batch : rdb'.batch[j] \in Values
  BY <1>1 DEF RdbType, Batched
<1> QED
  BY <1>1, <1>2, <1>3, <1>4, <1>5 DEF RdbType

\* A backend as it is before it is opened.
LEMMA FreshType ==
  ASSUME rdb' = Fresh
  PROVE  RdbType'
<1>1. rdb'.size = 0 /\ rdb'.node = 0 /\ rdb'.cache = EmptyCache /\ rdb'.batch = NoBatch
  BY DEF Fresh
<1>2. 0 \in 0 .. SizeLimit - 1 /\ 0 \in 0 .. MaxNode
  BY BoundType, BackendAssumption DEF Bound
<1> QED
  BY <1>1, <1>2, EmptyCacheInv DEF RdbType, Batched

LEMMA UnchangingType ==
  ASSUME NEW c \in Contents, NEW n \in 0 .. MaxNode
  PROVE  Unchanging(c, n) \in [before : Contents, removed : SUBSET Keys, written : SUBSET Keys,
                               after : Contents, node : 0 .. MaxNode]
BY DEF Unchanging

LEMMA NoObjectsType == NoObjects \in Contents
BY DEF NoObjects, Contents

LEMMA FieldsAre ==
  /\ Range(Fields) = {"size", "revision", "id", "merkle_root", "block_header"}
  /\ Fields # <<>>
<1>1. DOMAIN Fields = 1 .. 5
  BY DEF Fields
<1>2. \A i \in 1 .. 5 : i = 1 \/ i = 2 \/ i = 3 \/ i = 4 \/ i = 5
  OBVIOUS
<1>3. 1 \in 1 .. 5 /\ 2 \in 1 .. 5 /\ 3 \in 1 .. 5 /\ 4 \in 1 .. 5 /\ 5 \in 1 .. 5
  OBVIOUS
<1>4. \A x : x \in Range(Fields) <=> \E i \in 1 .. 5 : x = Fields[i]
  BY <1>1 DEF Range
<1> QED
  BY <1>1, <1>2, <1>3, <1>4 DEF Fields

LEMMA FieldsType == Fields \in Seq(Range(Fields))
BY DEF Range, Fields

LEMMA TodoType ==
  ASSUME todo \in Seq(Range(Fields)), todo # <<>>
  PROVE  Head(todo) \in Range(Fields) /\ Tail(todo) \in Seq(Range(Fields))
OBVIOUS

LEMMA InitType ==
  ASSUME Init
  PROVE  TypeInv
<1>1. /\ disk = Empty /\ phase = "closed" /\ rdb = Fresh /\ stack = <<>> /\ todo = <<>>
      /\ goal = Unchanging(NoObjects, 0)
      /\ undone = {} /\ unsaved = FALSE /\ miscounted = FALSE
  BY DEF Init
<1>2. Records
  BY InitData DEF DataInv
<1>3. DiskType
  BY <1>1, NoObjectsType DEF DiskType, MetadataType, Empty, NoMetadata
<1>4. RdbType
  <2>1. rdb.size = 0 /\ rdb.node = 0 /\ rdb.cache = EmptyCache /\ rdb.batch = NoBatch
    BY <1>1 DEF Fresh
  <2>2. 0 \in 0 .. SizeLimit - 1 /\ 0 \in 0 .. MaxNode
    BY BoundType, BackendAssumption DEF Bound
  <2> QED
    BY <2>1, <2>2, EmptyCacheInv DEF RdbType, Batched
<1>5. WorkType
  BY <1>1, BackendAssumption DEF WorkType, Phases
<1>6. HistoryType
  <2>1. 0 \in 0 .. MaxNode
    BY BackendAssumption
  <2> QED
    BY <1>1, <2>1, NoObjectsType, UnchangingType DEF HistoryType
<1> QED
  BY <1>2, <1>3, <1>4, <1>5, <1>6 DEF TypeInv

\* Where neither the directory nor the backend change.
LEMMA SameType ==
  ASSUME TypeInv, disk' = disk, rdb' = rdb
  PROVE  Records' /\ DiskType' /\ RdbType'
BY DEF TypeInv, Records, DiskType, MetadataType, RdbType, Batched

LEMMA SameDisk ==
  ASSUME DiskType, disk' = disk
  PROVE  DiskType'
BY DEF DiskType, MetadataType

\* Opening takes the size and the revision from the directory.
LEMMA OpenType ==
  ASSUME TypeInv, Open
  PROVE  DiskType' /\ RdbType' /\ WorkType' /\ HistoryType'
<1>1. /\ rdb' = [Fresh EXCEPT !.size = disk.metadata["size"], !.node = disk.metadata["revision"]]
      /\ disk' = disk /\ phase' \in {"genesis", "ready"} /\ stack' = stack /\ todo' = todo
      /\ DOMAIN disk.metadata = Range(Fields)
      /\ goal' = Unchanging(disk.objects, rdb'.node) /\ history' = history
  BY DEF Open
<1>2. "size" \in DOMAIN disk.metadata /\ "revision" \in DOMAIN disk.metadata
  BY <1>1, FieldsAre
<1>3. disk.metadata["size"] \in 0 .. SizeLimit - 1 /\ disk.metadata["revision"] \in 0 .. MaxNode
  BY <1>2 DEF TypeInv, DiskType, MetadataType, Bound
<1>4. /\ rdb'.size = disk.metadata["size"] /\ rdb'.node = disk.metadata["revision"]
      /\ rdb'.cache = EmptyCache /\ rdb'.batch = NoBatch
  BY <1>1 DEF Fresh
<1>5. DiskType'
  BY <1>1, SameDisk DEF TypeInv
<1>6. RdbType'
  BY <1>3, <1>4, EmptyCacheInv DEF RdbType, Batched
<1>7. WorkType'
  BY <1>1 DEF TypeInv, WorkType, Phases, OpenPhases
<1>8. HistoryType'
  BY <1>1, <1>3, <1>4, UnchangingType DEF TypeInv, DiskType, HistoryType, history
<1> QED
  BY <1>5, <1>6, <1>7, <1>8

\* setup_database and store_metadata put one field.
LEMMA FieldType ==
  ASSUME TypeInv, NEW f \in Range(Fields), NEW n \in 0 .. Bound(f),
         \/ disk' = [disk EXCEPT !.metadata = Store(@, f, n)]
         \/ disk' = [disk EXCEPT !.metadata[f] = n]
  PROVE  DiskType'
<1>1. /\ disk'.families = disk.families /\ disk'.objects = disk.objects
      /\ \/ disk'.metadata = Store(disk.metadata, f, n)
         \/ disk'.metadata = [disk.metadata EXCEPT ![f] = n]
  BY DEF TypeInv, Records
<1>2. DOMAIN disk'.metadata \subseteq DOMAIN disk.metadata \cup {f}
  BY <1>1 DEF Store
<1>3. \A g \in DOMAIN disk'.metadata : disk'.metadata[g] = IF g = f THEN n ELSE disk.metadata[g]
  BY <1>1 DEF Store
<1> QED
  BY <1>1, <1>2, <1>3 DEF TypeInv, DiskType, MetadataType

\* Making the directory.
LEMMA SetupType ==
  ASSUME TypeInv, Setup \/ CreateFamily \/ PutDefault
  PROVE  DiskType' /\ RdbType' /\ WorkType' /\ HistoryType'
<1>1. rdb' = rdb /\ stack' = stack /\ goal' = goal /\ history' = history
  BY DEF Setup, CreateFamily, PutDefault
<1>2. RdbType' /\ HistoryType'
  BY <1>1 DEF TypeInv, RdbType, Batched, HistoryType, history
<1>3. CASE Setup
  <2>1. disk' = disk /\ phase' = "setup" /\ todo' = Fields
    BY <1>3 DEF Setup
  <2> QED
    BY <1>1, <1>2, <2>1, SameDisk, FieldsType, FieldsAre DEF TypeInv, WorkType, Phases
<1>4. CASE CreateFamily
  <2>1. /\ phase' = phase /\ todo' = todo
        /\ \E f \in Families : disk' = [disk EXCEPT !.families = @ \cup {f}]
    BY <1>4 DEF CreateFamily
  <2>2. DiskType'
    BY <2>1 DEF TypeInv, Records, DiskType, MetadataType
  <2> QED
    BY <1>1, <1>2, <2>1, <2>2 DEF TypeInv, WorkType
<1>5. CASE PutDefault
  <2>1. /\ disk' = [disk EXCEPT !.metadata = Store(@, Head(todo), 0)]
        /\ phase = "setup" /\ todo' = Tail(todo)
        /\ phase' = IF todo' = <<>> THEN "closed" ELSE phase
    BY <1>5 DEF PutDefault
  <2>2. Head(todo) \in Range(Fields) /\ Tail(todo) \in Seq(Range(Fields))
    BY <2>1, TodoType DEF TypeInv, WorkType
  <2>3. DiskType'
    BY <2>1, <2>2, BoundType, FieldType
  <2> QED
    BY <1>1, <1>2, <2>1, <2>2, <2>3 DEF TypeInv, WorkType, Phases
<1> QED
  BY <1>3, <1>4, <1>5

\* The genesis function writes.
LEMMA GenesisType ==
  ASSUME TypeInv, NEW k \in Keys, (\E v \in Values : GenesisPut(k, v)) \/ GenesisErase(k)
  PROVE  DiskType' /\ RdbType' /\ WorkType' /\ HistoryType'
<1>1. /\ phase = "genesis" /\ phase' = phase /\ stack' = stack /\ todo' = todo
      /\ goal' = Unchanging(disk'.objects, 0)
      /\ undone' = undone /\ unsaved' = TRUE /\ miscounted' = miscounted
      /\ (\E v \in Values : Put(k, v)) \/ Erase(k)
  BY DEF GenesisPut, GenesisErase
<1>2. DiskType' /\ RdbType'
  BY <1>1, PutType, EraseType DEF TypeInv
<1>3. HistoryType'
  <2>1. 0 \in 0 .. MaxNode /\ disk'.objects \in Contents
    BY <1>2, BackendAssumption DEF DiskType
  <2> QED
    BY <1>1, <2>1, UnchangingType DEF TypeInv, HistoryType
<1> QED
  BY <1>1, <1>2, <1>3 DEF TypeInv, WorkType

\* Reads change the cache only.
LEMMA ReadType ==
  ASSUME TypeInv, NEW k \in Keys, Get(k) \/ Iterate(k)
  PROVE  DiskType' /\ RdbType' /\ WorkType' /\ HistoryType'
<1>1. /\ rdb' = [rdb EXCEPT !.cache = AfterGet(k)]
      /\ disk' = disk /\ phase' = phase /\ stack' = stack /\ todo' = todo /\ goal' = goal
      /\ history' = history
  BY DEF Get, Iterate, AfterGet
<1>2. /\ rdb'.cache = AfterGet(k) /\ rdb'.size = rdb.size /\ rdb'.node = rdb.node
      /\ rdb'.batch = rdb.batch
  BY <1>1 DEF TypeInv, Records
<1>3. CacheInv(rdb'.cache)
  BY <1>2, AfterGetInv DEF TypeInv
<1>4. RdbType'
  BY <1>2, <1>3 DEF TypeInv, RdbType, Batched
<1> QED
  BY <1>1, <1>4, SameDisk DEF TypeInv, WorkType, HistoryType, history

\* The deltas of a commit as a list.
LEMMA StackSeq ==
  ASSUME NEW s \in Stacks
  PROVE  s \in Seq(Delta) /\ Len(s) \in 1 .. MaxStack /\ s # <<>>
<1>1. PICK n \in 1 .. MaxStack : s \in [1 .. n -> Delta]
  BY DEF Stacks
<1>2. n \in Nat
  BY <1>1, BackendAssumption
<1>3. s \in Seq(Delta)
  <2>1. [1 .. n -> Delta] \in {[1 .. m -> Delta] : m \in Nat}
    BY <1>2
  <2> QED
    BY <1>1, <2>1, SeqDef, Zenon
<1>4. DOMAIN s = 1 .. n
  BY ONLY <1>1
<1>5. Len(s) = n
  BY ONLY <1>2, <1>3, <1>4
<1> QED
  BY <1>1, <1>2, <1>3, <1>5, BackendAssumption

\* The start of a commit.
LEMMA StartType ==
  ASSUME TypeInv, NEW s \in Stacks, StartCommit(s)
  PROVE  DiskType' /\ RdbType' /\ WorkType' /\ HistoryType'
<1>1. /\ rdb' = [rdb EXCEPT !.batch = [k \in {} |-> Absent]]
      /\ disk' = disk /\ todo' = todo
      /\ rdb.node + Len(s) <= MaxNode /\ phase' = "commit" /\ stack' = s
      /\ goal' = [before  |-> disk.objects,
                  removed |-> {k \in Keys : Removers(s, k) # {}},
                  written |-> {k \in Keys : Writers(s, k) # {}},
                  after   |-> Applied(disk.objects, s),
                  node    |-> rdb.node + Len(s)]
      /\ undone' = undone \cup Undone(s) /\ unsaved' = TRUE
      /\ miscounted' = (miscounted \/ Undone(s) # {} \/ Recounted(disk.objects, s) # {})
  BY DEF StartCommit
<1>2. /\ rdb'.cache = rdb.cache /\ rdb'.size = rdb.size /\ rdb'.node = rdb.node
      /\ rdb'.batch = [k \in {} |-> Absent]
  BY <1>1 DEF TypeInv, Records
<1>3. RdbType'
  BY <1>2 DEF TypeInv, RdbType
<1>4. s \in Seq(Delta) /\ Len(s) \in 1 .. MaxStack /\ s # <<>>
  BY StackSeq
<1>5. WorkType'
  BY <1>1, <1>4, BackendAssumption DEF TypeInv, WorkType, Phases, OpenPhases
<1>6. HistoryType'
  <2>1. disk.objects \in Contents /\ Applied(disk.objects, s) \in Contents
    BY <1>4, AppliedType DEF TypeInv, DiskType
  <2>2. Undone(s) \in SUBSET Keys
    BY DEF Undone
  <2>3. rdb.node + Len(s) \in 0 .. MaxNode
    BY <1>1, <1>4, BackendAssumption DEF TypeInv, RdbType
  <2> QED
    BY <1>1, <2>1, <2>2, <2>3 DEF TypeInv, HistoryType
<1> QED
  BY <1>1, <1>3, <1>5, <1>6, SameDisk DEF TypeInv

\* The stack with its lowest delta changed.
LEMMA TopType ==
  ASSUME NEW s \in Seq(Delta), s # <<>>, NEW d \in Delta
  PROVE  [s EXCEPT ![1] = d] \in Seq(Delta) /\ Len([s EXCEPT ![1] = d]) = Len(s)
<1>1. Len(s) \in Nat /\ 1 \in 1 .. Len(s) /\ DOMAIN s = 1 .. Len(s)
  OBVIOUS
<1>2. [s EXCEPT ![1] = d] \in Seq(Delta)
  BY <1>1, ExceptSeq
<1>3. DOMAIN [s EXCEPT ![1] = d] = 1 .. Len(s)
  BY <1>1
<1> QED
  BY ONLY <1>1, <1>2, <1>3

\* A removal or a write of the lowest delta.
LEMMA CommitType ==
  ASSUME TypeInv, NEW k \in Keys, CommitErase(k) \/ CommitPut(k)
  PROVE  DiskType' /\ RdbType' /\ WorkType' /\ HistoryType'
<1>1. /\ phase = "commit" /\ stack # <<>> /\ phase' = phase /\ todo' = todo /\ goal' = goal
      /\ history' = history
  BY DEF CommitErase, CommitPut
<1>2. stack[1] \in Delta /\ stack \in Seq(Delta)
  BY <1>1 DEF TypeInv, WorkType
<1>3. DiskType' /\ RdbType' /\ \E d \in Delta : stack' = [stack EXCEPT ![1] = d]
  <2>1. CASE CommitErase(k)
    <3>1. Erase(k) /\ stack' = [stack EXCEPT ![1].removed = @ \ {k}]
      BY <2>1 DEF CommitErase
    <3>2. [stack[1] EXCEPT !.removed = @ \ {k}] \in Delta
      BY <1>2 DEF Delta
    <3> QED
      BY <3>1, <3>2, EraseType DEF TypeInv
  <2>2. CASE CommitPut(k)
    <3>1. /\ Put(k, stack[1].object[k]) /\ stack' = [stack EXCEPT ![1].object[k] = Absent]
          /\ stack[1].object[k] # Absent
      BY <2>2 DEF CommitPut
    <3>2. stack[1].object[k] \in Values
      BY <1>2, <3>1 DEF Delta, Contents
    <3>3. [stack[1] EXCEPT !.object[k] = Absent] \in Delta
      BY <1>2 DEF Delta, Contents
    <3> QED
      BY <3>1, <3>2, <3>3, PutType DEF TypeInv
  <2> QED
    BY <2>1, <2>2
<1>4. stack' \in Seq(Delta) /\ Len(stack') = Len(stack) /\ stack' # <<>>
  <2>1. stack' \in Seq(Delta) /\ Len(stack') = Len(stack)
    BY <1>1, <1>2, <1>3, TopType
  <2>2. Len(stack) # 0
    BY <1>1, <1>2
  <2> QED
    BY <2>1, <2>2
<1> QED
  BY <1>1, <1>3, <1>4 DEF TypeInv, WorkType, HistoryType, history

\* The lowest delta is written; the last one is followed by the metadata.
LEMMA PopType ==
  ASSUME TypeInv, PopDelta
  PROVE  DiskType' /\ RdbType' /\ WorkType' /\ HistoryType'
<1>1. /\ phase = "commit" /\ stack' = Tail(stack) /\ disk' = disk /\ goal' = goal
      /\ history' = history
      /\ \/ /\ stack' = <<>> /\ phase' = "store" /\ todo' = Fields
            /\ rdb' = [rdb EXCEPT !.node = goal.node]
         \/ stack' # <<>> /\ phase' = phase /\ todo' = todo /\ rdb' = rdb
  BY DEF PopDelta
<1>2. stack' \in Seq(Delta) /\ Len(stack') <= MaxStack
  <2>1. stack \in Seq(Delta) /\ stack # <<>> /\ Len(stack) <= MaxStack
    BY <1>1 DEF TypeInv, WorkType
  <2>2. Tail(stack) \in Seq(Delta) /\ Len(Tail(stack)) = Len(stack) - 1 /\ Len(stack) \in Nat
    BY <2>1
  <2> QED
    BY <1>1, <2>1, <2>2, BackendAssumption
<1>3. /\ rdb'.size = rdb.size /\ rdb'.cache = rdb.cache /\ rdb'.batch = rdb.batch
      /\ rdb'.node \in {rdb.node, goal.node}
  BY <1>1 DEF TypeInv, Records
<1>4. RdbType'
  BY <1>3 DEF TypeInv, RdbType, Batched, HistoryType, history
<1>5. WorkType'
  BY <1>1, <1>2, FieldsType DEF TypeInv, WorkType, Phases, OpenPhases
<1> QED
  BY <1>1, <1>4, <1>5, SameDisk DEF TypeInv, HistoryType, history

\* A field of the metadata is put.
LEMMA StoreType ==
  ASSUME TypeInv, StoreField
  PROVE  DiskType' /\ RdbType' /\ WorkType' /\ HistoryType'
<1>1. /\ phase \in {"store", "closing"} /\ todo # <<>> /\ todo' = Tail(todo) /\ phase' = phase
      /\ rdb' = rdb /\ stack' = stack /\ goal' = goal /\ history' = history
      /\ disk' = [disk EXCEPT !.metadata[Head(todo)] =
                    IF Head(todo) = "size" THEN rdb.size ELSE rdb.node]
  BY DEF StoreField
<1>2. Head(todo) \in Range(Fields) /\ Tail(todo) \in Seq(Range(Fields))
  BY <1>1, TodoType DEF TypeInv, WorkType
<1>3. (IF Head(todo) = "size" THEN rdb.size ELSE rdb.node) \in 0 .. Bound(Head(todo))
  BY DEF TypeInv, RdbType, Bound
<1>4. DiskType'
  BY <1>1, <1>2, <1>3, FieldType
<1> QED
  BY <1>1, <1>2, <1>4 DEF TypeInv, RdbType, Batched, WorkType, HistoryType, history

\* The batch is written.
LEMMA EndType ==
  ASSUME TypeInv, EndBatch
  PROVE  DiskType' /\ RdbType' /\ WorkType' /\ HistoryType'
<1>1. /\ disk' = [disk EXCEPT !.objects = Overlay] /\ rdb' = [rdb EXCEPT !.batch = NoBatch]
      /\ phase' = "ready" /\ stack' = stack /\ todo' = todo /\ goal' = goal
      /\ undone' = undone /\ unsaved' = FALSE /\ miscounted' = miscounted
  BY DEF EndBatch
<1>2. /\ disk'.families = disk.families /\ disk'.metadata = disk.metadata /\ disk'.objects = Overlay
      /\ rdb'.size = rdb.size /\ rdb'.node = rdb.node /\ rdb'.cache = rdb.cache
      /\ rdb'.batch = NoBatch
  BY <1>1 DEF TypeInv, Records
<1>3. Overlay \in Contents
  BY DEF Overlay, TypeInv, DiskType, RdbType, Contents
<1>4. DiskType'
  BY <1>2, <1>3 DEF TypeInv, DiskType, MetadataType
<1>5. RdbType'
  BY <1>2 DEF TypeInv, RdbType, Batched
<1> QED
  BY <1>1, <1>4, <1>5 DEF TypeInv, WorkType, HistoryType, Phases, OpenPhases

\* Steps that change the phase and what is to be put.
LEMMA PhaseType ==
  ASSUME TypeInv, FinishGenesis \/ Close
  PROVE  DiskType' /\ RdbType' /\ WorkType' /\ HistoryType'
<1>1. /\ disk' = disk /\ rdb' = rdb /\ stack' = stack /\ goal' = goal /\ history' = history
      /\ phase' \in {"ready", "closing"} /\ todo' \in {todo, Fields}
  BY DEF FinishGenesis, Close
<1> QED
  BY <1>1, SameType, FieldsType DEF TypeInv, WorkType, HistoryType, history, Phases, OpenPhases

\* The backend is gone, after a close, a reset or a crash.
LEMMA EndedType ==
  ASSUME TypeInv, Closed \/ Reset \/ Crash
  PROVE  DiskType' /\ RdbType' /\ WorkType' /\ HistoryType'
<1>1. /\ disk' = disk /\ rdb' = Fresh /\ goal' = goal
      /\ phase' \in {"closed", "clearing"} /\ stack' \in {stack, <<>>} /\ todo' \in {todo, <<>>}
      /\ undone' = {} /\ unsaved' \in {unsaved, FALSE}
      /\ \/ miscounted' = miscounted
         \/ miscounted' = (miscounted \/ (unsaved /\ disk.metadata["size"] # Count(disk.objects)))
  BY DEF Closed, Reset, Crash
<1>2. <<>> \in Seq(Delta) /\ Len(<<>>) = 0 /\ 0 <= MaxStack /\ <<>> \in Seq(Range(Fields))
  BY BackendAssumption
<1>3. unsaved' \in BOOLEAN /\ miscounted' \in BOOLEAN
  <2>1. unsaved \in BOOLEAN /\ miscounted \in BOOLEAN
    BY DEF TypeInv, HistoryType
  <2> QED
    BY <1>1, <2>1, Zenon
<1>4. WorkType'
  BY <1>1, <1>2 DEF TypeInv, WorkType, Phases
<1>5. DiskType' /\ RdbType'
  BY <1>1, SameDisk, FreshType DEF TypeInv
<1> QED
  BY <1>1, <1>3, <1>4, <1>5 DEF TypeInv, HistoryType

\* A column family is dropped.
LEMMA DropType ==
  ASSUME TypeInv, DropFamily
  PROVE  DiskType' /\ RdbType' /\ WorkType' /\ HistoryType'
<1>1. /\ disk' = [disk EXCEPT !.families = {"metadata"}, !.objects = NoObjects] \/ disk' = Empty
      /\ phase = "clearing" /\ phase' \in {"clearing", "closed"}
      /\ rdb' = rdb /\ stack' = stack /\ todo' = todo
      /\ goal' = Unchanging(NoObjects, 0)
      /\ undone' = undone /\ unsaved' = FALSE /\ miscounted' = FALSE
  BY DEF DropFamily
<1>2. DiskType'
  <2>1. CASE disk' = Empty
    BY <2>1, NoObjectsType DEF DiskType, MetadataType, Empty, NoMetadata
  <2>2. CASE disk' = [disk EXCEPT !.families = {"metadata"}, !.objects = NoObjects]
    <3>1. disk'.families = {"metadata"} /\ disk'.objects = NoObjects /\ disk'.metadata = disk.metadata
      BY <2>2 DEF TypeInv, Records
    <3> QED
      BY <3>1, NoObjectsType DEF TypeInv, DiskType, MetadataType, Families
  <2> QED
    BY <1>1, <2>1, <2>2
<1>3. HistoryType'
  <2>1. 0 \in 0 .. MaxNode
    BY BackendAssumption
  <2> QED
    BY <1>1, <2>1, NoObjectsType, UnchangingType DEF TypeInv, HistoryType
<1> QED
  BY <1>1, <1>2, <1>3 DEF TypeInv, RdbType, Batched, WorkType, Phases

LEMMA NextType ==
  ASSUME DataInv, TypeInv, [Next]_vars
  PROVE  TypeInv'
<1>1. Records'
  BY NextData DEF DataInv
<1>2. DiskType' /\ RdbType' /\ WorkType' /\ HistoryType'
  <2>1. CASE Open
    BY <2>1, OpenType
  <2>2. CASE Setup \/ CreateFamily \/ PutDefault
    BY <2>2, SetupType
  <2>3. CASE \E k \in Keys : GenesisErase(k) \/ \E v \in Values : GenesisPut(k, v)
    BY <2>3, GenesisType
  <2>4. CASE \E k \in Keys : Get(k) \/ Iterate(k)
    BY <2>4, ReadType
  <2>5. CASE \E s \in Stacks : StartCommit(s)
    BY <2>5, StartType
  <2>6. CASE \E k \in Keys : CommitErase(k) \/ CommitPut(k)
    BY <2>6, CommitType
  <2>7. CASE PopDelta
    BY <2>7, PopType
  <2>8. CASE StoreField
    BY <2>8, StoreType
  <2>9. CASE EndBatch
    BY <2>9, EndType
  <2>10. CASE FinishGenesis \/ Close
    BY <2>10, PhaseType
  <2>11. CASE Closed \/ Reset \/ Crash
    BY <2>11, EndedType
  <2>12. CASE DropFamily
    BY <2>12, DropType
  <2>13. CASE UNCHANGED vars
    <3>1. disk' = disk /\ phase' = phase /\ rdb' = rdb /\ stack' = stack /\ todo' = todo
          /\ goal' = goal /\ history' = history
      BY <2>13 DEF vars
    <3> QED
      BY <3>1, SameType DEF TypeInv, WorkType, HistoryType, history
  <2> QED
    BY <2>1, <2>2, <2>3, <2>4, <2>5, <2>6, <2>7, <2>8, <2>9, <2>10, <2>11, <2>12, <2>13
       DEF Next, Step
<1> QED
  BY <1>1, <1>2 DEF TypeInv

\* For commits of any number of deltas: the list and the map of the cache hold
\* the same keys, each once, and the bytes of their objects fit, whatever get,
\* put, remove and the iterators do; sizes and revisions stay in range, the
\* batch and the directory hold objects of the keys, and the metadata that are
\* found can be opened.
THEOREM TypeCorrect == Spec => []TypeOK
<1>1. Init => DataInv /\ TypeInv
  BY InitData, InitType
<1>2. DataInv /\ TypeInv /\ [Next]_vars => (DataInv /\ TypeInv)'
  BY NextData, NextType
<1>3. TypeInv => TypeOK
  BY TypeInvOK
<1> QED
  BY <1>1, <1>2, <1>3, PTL DEF Spec

-----------------------------------------------------------------------------
(* The cache, the overlay and the count *)

\* A put into the cache evicts other keys at most.
LEMMA CachePutObject ==
  ASSUME NEW c, NEW k, NEW v
  PROVE  LET o == CachePut(c, k, v).object
         IN  /\ k \in DOMAIN o /\ o[k] = v
             /\ \A j \in DOMAIN o \ {k} : j \in DOMAIN c.object /\ o[j] = c.object[j]
<1> DEFINE r == CacheRemove(c, k)
           e == Evict(r, EntrySize[v])
<1>1. DOMAIN r.object \subseteq DOMAIN c.object /\ \A j \in DOMAIN r.object : r.object[j] = c.object[j]
  BY DEF CacheRemove, Restrict
<1>2. DOMAIN e.object \subseteq DOMAIN r.object /\ \A j \in DOMAIN e.object : e.object[j] = r.object[j]
  <2>1. PICK S : e.object = Restrict(r.object, DOMAIN r.object \cap S)
    BY DEF Evict
  <2> QED
    BY <2>1 DEF Restrict
<1>3. CachePut(c, k, v).object = Store(e.object, k, v)
  BY DEF CachePut
<1> HIDE DEF r, e
<1> QED
  BY <1>1, <1>2, <1>3 DEF Store

\* get leaves its answer for the key and nothing new for another.
LEMMA AfterGetObject ==
  ASSUME NEW k, Records
  PROVE  LET o == AfterGet(k).object
         IN  /\ k \in DOMAIN o /\ o[k] = Got(k)
             /\ \A j \in DOMAIN o \ {k} : j \in DOMAIN rdb.cache.object /\ o[j] = rdb.cache.object[j]
<1>1. ASSUME IsCached(rdb.cache, k)
      PROVE  AfterGet(k).object = rdb.cache.object /\ Got(k) = rdb.cache.object[k]
  BY <1>1 DEF AfterGet, CacheGet, Got, Records
<1>2. ASSUME ~IsCached(rdb.cache, k)
      PROVE  AfterGet(k) = CachePut(rdb.cache, k, Got(k))
  BY <1>2 DEF AfterGet, Got
<1> QED
  BY <1>1, <1>2, CachePutObject DEF IsCached

\* A put or an erase leaves its value for the key.
LEMMA WrittenCache ==
  ASSUME NEW k, NEW v, Records
  PROVE  LET o == CachePut(AfterGet(k), k, v).object
         IN  /\ o[k] = v
             /\ \A j \in DOMAIN o \ {k} : j \in DOMAIN rdb.cache.object /\ o[j] = rdb.cache.object[j]
<1> DEFINE a == AfterGet(k)
<1>1. \A j \in DOMAIN a.object \ {k} : j \in DOMAIN rdb.cache.object /\ a.object[j] = rdb.cache.object[j]
  BY AfterGetObject
<1> HIDE DEF a
<1>2. LET o == CachePut(a, k, v).object
      IN  o[k] = v /\ \A j \in DOMAIN o \ {k} : j \in DOMAIN a.object /\ o[j] = a.object[j]
  BY CachePutObject
<1>3. LET o == CachePut(a, k, v).object
      IN  o[k] = v /\ \A j \in DOMAIN o \ {k} : j \in DOMAIN rdb.cache.object /\ o[j] = rdb.cache.object[j]
  BY <1>1, <1>2
<1> QED
  BY <1>3 DEF a

\* What get answers is what is there, for a key the batch does not hold and no
\* commit has written and removed again.
LEMMA GotIsThere ==
  ASSUME NEW k \in Keys, CacheCoherent, k \notin undone, ~Batched \/ k \notin DOMAIN rdb.batch
  PROVE  Got(k) = Overlay[k]
BY DEF Got, CacheCoherent, IsCached, Overlay

\* The number of objects is at most that of the keys.
LEMMA CountType ==
  ASSUME NEW c
  PROVE  Count(c) \in Nat /\ Count(c) < SizeLimit
<1> DEFINE S == {k \in Keys : c[k] # Absent}
<1>1. IsFiniteSet(Keys) /\ SizeLimit \in Nat /\ SizeLimit > Cardinality(Keys)
  BY BackendAssumption
<1>2. IsFiniteSet(S) /\ Cardinality(S) <= Cardinality(Keys)
  BY <1>1, FS_Subset
<1>3. Cardinality(S) \in Nat /\ Cardinality(Keys) \in Nat
  BY <1>1, <1>2, FS_CardinalityType
<1> QED
  BY <1>1, <1>2, <1>3 DEF Count

LEMMA CountNone == Count(NoObjects) = 0
<1>1. {k \in Keys : NoObjects[k] # Absent} = {}
  BY DEF NoObjects
<1> QED
  BY <1>1, FS_EmptySet DEF Count

LEMMA NoneCounted ==
  ASSUME NEW c \in Contents, Count(c) = 0
  PROVE  c = NoObjects
<1>1. IsFiniteSet({k \in Keys : c[k] # Absent})
  BY BackendAssumption, FS_Subset
<1>2. {k \in Keys : c[k] # Absent} = {}
  BY <1>1, FS_EmptySet DEF Count
<1> QED
  BY <1>2 DEF Contents, NoObjects

\* A new object counts one more.
LEMMA CountPut ==
  ASSUME NEW c \in Contents, NEW k \in Keys, NEW v \in Values
  PROVE  Count([c EXCEPT ![k] = v]) = IF c[k] = Absent THEN Count(c) + 1 ELSE Count(c)
<1> DEFINE S == {j \in Keys : c[j] # Absent}
           T == {j \in Keys : [c EXCEPT ![k] = v][j] # Absent}
<1>1. v # Absent /\ IsFiniteSet(S)
  BY CacheAssumption, BackendAssumption, FS_Subset
<1>2. T = S \cup {k}
  BY <1>1 DEF Contents
<1>3. c[k] = Absent <=> k \notin S
  OBVIOUS
<1> HIDE DEF S, T
<1>4. Cardinality(T) = IF c[k] = Absent THEN Cardinality(S) + 1 ELSE Cardinality(S)
  BY <1>1, <1>2, <1>3, FS_AddElement
<1> QED
  BY <1>4 DEF Count, S, T

\* One object less counts one less.
LEMMA CountErase ==
  ASSUME NEW c \in Contents, NEW k \in Keys
  PROVE  Count([c EXCEPT ![k] = Absent]) = IF c[k] # Absent THEN Count(c) - 1 ELSE Count(c)
<1> DEFINE S == {j \in Keys : c[j] # Absent}
           T == {j \in Keys : [c EXCEPT ![k] = Absent][j] # Absent}
<1>1. IsFiniteSet(S)
  BY BackendAssumption, FS_Subset
<1>2. T = S \ {k}
  BY DEF Contents
<1>3. c[k] # Absent <=> k \in S
  OBVIOUS
<1> HIDE DEF S, T
<1>4. Cardinality(T) = IF c[k] # Absent THEN Cardinality(S) - 1 ELSE Cardinality(S)
  BY <1>1, <1>2, <1>3, FS_RemoveElement
<1> QED
  BY <1>4 DEF Count, S, T

\* A size below the limit does not wrap around.
LEMMA NoWrap ==
  ASSUME NEW n \in Nat, n < SizeLimit
  PROVE  n % SizeLimit = n
BY BackendAssumption

-----------------------------------------------------------------------------
(* The stack of deltas that a commit has still to write *)

\* The lowest delta of a stack is replaced.
LEMMA NewTop ==
  ASSUME NEW s \in Seq(Delta), s # <<>>, NEW e \in Delta
  PROVE  /\ [s EXCEPT ![1] = e] \in Seq(Delta)
         /\ Len([s EXCEPT ![1] = e]) = Len(s) /\ 1 \in 1 .. Len(s)
         /\ \A i \in 1 .. Len(s) : [s EXCEPT ![1] = e][i] = IF i = 1 THEN e ELSE s[i]
<1>1. 1 \in 1 .. Len(s) /\ DOMAIN s = 1 .. Len(s)
  OBVIOUS
<1> QED
  BY <1>1, TopType

\* A removal of the lowest delta is done.
LEMMA ErasedStack ==
  ASSUME stack \in Seq(Delta), stack # <<>>, NEW k \in Keys, k \in stack[1].removed,
         stack' = [stack EXCEPT ![1].removed = @ \ {k}]
  PROVE  /\ stack' \in Seq(Delta)
         /\ \A i \in 1 .. Len(stack) : stack'[i].object = stack[i].object
         /\ \A j : Writers(stack', j) = Writers(stack, j)
         /\ \A j : j # k => Removers(stack', j) = Removers(stack, j)
         /\ Removers(stack', k) = Removers(stack, k) \ {1}
         /\ 1 \in Removers(stack, k)
<1>1. stack[1] \in Delta
  OBVIOUS
<1>2. PICK e \in Delta : /\ e = [stack[1] EXCEPT !.removed = @ \ {k}]
                         /\ e.object = stack[1].object /\ e.removed = stack[1].removed \ {k}
  BY <1>1 DEF Delta
<1>3. stack' = [stack EXCEPT ![1] = e]
  BY <1>2
<1>4. /\ stack' \in Seq(Delta) /\ Len(stack') = Len(stack) /\ 1 \in 1 .. Len(stack)
      /\ \A i \in 1 .. Len(stack) : stack'[i] = IF i = 1 THEN e ELSE stack[i]
  BY ONLY <1>3, NewTop, stack \in Seq(Delta), stack # <<>>, e \in Delta
<1>5. ASSUME NEW i \in 1 .. Len(stack)
      PROVE  /\ stack'[i].object = stack[i].object
             /\ stack'[i].removed = IF i = 1 THEN stack[i].removed \ {k} ELSE stack[i].removed
  BY ONLY <1>2, <1>4, i \in 1 .. Len(stack)
<1> QED
  BY <1>4, <1>5 DEF Writers, Removers

\* A write of the lowest delta is done.
LEMMA PutStack ==
  ASSUME stack \in Seq(Delta), stack # <<>>, NEW k \in Keys,
         stack[1].removed = {}, stack[1].object[k] # Absent,
         stack' = [stack EXCEPT ![1].object[k] = Absent]
  PROVE  /\ stack' \in Seq(Delta)
         /\ \A i \in 1 .. Len(stack), j \in Keys : j # k \/ i # 1 => stack'[i].object[j] = stack[i].object[j]
         /\ \A j : Removers(stack', j) = Removers(stack, j) /\ 1 \notin Removers(stack, j)
         /\ \A j \in Keys : j # k => Writers(stack', j) = Writers(stack, j)
         /\ Writers(stack', k) = Writers(stack, k) \ {1}
         /\ 1 \in Writers(stack, k)
<1>1. stack[1] \in Delta
  OBVIOUS
<1>2. PICK e \in Delta :
        /\ e = [stack[1] EXCEPT !.object[k] = Absent]
        /\ e.removed = stack[1].removed
        /\ \A j \in Keys : e.object[j] = IF j = k THEN Absent ELSE stack[1].object[j]
  <2>1. [stack[1] EXCEPT !.object[k] = Absent] \in Delta
    BY <1>1 DEF Delta, Contents
  <2>2. [stack[1] EXCEPT !.object[k] = Absent].removed = stack[1].removed
    BY <1>1 DEF Delta
  <2>3. [stack[1] EXCEPT !.object[k] = Absent].object = [stack[1].object EXCEPT ![k] = Absent]
    BY <1>1 DEF Delta
  <2>4. stack[1].object \in [Keys -> Values \cup {Absent}]
    BY <1>1 DEF Delta, Contents
  <2> QED
    BY <2>1, <2>2, <2>3, <2>4
<1>3. stack' = [stack EXCEPT ![1] = e]
  BY <1>2
<1>4. /\ stack' \in Seq(Delta) /\ Len(stack') = Len(stack) /\ 1 \in 1 .. Len(stack)
      /\ \A i \in 1 .. Len(stack) : stack'[i] = IF i = 1 THEN e ELSE stack[i]
  BY ONLY <1>3, NewTop, stack \in Seq(Delta), stack # <<>>, e \in Delta
<1>5. ASSUME NEW i \in 1 .. Len(stack)
      PROVE  /\ stack'[i].removed = stack[i].removed
             /\ \A j \in Keys : stack'[i].object[j] = IF i = 1 /\ j = k THEN Absent ELSE stack[i].object[j]
  BY ONLY <1>2, <1>4, i \in 1 .. Len(stack)
<1> QED
  BY <1>4, <1>5 DEF Writers, Removers

\* The lowest delta is written.
LEMMA PoppedStack ==
  ASSUME stack \in Seq(Delta), stack # <<>>, stack[1] = [removed |-> {}, object |-> NoObjects],
         NEW k \in Keys
  PROVE  /\ Tail(stack) \in Seq(Delta)
         /\ \A i \in 1 .. Len(Tail(stack)) : Tail(stack)[i] = stack[i + 1]
         /\ Writers(Tail(stack), k) \subseteq 1 .. Len(Tail(stack))
         /\ Removers(Tail(stack), k) \subseteq 1 .. Len(Tail(stack))
         /\ \A i \in Writers(Tail(stack), k) : i + 1 \in Writers(stack, k)
         /\ \A i \in Removers(Tail(stack), k) : i + 1 \in Removers(stack, k)
         /\ \A i \in Writers(stack, k) : i - 1 \in Writers(Tail(stack), k)
         /\ \A i \in Removers(stack, k) : i - 1 \in Removers(Tail(stack), k)
<1> DEFINE t == Tail(stack)
<1>1. /\ t \in Seq(Delta) /\ Len(stack) \in Nat /\ Len(t) = Len(stack) - 1
      /\ \A i \in 1 .. Len(t) : t[i] = stack[i + 1] /\ i + 1 \in 1 .. Len(stack)
      /\ \A i \in 1 .. Len(stack) : i # 1 => i - 1 \in 1 .. Len(t) /\ t[i - 1] = stack[i]
  <2>1. t \in Seq(Delta) /\ Len(stack) \in Nat /\ Len(t) = Len(stack) - 1
    OBVIOUS
  <2>2. \A i \in 1 .. Len(t) : t[i] = stack[i + 1]
    OBVIOUS
  <2> HIDE DEF t
  <2>3. \A i \in 1 .. Len(t) : i + 1 \in 1 .. Len(stack)
    BY <2>1
  <2>4. ASSUME NEW i \in 1 .. Len(stack), i # 1
        PROVE  i - 1 \in 1 .. Len(t) /\ t[i - 1] = stack[i]
    <3>1. i - 1 \in 1 .. Len(t) /\ (i - 1) + 1 = i
      BY <2>1, <2>4
    <3> QED
      BY <2>2, <3>1
  <2> QED
    BY <2>1, <2>2, <2>3, <2>4
<1>2. stack[1].removed = {} /\ stack[1].object[k] = Absent
  BY DEF NoObjects
<1> HIDE DEF t
<1>3. \A i \in Writers(t, k) : i + 1 \in Writers(stack, k)
  BY <1>1 DEF Writers
<1>4. \A i \in Removers(t, k) : i + 1 \in Removers(stack, k)
  BY <1>1 DEF Removers
<1>5. \A i \in Writers(stack, k) : i - 1 \in Writers(t, k)
  BY <1>1, <1>2 DEF Writers
<1>6. \A i \in Removers(stack, k) : i - 1 \in Removers(t, k)
  BY <1>1, <1>2 DEF Removers
<1>7. Writers(t, k) \subseteq 1 .. Len(t) /\ Removers(t, k) \subseteq 1 .. Len(t)
  BY DEF Writers, Removers
<1> QED
  BY <1>1, <1>3, <1>4, <1>5, <1>6, <1>7 DEF t

\* What the stack makes of a key it treats as before.
LEMMA AppliedSame ==
  ASSUME stack \in Seq(Delta), stack' \in Seq(Delta), NEW k \in Keys,
         Touching(stack', k) = Touching(stack, k), Overlay'[k] = Overlay[k],
         \A i \in Touching(stack, k) : stack'[i].object[k] = stack[i].object[k]
  PROVE  Applied(Overlay', stack')[k] = Applied(Overlay, stack)[k]
<1>1. CASE Touching(stack, k) = {}
  BY <1>1, AppliedAt
<1>2. CASE Touching(stack, k) # {}
  <2>1. PICK m \in Touching(stack, k) : \A i \in Touching(stack, k) : i <= m
    BY <1>2, AppliedAt
  <2>2. Applied(Overlay, stack)[k] = stack[m].object[k]
    BY <2>1, AppliedAt
  <2>3. Applied(Overlay', stack')[k] = stack'[m].object[k]
    BY <2>1, AppliedAt
  <2> QED
    BY <2>2, <2>3
<1> QED
  BY <1>1, <1>2

\* What it makes of a key that its lowest delta no longer touches.
LEMMA AppliedBelow ==
  ASSUME stack \in Seq(Delta), stack' \in Seq(Delta), NEW k \in Keys,
         Touching(stack', k) = Touching(stack, k) \ {1}, 1 \in Touching(stack, k),
         \A i \in Touching(stack', k) : stack'[i].object[k] = stack[i].object[k]
  PROVE  /\ Touching(stack', k) = {} => /\ Applied(Overlay, stack)[k] = stack[1].object[k]
                                   /\ Applied(Overlay', stack')[k] = Overlay'[k]
         /\ Touching(stack', k) # {} => Applied(Overlay', stack')[k] = Applied(Overlay, stack)[k]
<1>1. ASSUME Touching(stack', k) = {}
      PROVE  Applied(Overlay, stack)[k] = stack[1].object[k] /\ Applied(Overlay', stack')[k] = Overlay'[k]
  <2>1. \A i \in Touching(stack, k) : i <= 1
    BY <1>1
  <2> QED
    BY <1>1, <2>1, AppliedAt
<1>2. ASSUME Touching(stack', k) # {}
      PROVE  Applied(Overlay', stack')[k] = Applied(Overlay, stack)[k]
  <2>1. PICK m \in Touching(stack', k) : \A i \in Touching(stack', k) : i <= m
    BY <1>2, AppliedAt
  <2>2. m \in Touching(stack, k) /\ m \in 1 .. Len(stack)
    BY <2>1, AppliedAt
  <2>3. \A i \in Touching(stack, k) : i <= m
    BY <2>1, <2>2
  <2>4. Applied(Overlay, stack)[k] = stack[m].object[k]
    BY <2>2, <2>3, AppliedAt
  <2>5. Applied(Overlay', stack')[k] = stack'[m].object[k]
    BY <2>1, AppliedAt
  <2> QED
    BY <2>1, <2>4, <2>5
<1> QED
  BY <1>1, <1>2

LEMMA AppliedPopped ==
  ASSUME stack \in Seq(Delta), stack # <<>>, stack[1] = [removed |-> {}, object |-> NoObjects],
         NEW k \in Keys
  PROVE  Applied(Overlay, Tail(stack))[k] = Applied(Overlay, stack)[k]
<1> DEFINE t == Tail(stack)
<1>1. /\ t \in Seq(Delta)
      /\ Touching(t, k) \subseteq 1 .. Len(t)
      /\ \A i \in 1 .. Len(t) : t[i] = stack[i + 1]
      /\ \A i \in Touching(t, k) : i + 1 \in Touching(stack, k)
      /\ \A i \in Touching(stack, k) : i - 1 \in Touching(t, k)
  BY PoppedStack DEF Touching
<1>2. Touching(stack, k) \subseteq 1 .. Len(stack)
  BY AppliedAt
<1> HIDE DEF t
<1>3. CASE Touching(t, k) = {}
  <2>1. Touching(stack, k) = {}
    BY <1>1, <1>3
  <2>2. Applied(Overlay, t)[k] = Overlay[k] /\ Applied(Overlay, stack)[k] = Overlay[k]
    BY <1>1, <1>3, <2>1, AppliedAt
  <2> QED
    BY <2>2 DEF t
<1>4. CASE Touching(t, k) # {}
  <2>1. PICK m \in Touching(t, k) : \A i \in Touching(t, k) : i <= m
    BY <1>1, <1>4, AppliedAt
  <2>2. m + 1 \in Touching(stack, k) /\ m \in Nat /\ t[m] = stack[m + 1]
    BY <1>1, <2>1
  <2>3. \A i \in Touching(stack, k) : i <= m + 1
    <3>1. \A i \in Touching(stack, k) : i - 1 <= m /\ i \in Int
      BY <1>1, <1>2, <2>1
    <3> QED
      BY <2>2, <3>1
  <2>4. Applied(Overlay, stack)[k] = stack[m + 1].object[k]
    BY <2>2, <2>3, AppliedAt
  <2>5. Applied(Overlay, t)[k] = t[m].object[k]
    BY <1>1, <2>1, AppliedAt
  <2> QED
    BY <2>2, <2>4, <2>5 DEF t
<1> QED
  BY <1>3, <1>4

-----------------------------------------------------------------------------
(* Commits of any number of deltas *)

\* The write batch holds what the commit has written already; a removal that
\* is still to be done for a key of the batch was foreseen.
Batching ==
  /\ Batched <=> phase \in {"commit", "store"}
  /\ phase = "clearing" => DOMAIN rdb.cache.object = {}
  /\ phase = "commit" =>
       /\ goal.written = DOMAIN rdb.batch \cup {k \in Keys : Writers(stack, k) # {}}
       /\ \A k \in Keys : Removers(stack, k) # {} => k \in goal.removed
       /\ \A k \in DOMAIN rdb.batch : Removers(stack, k) # {} => k \in undone
       /\ Undone(stack) \subseteq undone
  /\ phase = "store" => goal.written = DOMAIN rdb.batch

\* Where the size is not miscounted, a key that is written twice is in the
\* directory, so that get finds it also if its entry was evicted in between.
Counting ==
  /\ phase \in {"closed", "setup", "clearing"} => undone = {}
  /\ ~miscounted => undone = {}
  /\ phase = "commit" /\ ~miscounted =>
       /\ \A k \in DOMAIN rdb.batch : Writers(stack, k) # {} => disk.objects[k] # Absent
       /\ \A k \in Keys : (\E i, j \in Writers(stack, k) : i < j) =>
            disk.objects[k] # Absent /\ Removers(stack, k) = {}

\* The metadata that were put describe the backend.
Stored ==
  /\ todo \in Seq(Range(Fields))
  /\ \A f \in Range(Fields) :
       \/ \E i \in 1 .. Len(todo) : todo[i] = f
       \/ disk.metadata[f] = IF f = "size" THEN rdb.size ELSE rdb.node

\* The size, in memory and where an open would find it.
Saved ==
  "size" \in DOMAIN disk.metadata /\ (disk.families = Families \/ phase = "setup") =>
    disk.metadata["size"] = Count(disk.objects)

Sizes ==
  /\ SizeCounts
  /\ ~unsaved /\ ~miscounted => Saved
  /\ phase \in {"closed", "setup"} => ~unsaved
  /\ phase \in {"commit", "store"} => unsaved
  /\ phase \in {"store", "closing"} => Stored
  /\ disk.families = {} => "size" \notin DOMAIN disk.metadata

\* A key has the object it had before the commit, or is removed already.
OnlyRemoved ==
  \A k \in Keys : disk.objects[k] # goal.before[k] => disk.objects[k] = Absent /\ k \in goal.removed

\* What is still to be written makes the contents the commit is to leave.
Goals ==
  /\ BatchAllOrNothing
  /\ phase \in {"commit", "store"} => OnlyRemoved /\ (~miscounted => Resurrected = {})
  /\ phase = "commit" => \A k \in Keys \ Resurrected : Applied(Overlay, stack)[k] = goal.after[k]
  /\ phase = "store" => IsLeft(Overlay) /\ rdb.node = goal.node

CommitInv == Batching /\ CacheCoherent /\ Counting /\ Sizes /\ Goals

BatchInv == DataInv /\ TypeInv /\ CommitInv

LEMMA OverlayType ==
  ASSUME TypeInv
  PROVE  Overlay \in Contents
BY DEF Overlay, TypeInv, DiskType, RdbType, Contents

\* A put changes one key of what is there and counts it.
LEMMA PutThere ==
  ASSUME NEW k \in Keys, NEW v \in Values, TypeInv, CacheCoherent, Put(k, v), undone' = undone
  PROVE  /\ disk'.families = disk.families /\ disk'.metadata = disk.metadata
         /\ Overlay' = [Overlay EXCEPT ![k] = v]
         /\ Batched' <=> Batched
         /\ Batched => /\ DOMAIN rdb'.batch = DOMAIN rdb.batch \cup {k}
                       /\ disk'.objects = disk.objects
         /\ CacheCoherent'
         /\ (Got(k) = Absent <=> Overlay[k] = Absent) /\ rdb.size = Count(Overlay) =>
              rdb'.size = Count(Overlay')
<1>1. /\ disk'.objects = IF Batched THEN disk.objects ELSE [disk.objects EXCEPT ![k] = v]
      /\ disk'.families = disk.families /\ disk'.metadata = disk.metadata
      /\ rdb'.size = IF Got(k) = Absent THEN (rdb.size + 1) % SizeLimit ELSE rdb.size
      /\ rdb'.cache = CachePut(AfterGet(k), k, v)
      /\ rdb'.batch = IF Batched THEN Store(rdb.batch, k, v) ELSE rdb.batch
  BY PutRecords DEF TypeInv
<1>2. disk.objects \in Contents
  BY DEF TypeInv, DiskType
<1>3. /\ Batched' <=> Batched
      /\ Batched => /\ DOMAIN rdb'.batch = DOMAIN rdb.batch \cup {k}
                    /\ rdb'.batch[k] = v
                    /\ \A j \in DOMAIN rdb.batch \ {k} : rdb'.batch[j] = rdb.batch[j]
                    /\ disk'.objects = disk.objects
  <2>1. CASE ~Batched
    BY <1>1, <2>1 DEF Batched
  <2>2. CASE Batched
    <3>1. DOMAIN rdb.batch \subseteq Keys /\ \A j \in DOMAIN rdb.batch : rdb.batch[j] \in Values
      BY <2>2 DEF TypeInv, RdbType
    <3>2. rdb'.batch = Store(rdb.batch, k, v)
      BY <1>1, <2>2
    <3>3. /\ DOMAIN rdb'.batch = DOMAIN rdb.batch \cup {k}
          /\ rdb'.batch \in [DOMAIN rdb'.batch -> Values]
          /\ rdb'.batch[k] = v
          /\ \A j \in DOMAIN rdb.batch \ {k} : rdb'.batch[j] = rdb.batch[j]
      BY ONLY <3>1, <3>2, v \in Values DEF Store
    <3>4. rdb'.batch # NoBatch
      BY <3>1, <3>3, BackendAssumption
    <3> QED
      BY <1>1, <2>2, <3>3, <3>4 DEF Batched
  <2> QED
    BY <2>1, <2>2
<1>4. Overlay' = [Overlay EXCEPT ![k] = v]
  <2>1. Overlay' = [j \in Keys |-> IF Batched' /\ j \in DOMAIN rdb'.batch THEN rdb'.batch[j]
                                   ELSE disk'.objects[j]]
    BY DEF Overlay
  <2>2. CASE Batched
    BY <1>3, <2>1, <2>2 DEF Overlay
  <2>3. CASE ~Batched
    BY <1>1, <1>2, <1>3, <2>1, <2>3 DEF Overlay, Contents
  <2> QED
    BY <2>2, <2>3
<1>5. CacheCoherent'
  <2>1. LET o == rdb'.cache.object
        IN  o[k] = v /\ \A j \in DOMAIN o \ {k} : j \in DOMAIN rdb.cache.object /\ o[j] = rdb.cache.object[j]
    BY <1>1, WrittenCache DEF TypeInv
  <2>2. \A j \in Keys : Overlay'[j] = IF j = k THEN v ELSE Overlay[j]
    BY <1>4 DEF Overlay
  <2> QED
    BY <2>1, <2>2 DEF CacheCoherent, IsCached
<1>6. ASSUME Got(k) = Absent <=> Overlay[k] = Absent, rdb.size = Count(Overlay)
      PROVE  rdb'.size = Count(Overlay')
  <2>1. Overlay \in Contents
    BY OverlayType
  <2>2. Count(Overlay') = IF Overlay[k] = Absent THEN Count(Overlay) + 1 ELSE Count(Overlay)
    BY <1>4, <2>1, CountPut
  <2>3. Count(Overlay') \in Nat /\ Count(Overlay') < SizeLimit
    BY <1>4, CountType
  <2> QED
    BY <1>1, <1>6, <2>1, <2>2, <2>3, NoWrap
<1> QED
  BY <1>1, <1>3, <1>4, <1>5, <1>6

\* An erase changes one key, but not if the batch holds it.
LEMMA EraseThere ==
  ASSUME NEW k \in Keys, TypeInv, CacheCoherent, Erase(k), undone' = undone,
         Batched /\ k \in DOMAIN rdb.batch => k \in undone
  PROVE  /\ disk'.families = disk.families /\ disk'.metadata = disk.metadata
         /\ disk'.objects = [disk.objects EXCEPT ![k] = Absent]
         /\ Overlay' = IF Batched /\ k \in DOMAIN rdb.batch THEN Overlay
                       ELSE [Overlay EXCEPT ![k] = Absent]
         /\ rdb'.batch = rdb.batch
         /\ Batched' <=> Batched
         /\ CacheCoherent'
         /\ k \notin undone /\ rdb.size = Count(Overlay) => rdb'.size = Count(Overlay')
<1>1. /\ disk'.objects = [disk.objects EXCEPT ![k] = Absent]
      /\ disk'.families = disk.families /\ disk'.metadata = disk.metadata
      /\ rdb'.size = IF Got(k) # Absent THEN (rdb.size - 1) % SizeLimit ELSE rdb.size
      /\ rdb'.cache = CachePut(AfterGet(k), k, Absent)
      /\ rdb'.batch = rdb.batch
  BY EraseRecords DEF TypeInv
<1>2. disk.objects \in Contents
  BY DEF TypeInv, DiskType
<1>3. Batched' <=> Batched
  BY <1>1 DEF Batched
<1>4. Overlay' = IF Batched /\ k \in DOMAIN rdb.batch THEN Overlay ELSE [Overlay EXCEPT ![k] = Absent]
  <2>1. Overlay' = [j \in Keys |-> IF Batched /\ j \in DOMAIN rdb.batch THEN rdb.batch[j]
                                   ELSE disk'.objects[j]]
    BY <1>1, <1>3 DEF Overlay
  <2>2. \A j \in Keys : disk'.objects[j] = IF j = k THEN Absent ELSE disk.objects[j]
    BY <1>1, <1>2 DEF Contents
  <2>3. CASE Batched /\ k \in DOMAIN rdb.batch
    BY <2>1, <2>2, <2>3 DEF Overlay
  <2>4. CASE ~(Batched /\ k \in DOMAIN rdb.batch)
    BY <2>1, <2>2, <2>4 DEF Overlay
  <2> QED
    BY <2>3, <2>4
<1>5. CacheCoherent'
  <2>1. LET o == rdb'.cache.object
        IN  /\ o[k] = Absent
            /\ \A j \in DOMAIN o \ {k} : j \in DOMAIN rdb.cache.object /\ o[j] = rdb.cache.object[j]
    BY <1>1, WrittenCache DEF TypeInv
  <2>2. \A j \in Keys : j # k => Overlay'[j] = Overlay[j]
    BY <1>4 DEF Overlay
  <2>3. Overlay'[k] = Absent \/ k \in undone
    BY <1>4 DEF Overlay
  <2> QED
    BY <2>1, <2>2, <2>3 DEF CacheCoherent, IsCached
<1>6. ASSUME k \notin undone, rdb.size = Count(Overlay)
      PROVE  rdb'.size = Count(Overlay')
  <2>1. Got(k) = Overlay[k] /\ Overlay \in Contents
    BY <1>6, GotIsThere, OverlayType
  <2>2. Count(Overlay') = IF Overlay[k] # Absent THEN Count(Overlay) - 1 ELSE Count(Overlay)
    BY <1>4, <1>6, <2>1, CountErase
  <2>3. Count(Overlay') \in Nat /\ Count(Overlay') < SizeLimit
    BY CountType
  <2> QED
    BY <1>1, <1>6, <2>1, <2>2, <2>3, NoWrap
<1> QED
  BY <1>1, <1>3, <1>4, <1>5, <1>6

\* Where neither the objects nor the batch change, what is there stays.
LEMMA SameOverlay ==
  ASSUME disk'.objects = disk.objects, rdb'.batch = rdb.batch
  PROVE  Overlay' = Overlay /\ (Batched' <=> Batched)
BY DEF Overlay, Batched

\* Without a batch the objects of the directory are there.
LEMMA NoOverlay ==
  ASSUME TypeInv, ~Batched
  PROVE  Overlay = disk.objects
BY DEF Overlay, TypeInv, DiskType, Contents

\* A commit that is over stays what it was.
LEMMA SameGoal ==
  ASSUME goal' = goal
  PROVE  Resurrected' = Resurrected /\ \A o : IsLeft(o)' <=> IsLeft(o)
BY DEF Resurrected, IsLeft

\* The genesis function writes.
LEMMA GenesisStep ==
  ASSUME BatchInv, NEW k \in Keys, (\E v \in Values : GenesisPut(k, v)) \/ GenesisErase(k)
  PROVE  CommitInv'
<1>1. /\ phase = "genesis" /\ phase' = phase
      /\ undone' = undone /\ miscounted' = miscounted /\ unsaved' = TRUE
      /\ goal' = Unchanging(disk'.objects, 0)
      /\ ~Batched
  BY DEF GenesisPut, GenesisErase, BatchInv, CommitInv, Batching
<1>2. k \notin undone => Got(k) = Overlay[k]
  BY <1>1, GotIsThere DEF BatchInv, CommitInv
<1>3. /\ disk'.families = disk.families
      /\ disk'.metadata = disk.metadata
      /\ ~Batched'
      /\ CacheCoherent'
      /\ k \notin undone /\ rdb.size = Count(Overlay) => rdb'.size = Count(Overlay')
  <2>1. CASE \E v \in Values : GenesisPut(k, v)
    <3>1. PICK v \in Values : Put(k, v)
      BY <2>1 DEF GenesisPut
    <3> QED
      BY <1>1, <1>2, <3>1, PutThere DEF BatchInv, CommitInv
  <2>2. CASE GenesisErase(k)
    BY <1>1, <2>2, EraseThere DEF GenesisErase, BatchInv, CommitInv
  <2> QED
    BY <2>1, <2>2
<1>4. Batching' /\ Counting'
  BY <1>1, <1>3 DEF Batching, Counting, BatchInv, CommitInv
<1>5. Sizes'
  BY <1>1, <1>3 DEF BatchInv, CommitInv, Sizes, SizeCounts, Counting, IsOpen
<1>6. Goals'
  BY <1>1 DEF Goals, BatchAllOrNothing, Unchanging
<1> QED
  BY <1>3, <1>4, <1>5, <1>6 DEF CommitInv

\* Reads fill and order the cache only.
LEMMA ReadStep ==
  ASSUME BatchInv, NEW k \in Keys, Get(k) \/ Iterate(k)
  PROVE  CommitInv'
<1>1. /\ rdb' = [rdb EXCEPT !.cache = AfterGet(k)]
      /\ disk' = disk /\ phase' = phase /\ stack' = stack /\ todo' = todo /\ goal' = goal
      /\ undone' = undone /\ unsaved' = unsaved /\ miscounted' = miscounted
      /\ phase \in {"genesis", "ready"} /\ Records
  BY DEF Get, Iterate, AfterGet, BatchInv, DataInv, history
<1>2. /\ rdb'.cache = AfterGet(k) /\ rdb'.size = rdb.size /\ rdb'.node = rdb.node
      /\ rdb'.batch = rdb.batch
  BY <1>1 DEF Records
<1>3. Overlay' = Overlay /\ (Batched' <=> Batched) /\ ~Batched
  BY <1>1, <1>2, SameOverlay DEF BatchInv, CommitInv, Batching
<1>4. CacheCoherent'
  <2>1. LET o == rdb'.cache.object
        IN  /\ o[k] = Got(k)
            /\ \A j \in DOMAIN o \ {k} : j \in DOMAIN rdb.cache.object /\ o[j] = rdb.cache.object[j]
    BY <1>1, <1>2, AfterGetObject
  <2>2. Got(k) = Overlay[k] \/ (k \in undone /\ Got(k) = Absent)
    BY <1>3 DEF Got, BatchInv, CommitInv, CacheCoherent, IsCached, Overlay
  <2> QED
    BY <1>1, <1>3, <2>1, <2>2 DEF BatchInv, CommitInv, CacheCoherent, IsCached
<1>5. Batching' /\ Counting'
  BY <1>1, <1>2, <1>3 DEF BatchInv, CommitInv, Batching, Counting
<1>6. Sizes'
  BY <1>1, <1>2, <1>3 DEF BatchInv, CommitInv, Sizes, SizeCounts, IsOpen, Saved
<1>7. Goals'
  BY <1>1, SameGoal DEF BatchInv, CommitInv, Goals, BatchAllOrNothing
<1> QED
  BY <1>4, <1>5, <1>6, <1>7 DEF CommitInv

\* A commit starts: what it makes of the objects is known from the stack.
LEMMA StartStep ==
  ASSUME BatchInv, NEW s \in Stacks, StartCommit(s)
  PROVE  CommitInv'
<1>1. /\ rdb' = [rdb EXCEPT !.batch = [k \in {} |-> Absent]]
      /\ disk' = disk /\ todo' = todo
      /\ phase = "ready" /\ phase' = "commit" /\ stack' = s
      /\ goal' = [before  |-> disk.objects,
                  removed |-> {k \in Keys : Removers(s, k) # {}},
                  written |-> {k \in Keys : Writers(s, k) # {}},
                  after   |-> Applied(disk.objects, s),
                  node    |-> rdb.node + Len(s)]
      /\ undone' = undone \cup Undone(s) /\ unsaved' = TRUE
      /\ miscounted' = (miscounted \/ Undone(s) # {} \/ Recounted(disk.objects, s) # {})
      /\ ~Batched /\ Records
  BY DEF StartCommit, BatchInv, CommitInv, Batching, DataInv
<1>2. /\ rdb'.cache = rdb.cache /\ rdb'.size = rdb.size
      /\ rdb'.batch = [k \in {} |-> Absent]
  BY <1>1 DEF Records
<1>3. s \in Seq(Delta)
  BY StackSeq
<1>4. /\ goal'.before = disk.objects /\ goal'.after = Applied(disk.objects, s)
      /\ goal'.removed = {k \in Keys : Removers(s, k) # {}}
      /\ goal'.written = {k \in Keys : Writers(s, k) # {}}
  BY <1>1
<1>5. Batched' /\ DOMAIN rdb'.batch = {}
  BY <1>2, BackendAssumption DEF Batched
<1>6. Overlay' = disk.objects /\ Overlay = disk.objects
  <2>1. Overlay = disk.objects
    BY <1>1, NoOverlay DEF BatchInv
  <2>2. Overlay' = [k \in Keys |-> disk.objects[k]]
    BY <1>1, <1>5 DEF Overlay
  <2> QED
    BY <2>1, <2>2 DEF BatchInv, TypeInv, DiskType, Contents
<1>7. Batching'
  BY <1>1, <1>4, <1>5 DEF Batching
<1>8. CacheCoherent'
  BY <1>1, <1>2, <1>6 DEF BatchInv, CommitInv, CacheCoherent, IsCached
<1>9. ~miscounted' => ~miscounted /\ Undone(s) = {} /\ Recounted(disk.objects, s) = {}
  BY <1>1
<1>10. Counting'
  <2>1. ~miscounted' => undone' = {}
    BY <1>1, <1>9 DEF BatchInv, CommitInv, Counting
  <2>2. ASSUME ~miscounted', NEW k \in Keys, \E i, j \in Writers(s, k) : i < j
        PROVE  disk.objects[k] # Absent /\ Removers(s, k) = {}
    BY <1>9, <2>2 DEF Recounted
  <2> QED
    BY <1>1, <1>5, <2>1, <2>2 DEF Counting
<1>11. Sizes'
  BY <1>1, <1>2, <1>6, <1>9 DEF BatchInv, CommitInv, Sizes, SizeCounts, IsOpen
<1>12. Goals'
  <2>1. OnlyRemoved'
    BY <1>1, <1>4 DEF OnlyRemoved
  <2>2. BatchAllOrNothing'
    BY <2>1 DEF OnlyRemoved, BatchAllOrNothing
  <2>3. ASSUME Undone(s) = {}, NEW k \in Keys, Writers(s, k) # {}
        PROVE  Applied(disk.objects, s)[k] # Absent
    <3>1. Touching(s, k) # {}
      BY <2>3 DEF Touching
    <3>2. PICK m \in Touching(s, k) : \A i \in Touching(s, k) : i <= m
      BY <1>3, <3>1, AppliedAt
    <3>3. Applied(disk.objects, s)[k] = s[m].object[k] /\ m \in 1 .. Len(s)
      BY <1>3, <3>2, AppliedAt
    <3>4. CASE m \in Writers(s, k)
      BY <3>3, <3>4 DEF Writers
    <3>5. CASE m \notin Writers(s, k)
      <4>1. m \in Removers(s, k)
        BY <3>5 DEF Touching
      <4>2. PICK i \in Writers(s, k) : TRUE
        BY <2>3
      <4>3. i \in 1 .. Len(s) /\ i <= m /\ i # m
        BY <3>2, <3>5, <4>2 DEF Writers, Touching
      <4>4. i < m
        BY <3>3, <4>3
      <4> QED
        BY <2>3, <4>1, <4>2, <4>4 DEF Undone
    <3> QED
      BY <3>4, <3>5
  <2>4. ~miscounted' => Resurrected' = {}
    BY <1>4, <1>9, <2>3 DEF Resurrected
  <2> QED
    BY <1>1, <1>4, <1>6, <2>1, <2>2, <2>4 DEF Goals
<1> QED
  BY <1>7, <1>8, <1>10, <1>11, <1>12 DEF CommitInv

\* With fewer writes and removals left in the stack, no more keys are undone
\* or written twice.
LEMMA FewerTouches ==
  ASSUME NEW s, NEW t, \A j \in Keys : Writers(t, j) \subseteq Writers(s, j)
                                       /\ Removers(t, j) \subseteq Removers(s, j)
  PROVE  Undone(t) \subseteq Undone(s)
BY DEF Undone

LEMMA CommitEraseStep ==
  ASSUME BatchInv, NEW k \in Keys, CommitErase(k)
  PROVE  CommitInv'
<1>1. /\ phase = "commit" /\ phase' = phase /\ goal' = goal /\ todo' = todo
      /\ undone' = undone /\ unsaved' = unsaved /\ miscounted' = miscounted
      /\ stack # <<>> /\ k \in stack[1].removed /\ Erase(k)
      /\ stack' = [stack EXCEPT ![1].removed = @ \ {k}]
      /\ stack \in Seq(Delta) /\ Batched
  BY DEF CommitErase, BatchInv, TypeInv, WorkType, CommitInv, Batching, history
<1>2. /\ stack' \in Seq(Delta)
      /\ \A i \in 1 .. Len(stack) : stack'[i].object = stack[i].object
      /\ \A j : Writers(stack', j) = Writers(stack, j)
      /\ \A j : j # k => Removers(stack', j) = Removers(stack, j)
      /\ Removers(stack', k) = Removers(stack, k) \ {1}
      /\ 1 \in Removers(stack, k)
  BY <1>1, ErasedStack
<1>3. k \in DOMAIN rdb.batch => k \in undone
  BY <1>1, <1>2 DEF BatchInv, CommitInv, Batching
<1>4. k \in goal.removed
  BY <1>1, <1>2 DEF BatchInv, CommitInv, Batching
<1>5. /\ disk'.families = disk.families /\ disk'.metadata = disk.metadata
      /\ disk'.objects = [disk.objects EXCEPT ![k] = Absent]
      /\ Overlay' = IF k \in DOMAIN rdb.batch THEN Overlay ELSE [Overlay EXCEPT ![k] = Absent]
      /\ rdb'.batch = rdb.batch
      /\ Batched' /\ CacheCoherent'
      /\ k \notin undone /\ rdb.size = Count(Overlay) => rdb'.size = Count(Overlay')
  BY <1>1, <1>3, EraseThere DEF BatchInv, CommitInv
<1>6. \A j \in Keys : disk'.objects[j] = IF j = k THEN Absent ELSE disk.objects[j]
  BY <1>5 DEF BatchInv, TypeInv, DiskType, Contents
<1>7. \A j : Removers(stack', j) \subseteq Removers(stack, j)
  BY <1>2
<1>8. DOMAIN rdb.batch \subseteq Keys
  BY <1>1 DEF BatchInv, TypeInv, RdbType
<1>9. Batching'
  <2>1. Undone(stack') \subseteq undone
    BY <1>1, <1>2, <1>7, FewerTouches DEF BatchInv, CommitInv, Batching
  <2>2. goal.written = DOMAIN rdb.batch \cup {j \in Keys : Writers(stack', j) # {}}
    BY <1>1, <1>2 DEF BatchInv, CommitInv, Batching
  <2>3. \A j \in Keys : Removers(stack', j) # {} => j \in goal.removed
    BY <1>1, <1>7 DEF BatchInv, CommitInv, Batching
  <2>4. \A j \in DOMAIN rdb.batch : Removers(stack', j) # {} => j \in undone
    BY <1>1, <1>7 DEF BatchInv, CommitInv, Batching
  <2> QED
    BY <1>1, <1>5, <2>1, <2>2, <2>3, <2>4 DEF Batching
<1>10. Counting'
  <2> SUFFICES ASSUME ~miscounted
               PROVE  /\ undone = {}
                      /\ \A j \in DOMAIN rdb.batch : Writers(stack', j) # {} => disk'.objects[j] # Absent
                      /\ \A j \in Keys : (\E h, i \in Writers(stack', j) : h < i) =>
                           disk'.objects[j] # Absent /\ Removers(stack', j) = {}
    BY <1>1, <1>5 DEF Counting
  <2>1. undone = {} /\ k \notin DOMAIN rdb.batch
    BY <1>1, <1>3 DEF BatchInv, CommitInv, Counting
  <2>2. \A j \in DOMAIN rdb.batch : Writers(stack', j) # {} => disk'.objects[j] # Absent
    BY <1>1, <1>2, <1>6, <1>8, <2>1 DEF BatchInv, CommitInv, Counting
  <2>3. ASSUME NEW j \in Keys, \E h, i \in Writers(stack', j) : h < i
        PROVE  disk'.objects[j] # Absent /\ Removers(stack', j) = {}
    <3>1. disk.objects[j] # Absent /\ Removers(stack, j) = {}
      BY <1>1, <1>2, <2>3 DEF BatchInv, CommitInv, Counting
    <3>2. j # k
      BY <1>2, <3>1
    <3> QED
      BY <1>6, <1>7, <3>1, <3>2
  <2> QED
    BY <2>1, <2>2, <2>3
<1>11. Sizes'
  BY <1>1, <1>5 DEF BatchInv, CommitInv, Sizes, SizeCounts, IsOpen, Counting
<1>12. Goals'
  <2>1. /\ OnlyRemoved /\ (~miscounted => Resurrected = {}) /\ Resurrected' = Resurrected
        /\ \A j \in Keys \ Resurrected : Applied(Overlay, stack)[j] = goal.after[j]
    BY <1>1, SameGoal DEF BatchInv, CommitInv, Goals
  <2>2. OnlyRemoved'
    BY <1>1, <1>4, <1>6, <2>1 DEF OnlyRemoved
  <2>3. BatchAllOrNothing'
    BY <2>2 DEF OnlyRemoved, BatchAllOrNothing
  <2>4. ASSUME NEW j \in Keys, j # k
        PROVE  Applied(Overlay', stack')[j] = Applied(Overlay, stack)[j]
    <3>1. Touching(stack', j) = Touching(stack, j) /\ Overlay'[j] = Overlay[j]
      BY <1>2, <1>5, <2>4 DEF Touching, Overlay
    <3>2. \A i \in Touching(stack, j) : stack'[i].object[j] = stack[i].object[j]
      BY <1>1, <1>2, AppliedAt
    <3> QED
      BY <1>1, <1>2, <3>1, <3>2, AppliedSame
  <2>5. ASSUME k \notin Resurrected
        PROVE  Applied(Overlay', stack')[k] = Applied(Overlay, stack)[k]
    <3>1. CASE 1 \in Writers(stack, k)
      <4>1. Touching(stack', k) = Touching(stack, k) /\ Touching(stack, k) # {}
        BY <1>2, <3>1 DEF Touching
      <4>2. \A i \in Touching(stack, k) : stack'[i].object[k] = stack[i].object[k]
        BY <1>1, <1>2, AppliedAt
      <4>3. PICK m \in Touching(stack, k) : \A i \in Touching(stack, k) : i <= m
        BY <1>1, <4>1, AppliedAt
      <4>4. Applied(Overlay, stack)[k] = stack[m].object[k]
        BY <1>1, <4>3, AppliedAt
      <4>5. Applied(Overlay', stack')[k] = stack'[m].object[k]
        BY <1>2, <4>1, <4>3, AppliedAt
      <4> QED
        BY <4>2, <4>3, <4>4, <4>5
    <3>2. CASE 1 \notin Writers(stack, k)
      <4>1. Touching(stack', k) = Touching(stack, k) \ {1} /\ 1 \in Touching(stack, k)
        BY <1>2, <3>2 DEF Touching
      <4>2. \A i \in Touching(stack', k) : stack'[i].object[k] = stack[i].object[k]
        BY <1>1, <1>2, <4>1, AppliedAt
      <4>3. stack[1].object[k] = Absent
        BY <1>2, <3>2 DEF Writers, Removers
      <4>4. CASE Touching(stack', k) # {}
        BY <1>1, <1>2, <4>1, <4>2, <4>4, AppliedBelow
      <4>5. CASE Touching(stack', k) = {}
        <5>1. Applied(Overlay, stack)[k] = Absent /\ Applied(Overlay', stack')[k] = Overlay'[k]
          BY <1>1, <1>2, <4>1, <4>2, <4>3, <4>5, AppliedBelow
        <5>2. k \notin DOMAIN rdb.batch
          <6>1. goal.after[k] = Absent
            BY <2>1, <2>5, <5>1
          <6> QED
            BY <1>1, <2>5, <6>1 DEF Resurrected, BatchInv, CommitInv, Batching
        <5>3. Overlay'[k] = Absent
          BY <1>5, <5>2 DEF Overlay
        <5> QED
          BY <5>1, <5>3
      <4> QED
        BY <4>4, <4>5
    <3> QED
      BY <3>1, <3>2
  <2> QED
    BY <1>1, <2>1, <2>2, <2>3, <2>4, <2>5 DEF Goals
<1> QED
  BY <1>5, <1>9, <1>10, <1>11, <1>12 DEF CommitInv

LEMMA CommitPutStep ==
  ASSUME BatchInv, NEW k \in Keys, CommitPut(k)
  PROVE  CommitInv'
<1>1. /\ phase = "commit" /\ phase' = phase /\ goal' = goal /\ todo' = todo
      /\ undone' = undone /\ unsaved' = unsaved /\ miscounted' = miscounted
      /\ stack # <<>> /\ stack[1].removed = {} /\ stack[1].object[k] # Absent
      /\ Put(k, stack[1].object[k])
      /\ stack' = [stack EXCEPT ![1].object[k] = Absent]
      /\ stack \in Seq(Delta) /\ Batched
  BY DEF CommitPut, BatchInv, TypeInv, WorkType, CommitInv, Batching, history
<1>2. /\ stack' \in Seq(Delta)
      /\ \A i \in 1 .. Len(stack), j \in Keys : j # k \/ i # 1 => stack'[i].object[j] = stack[i].object[j]
      /\ \A j : Removers(stack', j) = Removers(stack, j) /\ 1 \notin Removers(stack, j)
      /\ \A j \in Keys : j # k => Writers(stack', j) = Writers(stack, j)
      /\ Writers(stack', k) = Writers(stack, k) \ {1}
      /\ 1 \in Writers(stack, k)
  BY <1>1, PutStack
<1>3. PICK v \in Values : v = stack[1].object[k] /\ Put(k, v)
  <2>1. stack[1] \in Delta
    BY <1>1
  <2>2. stack[1].object \in [Keys -> Values \cup {Absent}]
    BY ONLY <2>1 DEF Delta, Contents
  <2> QED
    BY <1>1, <2>2
<1>4. DOMAIN rdb.batch \subseteq Keys /\ \A j \in DOMAIN rdb.batch : rdb.batch[j] \in Values
  BY <1>1 DEF BatchInv, TypeInv, RdbType
<1>5. ~miscounted => (Got(k) = Absent <=> Overlay[k] = Absent)
  <2> SUFFICES ASSUME ~miscounted PROVE Got(k) = Absent <=> Overlay[k] = Absent
    OBVIOUS
  <2>1. k \notin undone
    BY DEF BatchInv, CommitInv, Counting
  <2>2. CASE k \notin DOMAIN rdb.batch
    BY <2>1, <2>2, GotIsThere DEF BatchInv, CommitInv
  <2>3. CASE k \in DOMAIN rdb.batch
    <3>1. disk.objects[k] # Absent
      BY <1>1, <1>2, <2>3 DEF BatchInv, CommitInv, Counting
    <3>2. Overlay[k] # Absent
      BY <1>1, <1>4, <2>3, CacheAssumption DEF Overlay
    <3>3. IsCached(rdb.cache, k) => Got(k) = Overlay[k]
      BY <2>1 DEF Got, BatchInv, CommitInv, CacheCoherent
    <3>4. ~IsCached(rdb.cache, k) => Got(k) = disk.objects[k]
      BY DEF Got
    <3> QED
      BY <3>1, <3>2, <3>3, <3>4
  <2> QED
    BY <2>2, <2>3
<1>6. /\ disk'.families = disk.families /\ disk'.metadata = disk.metadata
      /\ disk'.objects = disk.objects
      /\ Overlay' = [Overlay EXCEPT ![k] = v]
      /\ DOMAIN rdb'.batch = DOMAIN rdb.batch \cup {k}
      /\ Batched' /\ CacheCoherent'
      /\ ~miscounted /\ rdb.size = Count(Overlay) => rdb'.size = Count(Overlay')
  BY <1>1, <1>3, <1>5, PutThere DEF BatchInv, CommitInv
<1>7. \A j \in Keys : Writers(stack', j) \subseteq Writers(stack, j)
  BY <1>2
<1>8. Batching'
  <2>1. Undone(stack') \subseteq undone
    BY <1>1, <1>2, <1>7, FewerTouches DEF BatchInv, CommitInv, Batching
  <2>2. goal.written = DOMAIN rdb'.batch \cup {j \in Keys : Writers(stack', j) # {}}
    BY <1>1, <1>2, <1>6 DEF BatchInv, CommitInv, Batching
  <2>3. \A j \in Keys : Removers(stack', j) # {} => j \in goal.removed
    BY <1>1, <1>2 DEF BatchInv, CommitInv, Batching
  <2>4. ASSUME Removers(stack, k) # {} PROVE k \in undone
    <3>1. PICK i \in Removers(stack, k) : i \in 1 .. Len(stack) /\ i # 1
      BY <1>2, <2>4 DEF Removers
    <3>2. 1 < i
      BY <3>1
    <3> QED
      BY <1>1, <1>2, <3>1, <3>2 DEF Undone, BatchInv, CommitInv, Batching
  <2>5. \A j \in DOMAIN rdb'.batch : Removers(stack', j) # {} => j \in undone
    BY <1>1, <1>2, <1>6, <2>4 DEF BatchInv, CommitInv, Batching
  <2> QED
    BY <1>1, <1>6, <2>1, <2>2, <2>3, <2>5 DEF Batching
<1>9. Counting'
  <2> SUFFICES ASSUME ~miscounted
               PROVE  /\ undone = {}
                      /\ \A j \in DOMAIN rdb'.batch : Writers(stack', j) # {} => disk.objects[j] # Absent
                      /\ \A j \in Keys : (\E h, i \in Writers(stack', j) : h < i) =>
                           disk.objects[j] # Absent /\ Removers(stack', j) = {}
    BY <1>1, <1>6 DEF Counting
  <2>1. undone = {}
    BY <1>1 DEF BatchInv, CommitInv, Counting
  <2>2. ASSUME Writers(stack', k) # {} PROVE disk.objects[k] # Absent
    <3>1. PICK i \in Writers(stack, k) : i \in 1 .. Len(stack) /\ i # 1
      BY <1>2, <2>2 DEF Writers
    <3>2. 1 < i
      BY <3>1
    <3> QED
      BY <1>1, <1>2, <3>1, <3>2 DEF BatchInv, CommitInv, Counting
  <2>3. \A j \in DOMAIN rdb'.batch : Writers(stack', j) # {} => disk.objects[j] # Absent
    BY <1>1, <1>4, <1>6, <1>7, <2>2 DEF BatchInv, CommitInv, Counting
  <2>4. ASSUME NEW j \in Keys, \E h, i \in Writers(stack', j) : h < i
        PROVE  disk.objects[j] # Absent /\ Removers(stack', j) = {}
    <3>1. \E h, i \in Writers(stack, j) : h < i
      BY <1>7, <2>4
    <3> QED
      BY <1>1, <1>2, <3>1 DEF BatchInv, CommitInv, Counting
  <2> QED
    BY <2>1, <2>3, <2>4
<1>10. Sizes'
  BY <1>1, <1>6 DEF BatchInv, CommitInv, Sizes, SizeCounts, IsOpen
<1>11. Goals'
  <2>1. /\ OnlyRemoved /\ BatchAllOrNothing /\ (~miscounted => Resurrected = {})
        /\ \A j \in Keys \ Resurrected : Applied(Overlay, stack)[j] = goal.after[j]
    BY <1>1 DEF BatchInv, CommitInv, Goals
  <2>2. OnlyRemoved' /\ BatchAllOrNothing' /\ Resurrected' = Resurrected
    BY <1>1, <1>6, <2>1, SameGoal DEF OnlyRemoved, BatchAllOrNothing
  <2>3. \A j \in Keys : Overlay'[j] = IF j = k THEN v ELSE Overlay[j]
    BY <1>6 DEF Overlay
  <2>4. ASSUME NEW j \in Keys, j # k
        PROVE  Applied(Overlay', stack')[j] = Applied(Overlay, stack)[j]
    <3>1. Touching(stack', j) = Touching(stack, j) /\ Overlay'[j] = Overlay[j]
      BY <1>2, <2>3, <2>4 DEF Touching
    <3>2. \A i \in Touching(stack, j) : stack'[i].object[j] = stack[i].object[j]
      BY <1>1, <1>2, <2>4, AppliedAt
    <3> QED
      BY <1>1, <1>2, <3>1, <3>2, AppliedSame
  <2>5. Applied(Overlay', stack')[k] = Applied(Overlay, stack)[k]
    <3>1. Touching(stack', k) = Touching(stack, k) \ {1} /\ 1 \in Touching(stack, k)
      BY <1>2 DEF Touching
    <3>2. \A i \in Touching(stack', k) : stack'[i].object[k] = stack[i].object[k]
      BY <1>1, <1>2, <3>1, AppliedAt
    <3>3. /\ Touching(stack', k) = {} => /\ Applied(Overlay, stack)[k] = stack[1].object[k]
                                         /\ Applied(Overlay', stack')[k] = Overlay'[k]
          /\ Touching(stack', k) # {} => Applied(Overlay', stack')[k] = Applied(Overlay, stack)[k]
      BY <1>1, <1>2, <3>1, <3>2, AppliedBelow
    <3> QED
      BY <1>3, <2>3, <3>3
  <2> QED
    BY <1>1, <2>1, <2>2, <2>4, <2>5 DEF Goals
<1> QED
  BY <1>6, <1>8, <1>9, <1>10, <1>11 DEF CommitInv

\* All metadata are still to be put.
LEMMA NothingStored ==
  \A f \in Range(Fields) : \E i \in 1 .. Len(Fields) : Fields[i] = f
BY DEF Range, Fields

LEMMA PopStep ==
  ASSUME BatchInv, PopDelta
  PROVE  CommitInv'
<1>1. /\ phase = "commit" /\ disk' = disk /\ goal' = goal
      /\ undone' = undone /\ unsaved' = unsaved /\ miscounted' = miscounted
      /\ stack[1] = [removed |-> {}, object |-> NoObjects] /\ stack' = Tail(stack)
      /\ \/ /\ stack' = <<>> /\ phase' = "store" /\ todo' = Fields
            /\ rdb' = [rdb EXCEPT !.node = goal.node]
         \/ stack' # <<>> /\ phase' = phase /\ todo' = todo /\ rdb' = rdb
      /\ stack \in Seq(Delta) /\ stack # <<>> /\ Batched /\ Records
  BY DEF PopDelta, BatchInv, TypeInv, WorkType, CommitInv, Batching, DataInv, history
<1>2. /\ rdb'.cache = rdb.cache /\ rdb'.size = rdb.size /\ rdb'.batch = rdb.batch
      /\ stack' = <<>> => rdb'.node = goal.node
  BY <1>1 DEF Records
<1>3. Overlay' = Overlay /\ (Batched' <=> Batched)
  BY <1>1, <1>2, SameOverlay
<1>4. ASSUME NEW k \in Keys
      PROVE  /\ stack' \in Seq(Delta)
             /\ Writers(stack', k) \subseteq Nat /\ Removers(stack', k) \subseteq Nat
             /\ \A i \in Writers(stack', k) : i + 1 \in Writers(stack, k)
             /\ \A i \in Removers(stack', k) : i + 1 \in Removers(stack, k)
             /\ Writers(stack, k) # {} => Writers(stack', k) # {}
             /\ Applied(Overlay, stack')[k] = Applied(Overlay, stack)[k]
  <2>1. /\ Tail(stack) \in Seq(Delta)
        /\ Writers(Tail(stack), k) \subseteq 1 .. Len(Tail(stack))
        /\ Removers(Tail(stack), k) \subseteq 1 .. Len(Tail(stack))
        /\ \A i \in Writers(Tail(stack), k) : i + 1 \in Writers(stack, k)
        /\ \A i \in Removers(Tail(stack), k) : i + 1 \in Removers(stack, k)
        /\ \A i \in Writers(stack, k) : i - 1 \in Writers(Tail(stack), k)
    BY <1>1, PoppedStack
  <2>2. Applied(Overlay, Tail(stack))[k] = Applied(Overlay, stack)[k]
    BY <1>1, AppliedPopped
  <2> QED
    BY <1>1, <2>1, <2>2
<1>5. \A k \in Keys : (Writers(stack', k) # {} <=> Writers(stack, k) # {})
                      /\ (Removers(stack', k) # {} => Removers(stack, k) # {})
  BY <1>4
<1>6. stack' = <<>> => \A k \in Keys : Writers(stack', k) = {} /\ Touching(stack', k) = {}
  BY DEF Writers, Removers, Touching
<1>7. DOMAIN rdb.batch \subseteq Keys /\ \A j \in DOMAIN rdb.batch : rdb.batch[j] \in Values
  BY <1>1 DEF BatchInv, TypeInv, RdbType
<1>8. Batching'
  <2>1. Undone(stack') \subseteq Undone(stack)
    <3> SUFFICES ASSUME NEW k \in Keys,
                        NEW i \in Writers(stack', k), NEW j \in Removers(stack', k), i < j
                 PROVE  k \in Undone(stack)
      BY DEF Undone
    <3>1. i + 1 < j + 1 /\ i + 1 \in Writers(stack, k) /\ j + 1 \in Removers(stack, k)
      BY <1>4
    <3> QED
      BY <3>1 DEF Undone
  <2>2. goal.written = DOMAIN rdb.batch \cup {k \in Keys : Writers(stack', k) # {}}
    BY <1>1, <1>5 DEF BatchInv, CommitInv, Batching
  <2>3. stack' = <<>> => goal.written = DOMAIN rdb.batch
    BY <1>6, <2>2
  <2> QED
    BY <1>1, <1>2, <1>3, <1>5, <1>7, <2>1, <2>2, <2>3 DEF BatchInv, CommitInv, Batching
<1>9. CacheCoherent'
  BY <1>1, <1>2, <1>3 DEF BatchInv, CommitInv, CacheCoherent, IsCached
<1>10. Counting'
  <2>1. ASSUME ~miscounted, NEW k \in Keys, NEW i \in Writers(stack', k), NEW j \in Writers(stack', k), i < j
        PROVE  disk.objects[k] # Absent /\ Removers(stack', k) = {}
    <3>1. i + 1 < j + 1 /\ i + 1 \in Writers(stack, k) /\ j + 1 \in Writers(stack, k)
      BY <1>4, <2>1
    <3>2. disk.objects[k] # Absent /\ Removers(stack, k) = {}
      BY <1>1, <2>1, <3>1 DEF BatchInv, CommitInv, Counting
    <3> QED
      BY <1>5, <3>2
  <2>2. ~miscounted => \A k \in DOMAIN rdb.batch : Writers(stack', k) # {} => disk.objects[k] # Absent
    BY <1>1, <1>5, <1>7 DEF BatchInv, CommitInv, Counting
  <2>3. phase' # "closed" /\ phase' # "setup" /\ phase' # "clearing"
    BY <1>1
  <2>4. ~miscounted => undone = {}
    BY DEF BatchInv, CommitInv, Counting
  <2> QED
    BY <1>1, <1>2, <2>1, <2>2, <2>3, <2>4 DEF Counting
<1>11. Sizes'
  <2>1. phase' = "store" => Stored'
    BY <1>1, NothingStored, FieldsType DEF Stored
  <2> QED
    BY <1>1, <1>2, <1>3, <2>1 DEF BatchInv, CommitInv, Sizes, SizeCounts, IsOpen
<1>12. Goals'
  <2>1. /\ OnlyRemoved /\ BatchAllOrNothing /\ (~miscounted => Resurrected = {})
        /\ \A k \in Keys \ Resurrected : Applied(Overlay, stack)[k] = goal.after[k]
    BY <1>1 DEF BatchInv, CommitInv, Goals
  <2>2. OnlyRemoved' /\ BatchAllOrNothing' /\ Resurrected' = Resurrected
    BY <1>1, <2>1, SameGoal DEF OnlyRemoved, BatchAllOrNothing
  <2>3. \A k \in Keys \ Resurrected : Applied(Overlay', stack')[k] = goal.after[k]
    BY <1>3, <1>4, <2>1
  <2>4. ASSUME stack' = <<>> PROVE IsLeft(Overlay)
    <3>1. ASSUME NEW k \in Keys, k \notin Resurrected PROVE Overlay[k] = goal.after[k]
      <4>1. stack' \in Seq(Delta) /\ Touching(stack', k) = {}
        BY <1>4, <1>6, <2>4
      <4>2. Applied(Overlay, stack')[k] = Overlay[k]
        BY <4>1, AppliedAt
      <4> QED
        BY <1>4, <2>1, <3>1, <4>2
    <3>2. ASSUME NEW k \in Keys, k \in Resurrected PROVE Overlay[k] # Absent
      <4>1. k \in DOMAIN rdb.batch
        <5>1. Writers(stack, k) = {}
          BY <1>5, <1>6, <2>4
        <5> QED
          BY <1>1, <3>2, <5>1 DEF Resurrected, BatchInv, CommitInv, Batching
      <4> QED
        BY <1>1, <1>7, <4>1, CacheAssumption DEF Overlay
    <3> QED
      BY <3>1, <3>2 DEF IsLeft
  <2>5. stack' = <<>> => IsLeft(Overlay)' /\ rdb'.node = goal'.node
    BY <1>1, <1>2, <1>3, <2>4 DEF IsLeft, Resurrected
  <2> QED
    BY <1>1, <2>1, <2>2, <2>3, <2>5 DEF Goals
<1> QED
  BY <1>8, <1>9, <1>10, <1>11, <1>12 DEF CommitInv

LEMMA StoreStep ==
  ASSUME BatchInv, StoreField
  PROVE  CommitInv'
<1>1. /\ phase \in {"store", "closing"} /\ phase' = phase /\ todo # <<>> /\ todo' = Tail(todo)
      /\ disk' = [disk EXCEPT !.metadata[Head(todo)] =
                    IF Head(todo) = "size" THEN rdb.size ELSE rdb.node]
      /\ rdb' = rdb /\ stack' = stack /\ goal' = goal
      /\ undone' = undone /\ unsaved' = unsaved /\ miscounted' = miscounted
      /\ Records /\ Stored /\ Complete
  BY DEF StoreField, BatchInv, CommitInv, Sizes, DataInv, Progress, OpenPhases, history
<1>2. /\ disk'.objects = disk.objects /\ disk'.families = disk.families
      /\ DOMAIN disk'.metadata = DOMAIN disk.metadata
      /\ \A f \in Range(Fields) :
           disk'.metadata[f] = IF f = Head(todo) THEN IF f = "size" THEN rdb.size ELSE rdb.node
                               ELSE disk.metadata[f]
  BY <1>1 DEF Records, Complete
<1>3. Overlay' = Overlay /\ (Batched' <=> Batched)
  BY <1>1, <1>2, SameOverlay
<1>4. Stored'
  <2>1. /\ todo' \in Seq(Range(Fields))
        /\ Len(todo') = Len(todo) - 1 /\ Len(todo) \in Nat
        /\ \A i \in 1 .. Len(todo') : todo'[i] = todo[i + 1]
    BY <1>1, HeadTailProperties, LenProperties DEF Stored
  <2>2. ASSUME NEW f \in Range(Fields), f # Head(todo), NEW i \in 1 .. Len(todo), todo[i] = f
        PROVE  \E j \in 1 .. Len(todo') : todo'[j] = f
    <3>1. i # 1
      BY <1>1, <2>2
    <3>2. i - 1 \in 1 .. Len(todo') /\ todo'[i - 1] = todo[i]
      BY <2>1, <3>1
    <3> QED
      BY <2>2, <3>2
  <2>3. ASSUME NEW f \in Range(Fields)
        PROVE  \/ \E i \in 1 .. Len(todo') : todo'[i] = f
               \/ disk'.metadata[f] = IF f = "size" THEN rdb'.size ELSE rdb'.node
    BY <1>1, <1>2, <2>2, <2>3 DEF Stored
  <2> QED
    BY <2>1, <2>3 DEF Stored
<1>5. Batching' /\ Counting'
  BY <1>1, <1>2, <1>3 DEF BatchInv, CommitInv, Batching, Counting
<1>6. CacheCoherent'
  BY <1>1, <1>3 DEF BatchInv, CommitInv, CacheCoherent, IsCached
<1>7. Sizes'
  <2>1. ASSUME ~unsaved, ~miscounted PROVE Saved'
    <3>1. phase = "closing" /\ ~Batched /\ rdb.size = Count(Overlay)
      BY <1>1, <2>1 DEF BatchInv, CommitInv, Sizes, SizeCounts, IsOpen, Batching
    <3>2. rdb.size = Count(disk.objects)
      BY <3>1, NoOverlay DEF BatchInv
    <3>3. "size" \in Range(Fields) /\ "size" \in DOMAIN disk.metadata /\ disk.families = Families
      BY <1>1, FieldsAre DEF Complete
    <3>4. disk.metadata["size"] = Count(disk.objects)
      BY <2>1, <3>3 DEF BatchInv, CommitInv, Sizes, Saved
    <3> QED
      BY <1>2, <3>2, <3>3, <3>4 DEF Saved
  <2> QED
    BY <1>1, <1>2, <1>3, <1>4, <2>1 DEF BatchInv, CommitInv, Sizes, SizeCounts, IsOpen
<1>8. Goals'
  BY <1>1, <1>2, <1>3, SameGoal DEF BatchInv, CommitInv, Goals, OnlyRemoved, BatchAllOrNothing, IsLeft
<1> QED
  BY <1>5, <1>6, <1>7, <1>8 DEF CommitInv

\* What the step that writes the batch finds and leaves.
LEMMA EndFacts ==
  ASSUME BatchInv, EndBatch
  PROVE  /\ disk'.objects = Overlay
         /\ disk'.metadata = disk.metadata
         /\ \A f \in Range(Fields) : disk.metadata[f] = IF f = "size" THEN rdb.size ELSE goal.node
         /\ IsLeft(Overlay)
<1>1. phase = "store" /\ todo = <<>> /\ disk' = [disk EXCEPT !.objects = Overlay] /\ Records
  BY DEF EndBatch, BatchInv, DataInv
<1>2. disk'.objects = Overlay /\ disk'.metadata = disk.metadata
  BY <1>1 DEF Records
<1>3. IsLeft(Overlay) /\ rdb.node = goal.node /\ Stored
  BY <1>1 DEF BatchInv, CommitInv, Goals, Sizes
<1>4. \A i \in 1 .. Len(todo) : FALSE
  BY <1>1, EmptySeq
<1> QED
  BY <1>2, <1>3, <1>4 DEF Stored

LEMMA EndStep ==
  ASSUME BatchInv, EndBatch
  PROVE  CommitInv'
<1>1. /\ phase = "store" /\ phase' = "ready" /\ goal' = goal
      /\ undone' = undone /\ unsaved' = FALSE /\ miscounted' = miscounted
      /\ disk' = [disk EXCEPT !.objects = Overlay]
      /\ rdb' = [rdb EXCEPT !.batch = NoBatch] /\ Records
  BY DEF EndBatch, BatchInv, DataInv
<1>2. /\ disk'.objects = Overlay /\ disk'.metadata = disk.metadata /\ disk'.families = disk.families
      /\ rdb'.batch = NoBatch /\ rdb'.cache = rdb.cache /\ rdb'.size = rdb.size
  BY <1>1 DEF Records
<1>3. Overlay \in Contents
  BY OverlayType DEF BatchInv
<1>4. ~Batched' /\ Overlay' = Overlay
  <2>1. ~Batched'
    BY <1>2 DEF Batched
  <2>2. Overlay' = [k \in Keys |-> disk'.objects[k]]
    BY <2>1 DEF Overlay
  <2> QED
    BY <1>2, <1>3, <2>1, <2>2 DEF Contents
<1>5. Batching' /\ Counting'
  BY <1>1, <1>4 DEF Batching, Counting, BatchInv, CommitInv
<1>6. CacheCoherent'
  BY <1>1, <1>2, <1>4 DEF BatchInv, CommitInv, CacheCoherent, IsCached
<1>7. ~miscounted => rdb.size = Count(Overlay)
  BY <1>1 DEF BatchInv, CommitInv, Sizes, SizeCounts, IsOpen
<1>8. Sizes'
  <2>1. disk.metadata["size"] = rdb.size
    BY EndFacts, FieldsAre
  <2>2. ~miscounted => Saved'
    BY <1>2, <1>7, <2>1 DEF Saved
  <2>3. ~miscounted => rdb'.size = Count(Overlay')
    BY <1>2, <1>4, <1>7
  <2> QED
    BY <1>1, <1>2, <2>2, <2>3 DEF BatchInv, CommitInv, Sizes, SizeCounts
<1>9. Goals'
  <2>1. IsLeft(disk.objects)'
    BY <1>1, <1>2, EndFacts DEF IsLeft, Resurrected
  <2> QED
    BY <1>1, <2>1 DEF Goals, BatchAllOrNothing
<1> QED
  BY <1>5, <1>6, <1>8, <1>9 DEF CommitInv

\* The backend is new, open or dropped, and the directory as it was.
LEMMA FreshStep ==
  ASSUME BatchInv, Open \/ Closed \/ Reset \/ Crash
  PROVE  CommitInv'
<1>1. /\ disk' = disk /\ rdb'.batch = NoBatch /\ rdb'.cache = EmptyCache
      /\ phase' \in {"genesis", "ready", "closed", "clearing"}
      /\ undone' = {}
  <2>1. CASE Open
    <3>1. /\ disk' = disk /\ phase = "closed" /\ phase' \in {"genesis", "ready"} /\ undone' = undone
          /\ rdb' = [Fresh EXCEPT !.size = disk.metadata["size"], !.node = disk.metadata["revision"]]
      BY <2>1 DEF Open, history
    <3>2. undone = {}
      BY <3>1 DEF BatchInv, CommitInv, Counting
    <3> QED
      BY <3>1, <3>2 DEF Fresh
  <2>2. CASE Closed \/ Reset \/ Crash
    <3>1. disk' = disk /\ phase' \in {"closed", "clearing"} /\ rdb' = Fresh /\ undone' = {}
      BY <2>2 DEF Closed, Reset, Crash
    <3> QED
      BY <3>1 DEF Fresh
  <2> QED
    BY <2>1, <2>2
<1>2. DOMAIN EmptyCache.object = {}
  BY DEF EmptyCache
<1>3. ~Batched' /\ Overlay' = disk.objects
  <2>1. ~Batched'
    BY <1>1 DEF Batched
  <2>2. Overlay' = [k \in Keys |-> disk.objects[k]]
    BY <1>1, <2>1 DEF Overlay
  <2>3. disk.objects \in Contents
    BY DEF BatchInv, TypeInv, DiskType
  <2> QED
    BY <2>1, <2>2, <2>3 DEF Contents
<1>4. Batching' /\ Counting' /\ CacheCoherent'
  BY <1>1, <1>2, <1>3 DEF Batching, Counting, CacheCoherent, IsCached
<1>5. Sizes'
  <2>1. CASE Open
    <3>1. /\ phase = "closed" /\ phase' \in {"genesis", "ready"}
          /\ unsaved' = unsaved /\ miscounted' = miscounted
          /\ disk.families = Families /\ DOMAIN disk.metadata = Range(Fields)
          /\ rdb' = [Fresh EXCEPT !.size = disk.metadata["size"], !.node = disk.metadata["revision"]]
      BY <2>1 DEF Open, history
    <3>2. rdb'.size = disk.metadata["size"] /\ "size" \in DOMAIN disk.metadata
      BY <3>1, FieldsAre DEF Fresh
    <3>3. ~unsaved /\ (~miscounted => disk.metadata["size"] = Count(disk.objects))
      BY <3>1, <3>2 DEF BatchInv, CommitInv, Sizes, Saved
    <3> QED
      BY <1>1, <1>3, <3>1, <3>2, <3>3 DEF BatchInv, CommitInv, Sizes, SizeCounts, Saved
  <2>2. CASE Closed
    <3>1. phase = "closing" /\ phase' = "closed" /\ unsaved' = FALSE /\ miscounted' = miscounted
          /\ todo = <<>> /\ Stored
      BY <2>2 DEF Closed, BatchInv, CommitInv, Sizes
    <3>2. "size" \in Range(Fields) /\ \A i \in 1 .. Len(todo) : FALSE
      BY <3>1, EmptySeq, FieldsAre
    <3>3. disk.metadata["size"] = rdb.size
      BY <3>1, <3>2 DEF Stored
    <3>4. ~Batched
      BY <3>1 DEF BatchInv, CommitInv, Batching
    <3>5. Overlay = disk.objects
      BY <3>4, NoOverlay DEF BatchInv
    <3>6. ~miscounted => rdb.size = Count(Overlay)
      BY <3>1 DEF BatchInv, CommitInv, Sizes, SizeCounts, IsOpen
    <3> QED
      BY <1>1, <3>1, <3>3, <3>5, <3>6 DEF BatchInv, CommitInv, Sizes, SizeCounts, IsOpen, Saved
  <2>3. CASE Reset
    <3>1. phase = "ready" /\ phase' = "clearing" /\ unsaved' = unsaved /\ miscounted' = miscounted
      BY <2>3 DEF Reset
    <3> QED
      BY <1>1, <3>1 DEF BatchInv, CommitInv, Sizes, SizeCounts, IsOpen, Saved
  <2>4. CASE Crash
    <3>1. /\ phase' = "closed" /\ unsaved' = FALSE
          /\ miscounted' = (miscounted \/ (unsaved /\ disk.metadata["size"] # Count(disk.objects)))
      BY <2>4 DEF Crash
    <3>2. ~miscounted' /\ unsaved => disk.metadata["size"] = Count(disk.objects)
      BY <3>1
    <3>3. ~miscounted' => ~miscounted
      BY <3>1
    <3>4. ~miscounted' => Saved'
      BY <1>1, <3>1, <3>2, <3>3 DEF BatchInv, CommitInv, Sizes, Saved
    <3> QED
      BY <1>1, <3>1, <3>4 DEF BatchInv, CommitInv, Sizes, SizeCounts, IsOpen
  <2> QED
    BY <2>1, <2>2, <2>3, <2>4
<1>6. Goals'
  <2>1. CASE Open
    BY <1>1, <2>1 DEF Open, Goals, BatchAllOrNothing, Unchanging
  <2>2. CASE Closed \/ Reset \/ Crash
    <3>1. goal' = goal /\ phase' \in {"closed", "clearing"}
      BY <2>2 DEF Closed, Reset, Crash
    <3> QED
      BY <1>1, <3>1 DEF BatchInv, CommitInv, Goals, BatchAllOrNothing, IsLeft, Resurrected
  <2> QED
    BY <2>1, <2>2
<1> QED
  BY <1>4, <1>5, <1>6 DEF CommitInv

\* Making the directory, closing and clearing: there is no batch, and a cache
\* only before a close.
LEMMA OtherStep ==
  ASSUME BatchInv, Setup \/ CreateFamily \/ PutDefault \/ FinishGenesis \/ Close \/ DropFamily
  PROVE  CommitInv'
<1>1. /\ rdb' = rdb /\ stack' = stack /\ undone' = undone
      /\ phase \in {"closed", "setup", "genesis", "ready", "clearing"}
      /\ phase' \in {"closed", "setup", "ready", "closing", "clearing"}
      /\ phase' = "clearing" => phase = "clearing"
      /\ phase' \in {"closed", "setup", "clearing"} => phase \in {"closed", "setup", "clearing"}
      /\ Records
  BY DEF Setup, CreateFamily, PutDefault, FinishGenesis, Close, DropFamily, BatchInv, DataInv, history
<1>2. ~Batched /\ ~Batched'
  BY <1>1 DEF BatchInv, CommitInv, Batching, Batched
<1>3. Overlay = [k \in Keys |-> disk.objects[k]] /\ Overlay' = [k \in Keys |-> disk'.objects[k]]
  BY <1>2 DEF Overlay
<1>4. CASE DropFamily
  <2>1. disk'.objects = NoObjects
    BY <1>1, <1>4 DEF DropFamily, Records, Empty
  <2>2. /\ phase = "clearing" /\ phase' \in {"clearing", "closed"} /\ goal' = Unchanging(NoObjects, 0)
        /\ unsaved' = FALSE /\ miscounted' = FALSE
        /\ \/ disk' = Empty
           \/ disk'.families = {"metadata"}
    BY <1>1, <1>4 DEF DropFamily, Records
  <2>3. undone = {} /\ DOMAIN rdb.cache.object = {}
    BY <2>2 DEF BatchInv, CommitInv, Batching, Counting
  <2>4. Batching' /\ Counting' /\ CacheCoherent'
    BY <1>1, <1>2, <2>2, <2>3 DEF Batching, Counting, CacheCoherent, IsCached
  <2>5. Sizes'
    <3>1. "size" \notin DOMAIN disk'.metadata \/ (disk'.families # Families /\ disk'.families # {})
      BY <2>2 DEF Empty, NoMetadata, Families
    <3> QED
      BY <2>2, <3>1 DEF Sizes, SizeCounts, IsOpen, Saved
  <2>6. Goals'
    BY <2>1, <2>2 DEF Goals, BatchAllOrNothing, Unchanging
  <2> QED
    BY <2>4, <2>5, <2>6 DEF CommitInv
<1>5. CASE ~DropFamily
  <2>1. /\ disk'.objects = disk.objects /\ goal' = goal
        /\ unsaved' = unsaved /\ miscounted' = miscounted
    BY <1>1, <1>5 DEF Setup, CreateFamily, PutDefault, FinishGenesis, Close, Records, history
  <2>2. Overlay' = Overlay
    BY <1>3, <2>1
  <2>3. Batching' /\ Counting' /\ CacheCoherent'
    BY <1>1, <1>2, <2>1, <2>2 DEF BatchInv, CommitInv, Batching, Counting, CacheCoherent, IsCached
  <2>4. Goals'
    BY <1>1, <2>1, SameGoal DEF BatchInv, CommitInv, Goals, BatchAllOrNothing
  <2>5. Sizes'
    <3>1. CASE Setup \/ CreateFamily
      <4>1. /\ disk'.metadata = disk.metadata /\ phase' = "setup"
            /\ \/ phase = "closed" /\ disk.families = {} /\ disk'.families = {}
               \/ phase = "setup"
            /\ disk'.families = {} => disk.families = {}
        BY <1>1, <3>1 DEF Setup, CreateFamily, Records
      <4>2. phase \in {"closed", "setup"} /\ (disk.families = {} \/ phase = "setup")
        BY <4>1
      <4> QED
        BY <2>1, <4>1, <4>2 DEF BatchInv, CommitInv, Sizes, SizeCounts, IsOpen, Saved
    <3>2. CASE PutDefault
      <4>1. /\ disk'.metadata = Store(disk.metadata, Head(todo), 0)
            /\ disk'.families = Families /\ phase = "setup" /\ phase' \in {"setup", "closed"}
        BY <1>1, <3>2 DEF PutDefault, Records
      <4>2. disk.objects = NoObjects
        BY <4>1 DEF BatchInv, DataInv, Progress
      <4>3. /\ Head(todo) = "size" => disk'.metadata["size"] = 0
            /\ Head(todo) # "size" /\ "size" \in DOMAIN disk'.metadata =>
                 "size" \in DOMAIN disk.metadata /\ disk'.metadata["size"] = disk.metadata["size"]
        BY <4>1 DEF Store
      <4>4. ~unsaved /\ ~miscounted => Saved'
        BY <2>1, <4>1, <4>2, <4>3, CountNone DEF BatchInv, CommitInv, Sizes, Saved
      <4>5. Families # {}
        BY DEF Families
      <4> QED
        BY <2>1, <4>1, <4>4, <4>5 DEF BatchInv, CommitInv, Sizes, SizeCounts, IsOpen
    <3>3. CASE FinishGenesis
      <4>1. phase = "genesis" /\ phase' = "ready" /\ disk' = disk
        BY <3>3 DEF FinishGenesis
      <4> QED
        BY <1>1, <2>1, <2>2, <4>1 DEF BatchInv, CommitInv, Sizes, SizeCounts, IsOpen, Saved
    <3>4. CASE Close
      <4>1. phase = "ready" /\ phase' = "closing" /\ todo' = Fields /\ disk' = disk
        BY <3>4 DEF Close
      <4>2. Stored'
        BY <4>1, NothingStored, FieldsType DEF Stored
      <4> QED
        BY <1>1, <2>1, <2>2, <4>1, <4>2 DEF BatchInv, CommitInv, Sizes, SizeCounts, IsOpen, Saved
    <3> QED
      BY <1>5, <3>1, <3>2, <3>3, <3>4
  <2> QED
    BY <2>3, <2>4, <2>5 DEF CommitInv
<1> QED
  BY <1>4, <1>5

LEMMA InitBatch ==
  ASSUME Init
  PROVE  BatchInv
<1>1. /\ disk = Empty /\ phase = "closed" /\ rdb = Fresh /\ goal = Unchanging(NoObjects, 0)
      /\ undone = {} /\ unsaved = FALSE
  BY DEF Init
<1>2. /\ disk.objects = NoObjects /\ disk.metadata = NoMetadata /\ "size" \notin DOMAIN NoMetadata
      /\ rdb.batch = NoBatch /\ DOMAIN rdb.cache.object = {}
      /\ goal.before = NoObjects /\ goal.after = NoObjects
  BY <1>1 DEF Empty, NoMetadata, Fresh, EmptyCache, Unchanging
<1>3. Batching /\ Counting /\ CacheCoherent
  BY <1>1, <1>2 DEF Batching, Batched, Counting, CacheCoherent, IsCached
<1>4. Sizes
  BY <1>1, <1>2 DEF Sizes, SizeCounts, IsOpen, Saved
<1>5. Goals
  BY <1>1, <1>2 DEF Goals, BatchAllOrNothing
<1> QED
  BY <1>3, <1>4, <1>5, InitData, InitType DEF BatchInv, CommitInv

LEMMA NextBatch ==
  ASSUME BatchInv, [Next]_vars
  PROVE  BatchInv'
<1>1. DataInv' /\ TypeInv'
  BY NextData, NextType DEF BatchInv
<1>2. CommitInv'
  <2>1. CASE \E k \in Keys, v \in Values : GenesisPut(k, v)
    BY <2>1, GenesisStep
  <2>2. CASE \E k \in Keys : GenesisErase(k)
    BY <2>2, GenesisStep
  <2>3. CASE \E k \in Keys : Get(k) \/ Iterate(k)
    BY <2>3, ReadStep
  <2>4. CASE \E s \in Stacks : StartCommit(s)
    BY <2>4, StartStep
  <2>5. CASE \E k \in Keys : CommitErase(k)
    BY <2>5, CommitEraseStep
  <2>6. CASE \E k \in Keys : CommitPut(k)
    BY <2>6, CommitPutStep
  <2>7. CASE PopDelta \/ StoreField \/ EndBatch
    BY <2>7, PopStep, StoreStep, EndStep
  <2>8. CASE Open \/ Closed \/ Reset \/ Crash
    BY <2>8, FreshStep
  <2>9. CASE Setup \/ CreateFamily \/ PutDefault \/ FinishGenesis \/ Close \/ DropFamily
    BY <2>9, OtherStep
  <2>10. CASE UNCHANGED vars
    <3>1. disk' = disk /\ phase' = phase /\ rdb' = rdb /\ stack' = stack /\ todo' = todo
          /\ goal' = goal /\ undone' = undone /\ unsaved' = unsaved /\ miscounted' = miscounted
      BY <2>10 DEF vars, history
    <3>2. Overlay' = Overlay /\ (Batched' <=> Batched)
      BY <3>1, SameOverlay
    <3>3. Batching' /\ Counting' /\ CacheCoherent'
      BY <3>1, <3>2 DEF BatchInv, CommitInv, Batching, Counting, CacheCoherent, IsCached
    <3>4. Sizes'
      BY <3>1, <3>2 DEF BatchInv, CommitInv, Sizes, SizeCounts, IsOpen, Stored, Saved
    <3>5. Goals'
      BY <3>1, <3>2, SameGoal DEF BatchInv, CommitInv, Goals, OnlyRemoved, BatchAllOrNothing, IsLeft
    <3> QED
      BY <3>3, <3>4, <3>5 DEF CommitInv
  <2> QED
    BY <2>1, <2>2, <2>3, <2>4, <2>5, <2>6, <2>7, <2>8, <2>9, <2>10 DEF Next, Step
<1> QED
  BY <1>1, <1>2 DEF BatchInv

LEMMA BatchInvariance == Spec => []BatchInv
<1>1. Init => BatchInv
  BY InitBatch
<1>2. BatchInv /\ [Next]_vars => BatchInv'
  BY NextBatch
<1> QED
  BY <1>1, <1>2, PTL DEF Spec

\* What get and the iterators take from the cache is what is there, whatever
\* was evicted, cached as missing, removed or left in the batch, but for the
\* null of a key that one commit wrote and removed again.
THEOREM CacheSafe == Spec => []CacheCoherent
<1>1. BatchInv => CacheCoherent
  BY DEF BatchInv, CommitInv
<1> QED
  BY <1>1, BatchInvariance, PTL

\* _size is the number of objects until a crash or a commit of one of the
\* kinds that SizeCounts names leaves a wrong one.
THEOREM SizeSafe == Spec => []SizeCounts
<1>1. BatchInv => SizeCounts
  BY DEF BatchInv, CommitInv, Sizes
<1> QED
  BY <1>1, BatchInvariance, PTL

\* Whenever the size in the directory was not left wrong, open runs the genesis
\* function over no object.
THEOREM GenesisSafe == Spec => GenesisOnce
<1>1. BatchInv /\ [Next]_vars =>
        [Open /\ phase' = "genesis" /\ ~miscounted => disk.objects = NoObjects]_vars
  <2> SUFFICES ASSUME BatchInv, Open, phase' = "genesis", ~miscounted
               PROVE  disk.objects = NoObjects
    OBVIOUS
  <2>1. /\ phase = "closed" /\ disk.families = Families /\ DOMAIN disk.metadata = Range(Fields)
        /\ rdb' = [Fresh EXCEPT !.size = disk.metadata["size"], !.node = disk.metadata["revision"]]
        /\ rdb'.size = 0
    BY DEF Open
  <2>2. disk.metadata["size"] = 0
    BY <2>1 DEF Fresh
  <2>3. disk.metadata["size"] = Count(disk.objects)
    BY <2>1, FieldsAre DEF BatchInv, CommitInv, Sizes, Saved
  <2> QED
    BY <2>2, <2>3, NoneCounted DEF BatchInv, TypeInv, DiskType
<1> QED
  BY <1>1, BatchInvariance, PTL DEF Spec, GenesisOnce

\* A directory left by a crash has of the writes of a commit, of however many
\* deltas, all or nothing.
THEOREM BatchSafe == Spec => []BatchAllOrNothing
<1>1. BatchInv => BatchAllOrNothing
  BY DEF BatchInv, CommitInv, Goals
<1> QED
  BY <1>1, BatchInvariance, PTL

\* The step that ends a commit, of however many deltas, leaves what the
\* committed node showed under the metadata of that node, and brings back the
\* keys that the commit wrote and then removed for good, and no other.
THEOREM CommitSafe == Spec => CommitReachesDisk
<1>1. BatchInv /\ [Next]_vars =>
        [EndBatch => /\ IsLeft(disk'.objects)
                     /\ ~miscounted => disk'.metadata["size"] = Count(goal.after)
                     /\ \A f \in Range(Fields) \ {"size"} : disk'.metadata[f] = goal.node]_vars
  <2> SUFFICES ASSUME BatchInv, EndBatch
               PROVE  /\ IsLeft(disk'.objects)
                      /\ ~miscounted => disk'.metadata["size"] = Count(goal.after)
                      /\ \A f \in Range(Fields) \ {"size"} : disk'.metadata[f] = goal.node
    OBVIOUS
  <2>1. "size" \in Range(Fields) /\ phase = "store"
    BY FieldsAre DEF EndBatch
  <2>2. ~miscounted => rdb.size = Count(Overlay) /\ Resurrected = {}
    BY <2>1 DEF BatchInv, CommitInv, Sizes, SizeCounts, IsOpen, Goals
  <2>3. ASSUME ~miscounted PROVE Count(Overlay) = Count(goal.after)
    <3>1. \A k \in Keys : Overlay[k] = goal.after[k]
      BY <2>2, <2>3, EndFacts DEF IsLeft
    <3> QED
      BY <3>1 DEF Count
  <2> QED
    BY <2>1, <2>2, <2>3, EndFacts
<1> QED
  BY <1>1, BatchInvariance, PTL DEF Spec, CommitReachesDisk
=============================================================================
