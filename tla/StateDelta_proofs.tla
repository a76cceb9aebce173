-------------------------- MODULE StateDelta_proofs --------------------------
(***************************************************************************)
(* Proofs about StateDelta, for every set of nodes, anonymous nodes, keys  *)
(* and values and every bound.                                             *)
(***************************************************************************)
EXTENDS StateDelta, Induction

-----------------------------------------------------------------------------
(* Lineages *)

\* What keeps the walk along the parents inside the tree.
Tree(f) ==
  \A d \in DOMAIN f :
    /\ f[d].revision \in Nat
    /\ f[d].parent # Nil => /\ f[d].parent \in DOMAIN f
                            /\ f[d].revision = f[f[d].parent].revision + 1

\* Lineage( f, d ) holds d and the parents of its members.
LEMMA LineageClosed ==
  ASSUME NEW f, Tree(f), NEW d \in DOMAIN f
  PROVE  /\ d \in Lineage(f, d)
         /\ Lineage(f, d) \subseteq DOMAIN f
         /\ ParentClosed(f, Lineage(f, d))
<1>1. ASSUME NEW x \in Lineage(f, d), f[x].parent # Nil
      PROVE  f[x].parent \in Lineage(f, d)
  <2> DEFINE lower == {e \in DOMAIN f : f[e].revision < f[d].revision}
  <2>1. x = d \/ x \in lower
    BY DEF Lineage
  <2>2. f[x].parent \in lower /\ f[x].parent # d
    BY <1>1, <2>1 DEF Tree
  <2>3. ASSUME NEW S \in SUBSET lower, ParentClosed(f, S \cup {d})
        PROVE  f[x].parent \in S
    <3>1. x \in S \cup {d}
      BY <2>3 DEF Lineage
    <3> QED
      BY <1>1, <2>2, <2>3, <3>1 DEF ParentClosed
  <2> QED
    BY <2>2, <2>3 DEF Lineage
<1> QED
  BY <1>1 DEF Lineage, ParentClosed

\* It is the least such set: d reads through nothing else.
LEMMA LineageLeast ==
  ASSUME NEW f, Tree(f), NEW d \in DOMAIN f,
         NEW T, d \in T, ParentClosed(f, T)
  PROVE  Lineage(f, d) \subseteq T
<1> DEFINE lower == {e \in DOMAIN f : f[e].revision < f[d].revision}
           S == T \cap lower
<1>1. ASSUME NEW x \in S \cup {d}, f[x].parent # Nil
      PROVE  f[x].parent \in S \cup {d}
  <2>1. x \in DOMAIN f /\ f[x].revision <= f[d].revision
    BY DEF Tree
  <2>2. f[x].parent \in T
    BY <1>1 DEF ParentClosed
  <2>3. f[x].parent \in lower
    BY <1>1, <2>1 DEF Tree
  <2> QED
    BY <2>2, <2>3
<1>2. ParentClosed(f, S \cup {d})
  BY <1>1 DEF ParentClosed
<1>3. S \in SUBSET lower
  OBVIOUS
<1>4. ASSUME NEW x \in Lineage(f, d)
      PROVE  x = d \/ x \in S
  BY <1>2, <1>3 DEF Lineage
<1> QED
  BY <1>4

\* The members of a lineage other than d have a lower revision than d.
LEMMA LineageLower ==
  ASSUME NEW f, NEW d, NEW e \in Lineage(f, d), e # d
  PROVE  e \in DOMAIN f /\ f[e].revision < f[d].revision
  BY DEF Lineage

\* A delta reads through what its members read through.
LEMMA LineageTrans ==
  ASSUME NEW f, Tree(f), NEW d \in DOMAIN f, NEW e \in Lineage(f, d)
  PROVE  Lineage(f, e) \subseteq Lineage(f, d)
  BY LineageClosed, LineageLeast

\* The lineage of a delta is the delta and the lineage of its parent.
LEMMA LineageStep ==
  ASSUME NEW f, Tree(f), NEW d \in DOMAIN f
  PROVE  /\ f[d].parent = Nil => Lineage(f, d) = {d}
         /\ f[d].parent # Nil => Lineage(f, d) = {d} \cup Lineage(f, f[d].parent)
<1>1. ASSUME f[d].parent = Nil
      PROVE  Lineage(f, d) = {d}
  <2>1. ParentClosed(f, {d})
    BY <1>1 DEF ParentClosed
  <2> QED
    BY <2>1, LineageLeast, LineageClosed
<1>2. ASSUME f[d].parent # Nil
      PROVE  Lineage(f, d) = {d} \cup Lineage(f, f[d].parent)
  <2> DEFINE p == f[d].parent
  <2>1. p \in DOMAIN f
    BY <1>2 DEF Tree
  <2>2. p \in Lineage(f, p) /\ ParentClosed(f, Lineage(f, p))
    BY <2>1, LineageClosed
  <2>3. ParentClosed(f, {d} \cup Lineage(f, p))
    BY <2>2 DEF ParentClosed
  <2>4. Lineage(f, d) \subseteq {d} \cup Lineage(f, p)
    BY <2>3, LineageLeast
  <2>5. d \in Lineage(f, d) /\ p \in Lineage(f, d)
    BY <1>2, LineageClosed DEF ParentClosed
  <2>6. Lineage(f, p) \subseteq Lineage(f, d)
    BY <2>5, LineageTrans
  <2> QED
    BY <2>4, <2>5, <2>6
<1> QED
  BY <1>1, <1>2

\* What d reads through, d itself apart, is the parent of something d reads
\* through.
LEMMA LineageChild ==
  ASSUME NEW f, Tree(f), NEW d \in DOMAIN f, NEW e \in Lineage(f, d), e # d
  PROVE  \E c \in Lineage(f, d) : f[c].parent = e
<1> SUFFICES ASSUME \A c \in Lineage(f, d) : f[c].parent # e
             PROVE  FALSE
  OBVIOUS
<1>1. ParentClosed(f, Lineage(f, d) \ {e})
  BY LineageClosed DEF ParentClosed
<1>2. d \in Lineage(f, d) \ {e}
  BY LineageClosed
<1>3. Lineage(f, d) \subseteq Lineage(f, d) \ {e}
  BY <1>1, <1>2, LineageLeast
<1> QED
  BY <1>3

\* The revisions of a tree rank its deltas.
Rank(f) == [d \in DOMAIN f |-> f[d].revision]

LEMMA RankType ==
  ASSUME NEW f, Tree(f)
  PROVE  Rank(f) \in [DOMAIN f -> Nat]
  BY DEF Tree, Rank

\* There is a root in every lineage.
LEMMA LineageRoot ==
  ASSUME NEW f, Tree(f), NEW d \in DOMAIN f
  PROVE  \E r \in Lineage(f, d) : f[r].parent = Nil
<1>1. Lineage(f, d) \in SUBSET DOMAIN f /\ Lineage(f, d) # {}
  BY LineageClosed
<1>2. PICK r \in Lineage(f, d) : \A e \in Lineage(f, d) : Rank(f)[r] <= Rank(f)[e]
  BY <1>1, RankType, LeastRank
<1>3. ASSUME f[r].parent # Nil
      PROVE  FALSE
  <2>1. r \in DOMAIN f
    BY <1>1
  <2>2. f[r].parent \in Lineage(f, d)
    BY <1>3, LineageClosed DEF ParentClosed
  <2>3. Rank(f)[r] <= Rank(f)[f[r].parent]
    BY <1>2, <2>2
  <2>4. /\ f[r].parent \in DOMAIN f
        /\ f[r].revision = f[f[r].parent].revision + 1
        /\ f[f[r].parent].revision \in Nat
    BY <1>3, <2>1 DEF Tree
  <2> QED
    BY <2>1, <2>3, <2>4 DEF Rank
<1> QED
  BY <1>3

\* The lineage of a delta depends on the parents in a set that holds them.
LEMMA LineageSame ==
  ASSUME NEW f, Tree(f), NEW g, Tree(g), NEW T,
         \A d \in T : d \in DOMAIN f /\ d \in DOMAIN g /\ f[d].parent = g[d].parent,
         ParentClosed(f, T), NEW d \in T
  PROVE  Lineage(g, d) = Lineage(f, d) /\ Lineage(f, d) \subseteq T
<1>1. ParentClosed(g, T)
  BY DEF ParentClosed
<1>2. Lineage(f, d) \subseteq T /\ Lineage(g, d) \subseteq T
  BY <1>1, LineageLeast
<1>3. ParentClosed(f, Lineage(g, d)) /\ ParentClosed(g, Lineage(f, d))
  BY <1>2, LineageClosed DEF ParentClosed
<1>4. d \in Lineage(f, d) /\ d \in Lineage(g, d)
  BY LineageClosed
<1>5. Lineage(f, d) \subseteq Lineage(g, d)
  BY <1>3, <1>4, LineageLeast
<1>6. Lineage(g, d) \subseteq Lineage(f, d)
  BY <1>3, <1>4, LineageLeast
<1> QED
  BY <1>2, <1>5, <1>6

-----------------------------------------------------------------------------
(* Reading *)

\* The tree of deltas, as the type invariant has it.
TreeOK(f) ==
  /\ DOMAIN f \subseteq Nodes \cup Drafts
  /\ f \in [DOMAIN f -> Delta]
  /\ \E r \in DOMAIN f \cap Nodes : \A d \in DOMAIN f : f[d].parent = Nil <=> d = r
  /\ \A d \in DOMAIN f : f[d].parent # Nil =>
       /\ f[d].parent \in DOMAIN f
       /\ f[d].revision = f[f[d].parent].revision + 1
       /\ d \in Nodes => f[d].parent \in Nodes /\ f[f[d].parent].finalized

LEMMA TreeOKIsTree ==
  ASSUME NEW f, TreeOK(f)
  PROVE  /\ Tree(f)
         /\ \A d \in DOMAIN f : /\ f[d].store \in Store
                                /\ f[d].removed \in SUBSET Keys
                                /\ d \in Nodes \cup Drafts
  BY DEF TreeOK, Tree, Delta

\* The body of the walk of find.
FoundWith(f, k, h) ==
  [a \in DOMAIN f |->
     IF f[a].store[k] # Absent THEN f[a].store[k]
     ELSE IF k \in f[a].removed \/ f[a].parent = Nil THEN Absent
     ELSE h[f[a].parent]]

\* The walk of find ends: there is an answer for every delta.
LEMMA FindExists ==
  ASSUME NEW f, TreeOK(f), NEW k \in Keys
  PROVE  \E h \in [DOMAIN f -> Values \cup {Absent}] : h = FoundWith(f, k, h)
<1> DEFINE S == DOMAIN f
           V == Values \cup {Absent}
           stops(a) == f[a].store[k] # Absent \/ k \in f[a].removed
           par == [a \in S |-> IF stops(a) THEN Nil ELSE f[a].parent]
           base == [a \in S |-> f[a].store[k]]
           rank == Rank(f)
<1>1. base \in [S -> V]
  BY TreeOKIsTree DEF Store
<1>2. Descends(S, par, Nil, rank)
  BY TreeOKIsTree DEF Tree, Rank, Descends
<1>3. rank \in [S -> Nat]
  BY TreeOKIsTree, RankType
<1> HIDE DEF S, V, base, par, rank
<1>4. PICK h \in [S -> V] : LookedUp(h, S, par, Nil, base)
  BY <1>1, <1>2, <1>3, ParentRecursion
<1> USE DEF S, V, base, par
<1>5. ASSUME NEW a \in S
      PROVE  h[a] = FoundWith(f, k, h)[a]
  <2>0. h[a] = IF par[a] = Nil THEN base[a] ELSE h[par[a]]
    BY <1>4 DEF LookedUp
  <2>1. CASE stops(a)
    BY <2>0, <2>1 DEF FoundWith
  <2>2. CASE ~stops(a) /\ f[a].parent = Nil
    BY <2>0, <2>2 DEF FoundWith
  <2>3. CASE ~stops(a) /\ f[a].parent # Nil
    <3>1. f[a].parent \in S
      BY <2>3, TreeOKIsTree DEF Tree
    <3> QED
      BY <2>0, <2>3, <3>1 DEF FoundWith
  <2> QED
    BY <2>1, <2>2, <2>3
<1>6. h = FoundWith(f, k, h)
  BY <1>5 DEF FoundWith
<1> QED
  BY <1>6

\* find is the walk it is written as, and returns an object or none.
LEMMA FindUnfold ==
  ASSUME NEW f, TreeOK(f), NEW k \in Keys, NEW d \in DOMAIN f
  PROVE  /\ Find(f, d, k) \in Values \cup {Absent}
         /\ Find(f, d, k) = IF f[d].store[k] # Absent THEN f[d].store[k]
                            ELSE IF k \in f[d].removed \/ f[d].parent = Nil THEN Absent
                            ELSE Find(f, f[d].parent, k)
<1> DEFINE P(h) == h = FoundWith(f, k, h)
           found == CHOOSE h : P(h)
<1>1. P(found)
  <2>1. \E h : P(h)
    BY FindExists
  <2> HIDE DEF P
  <2> QED
    BY <2>1
<1>2. \A e \in DOMAIN f : Find(f, e, k) = found[e]
  BY DEF Find, FoundWith
<1>3. \A e \in DOMAIN f :
        found[e] = IF f[e].store[k] # Absent THEN f[e].store[k]
                   ELSE IF k \in f[e].removed \/ f[e].parent = Nil THEN Absent
                   ELSE found[f[e].parent]
  <2> HIDE DEF found
  <2> QED
    BY <1>1 DEF FoundWith
<1> HIDE DEF found, P
<1>4. f[d].parent # Nil => f[d].parent \in DOMAIN f
  BY TreeOKIsTree DEF Tree
<1>5. Find(f, d, k) = IF f[d].store[k] # Absent THEN f[d].store[k]
                      ELSE IF k \in f[d].removed \/ f[d].parent = Nil THEN Absent
                      ELSE Find(f, f[d].parent, k)
  BY <1>2, <1>3, <1>4
<1> DEFINE Bad == {e \in DOMAIN f : found[e] \notin Values \cup {Absent}}
<1>6. Bad = {}
  <2> SUFFICES ASSUME Bad # {} PROVE FALSE
    OBVIOUS
  <2>1. Rank(f) \in [DOMAIN f -> Nat]
    BY TreeOKIsTree, RankType
  <2>2. PICK e \in Bad : \A c \in Bad : Rank(f)[e] <= Rank(f)[c]
    BY <2>1, LeastRank
  <2>3. f[e].store[k] \in Values \cup {Absent}
    BY TreeOKIsTree DEF Store
  <2>4. f[e].parent \in DOMAIN f \ Bad
    <3>1. f[e].parent # Nil
      BY <1>3, <2>3
    <3> QED
      BY <2>1, <2>2, <3>1, TreeOKIsTree DEF Tree, Rank
  <2> QED
    BY <1>3, <2>3, <2>4
<1> QED
  BY <1>2, <1>5, <1>6
\* A change of the tree that leaves what find sees of the deltas in T, or that
\* shows the same on them, leaves what is read through T.
LEMMA FindSame ==
  ASSUME NEW f, TreeOK(f), NEW g, TreeOK(g), NEW k \in Keys, NEW T,
         \A d \in T : d \in DOMAIN f /\ d \in DOMAIN g,
         \A d \in T : \/ Find(g, d, k) = Find(f, d, k)
                      \/ /\ g[d].store[k] = f[d].store[k]
                         /\ k \in g[d].removed <=> k \in f[d].removed
                         /\ g[d].parent = f[d].parent
                         /\ f[d].parent # Nil => f[d].parent \in T
  PROVE  \A d \in T : Find(g, d, k) = Find(f, d, k)
<1> DEFINE Bad == {d \in T : Find(g, d, k) # Find(f, d, k)}
<1> SUFFICES ASSUME Bad # {} PROVE FALSE
  OBVIOUS
<1>1. Rank(f) \in [DOMAIN f -> Nat] /\ Bad \in SUBSET DOMAIN f
  BY TreeOKIsTree, RankType
<1>2. PICK d \in Bad : \A e \in Bad : Rank(f)[d] <= Rank(f)[e]
  BY <1>1, LeastRank
<1>3. /\ d \in T /\ d \in DOMAIN f /\ d \in DOMAIN g
      /\ Find(g, d, k) # Find(f, d, k)
  OBVIOUS
<1>4. /\ g[d].store[k] = f[d].store[k]
      /\ k \in g[d].removed <=> k \in f[d].removed
      /\ g[d].parent = f[d].parent
      /\ f[d].parent # Nil => f[d].parent \in T
  BY <1>3
<1>5. f[d].parent # Nil
  BY <1>3, <1>4, FindUnfold
<1>6. f[d].parent \in DOMAIN f /\ Rank(f)[f[d].parent] < Rank(f)[d]
  BY <1>3, <1>5, TreeOKIsTree DEF Tree, Rank
<1>7. f[d].parent \notin Bad
  BY <1>1, <1>2, <1>3, <1>6
<1>8. Find(g, f[d].parent, k) = Find(f, f[d].parent, k)
  BY <1>4, <1>5, <1>7
<1>9. /\ Find(f, d, k) = IF f[d].store[k] # Absent THEN f[d].store[k]
                         ELSE IF k \in f[d].removed \/ f[d].parent = Nil THEN Absent
                         ELSE Find(f, f[d].parent, k)
      /\ Find(g, d, k) = IF g[d].store[k] # Absent THEN g[d].store[k]
                         ELSE IF k \in g[d].removed \/ g[d].parent = Nil THEN Absent
                         ELSE Find(g, g[d].parent, k)
  BY <1>3, FindUnfold
<1> QED
  BY <1>3, <1>4, <1>8, <1>9

\* One delta of the stack of a commit.
WriteStep(f, h, a) ==
  IF f[a].parent = Nil THEN f[a].store ELSE WriteBack(h[f[a].parent], f[a])

\* The root backend after a commit of n holds what n showed: writing the
\* deltas to it from the root up is reading through them from n down.
LEMMA WrittenIsContents ==
  ASSUME TreeOK(delta), NEW n \in DOMAIN delta
  PROVE  Written(n) = ContentsOf(delta, n)
<1> DEFINE L == Lineage(delta, n)
           P(h) == h = [a \in L |-> WriteStep(delta, h, a)]
           upTo == CHOOSE h : P(h)
           C == [a \in L |-> ContentsOf(delta, a)]
<1>1. /\ n \in L
      /\ L \subseteq DOMAIN delta
      /\ \A a \in L : delta[a].parent # Nil => delta[a].parent \in L
  BY TreeOKIsTree, LineageClosed DEF ParentClosed
<1>2. ASSUME NEW a \in L
      PROVE  C[a] = WriteStep(delta, C, a)
  <2>1. a \in DOMAIN delta
    BY <1>1
  <2>2. /\ delta[a].store \in Store
        /\ \A k \in Keys :
             Find(delta, a, k) = IF delta[a].store[k] # Absent THEN delta[a].store[k]
                                 ELSE IF k \in delta[a].removed \/ delta[a].parent = Nil THEN Absent
                                 ELSE Find(delta, delta[a].parent, k)
    BY <2>1, TreeOKIsTree, FindUnfold
  <2>3. CASE delta[a].parent = Nil
    BY <2>2, <2>3 DEF WriteStep, ContentsOf, Store
  <2>4. CASE delta[a].parent # Nil
    <3>1. \A k \in Keys : C[delta[a].parent][k] = Find(delta, delta[a].parent, k)
      BY <1>1, <2>4 DEF ContentsOf
    <3>2. \A k \in Keys : Find(delta, a, k) = WriteBack(C[delta[a].parent], delta[a])[k]
      BY <2>2, <2>4, <3>1 DEF WriteBack
    <3>3. C[a] = WriteBack(C[delta[a].parent], delta[a])
      BY <3>2 DEF WriteBack, ContentsOf
    <3> QED
      BY <2>4, <3>3 DEF WriteStep
  <2> QED
    BY <2>3, <2>4
<1>3. P(C)
  BY <1>2
<1>4. P(upTo)
  <2> HIDE DEF P, C
  <2> QED
    BY <1>3
<1>5. Written(n) = upTo[n]
  BY DEF Written, WriteStep, IsRoot
<1> HIDE DEF upTo, C
<1>6. \A a \in L : upTo[a] = WriteStep(delta, upTo, a)
  BY <1>4
<1>7. ASSUME NEW a \in L, upTo[a] # C[a]
      PROVE  delta[a].parent \in L /\ upTo[delta[a].parent] # C[delta[a].parent]
  BY <1>1, <1>2, <1>6, <1>7 DEF WriteStep
<1> DEFINE Bad == {a \in L : upTo[a] # C[a]}
<1>8. Bad = {}
  <2> SUFFICES ASSUME Bad # {} PROVE FALSE
    OBVIOUS
  <2>1. Rank(delta) \in [DOMAIN delta -> Nat] /\ Bad \in SUBSET DOMAIN delta
    BY <1>1, TreeOKIsTree, RankType
  <2>2. PICK a \in Bad : \A b \in Bad : Rank(delta)[a] <= Rank(delta)[b]
    BY <2>1, LeastRank
  <2>3. a \in DOMAIN delta /\ delta[a].parent \in Bad /\ delta[a].parent # Nil
    BY <1>6, <1>7, <1>2, <2>1 DEF WriteStep
  <2>4. Rank(delta)[a] <= Rank(delta)[delta[a].parent]
    BY <2>2, <2>3
  <2>5. /\ delta[a].parent \in DOMAIN delta
        /\ delta[a].revision = delta[delta[a].parent].revision + 1
        /\ delta[delta[a].parent].revision \in Nat
    BY <2>3, TreeOKIsTree DEF Tree
  <2> QED
    BY <2>3, <2>4, <2>5 DEF Rank
<1> QED
  BY <1>1, <1>5, <1>8 DEF C
-----------------------------------------------------------------------------
(* Changing the tree *)

\* The same deltas in the same places; none stops being finalized.
SameShape(f, g) ==
  /\ DOMAIN g = DOMAIN f
  /\ g \in [DOMAIN f -> Delta]
  /\ \A d \in DOMAIN f : /\ g[d].parent = f[d].parent
                         /\ g[d].revision = f[d].revision
                         /\ f[d].finalized => g[d].finalized

\* Writing on deltas, finalizing them and squashing one into another leave the
\* tree and the lineages.
LEMMA SameShapeTree ==
  ASSUME ConstantsAssumption, NEW f, TreeOK(f), NEW g, SameShape(f, g)
  PROVE  /\ TreeOK(g)
         /\ \A d \in DOMAIN f : Lineage(g, d) = Lineage(f, d)
<1>1. /\ DOMAIN g \subseteq Nodes \cup Drafts
      /\ g \in [DOMAIN g -> Delta]
      /\ \E r \in DOMAIN g \cap Nodes : \A d \in DOMAIN g : g[d].parent = Nil <=> d = r
  BY DEF TreeOK, SameShape
<1>2. ASSUME NEW d \in DOMAIN g, g[d].parent # Nil
      PROVE  /\ g[d].parent \in DOMAIN g
             /\ g[d].revision = g[g[d].parent].revision + 1
             /\ d \in Nodes => g[d].parent \in Nodes /\ g[g[d].parent].finalized
  BY <1>2 DEF TreeOK, SameShape
<1>3. TreeOK(g)
  BY <1>1, <1>2 DEF TreeOK
<1>4. ParentClosed(f, DOMAIN f)
  BY DEF TreeOK, ParentClosed
<1>5. \A d \in DOMAIN f : d \in DOMAIN f /\ d \in DOMAIN g /\ f[d].parent = g[d].parent
  BY DEF SameShape
<1> QED
  BY <1>3, <1>4, <1>5, TreeOKIsTree, LineageSame

\* A new delta x may go over one of the tree; a state node over a finalized one.
FitsOn(f, x, y) ==
  /\ x \in (Nodes \cup Drafts) \ DOMAIN f
  /\ y \in Delta
  /\ y.parent \in DOMAIN f
  /\ y.revision = f[y.parent].revision + 1
  /\ x \in Nodes => y.parent \in Nodes /\ f[y.parent].finalized

LEMMA InsertTree ==
  ASSUME ConstantsAssumption, NEW f, TreeOK(f), NEW x, NEW y, FitsOn(f, x, y)
  PROVE  /\ TreeOK(Insert(f, x, y))
         /\ \A d \in DOMAIN f : Lineage(Insert(f, x, y), d) = Lineage(f, d)
         /\ Lineage(Insert(f, x, y), x) = {x} \cup Lineage(f, y.parent)
<1> USE DEF FitsOn
<1> DEFINE g == Insert(f, x, y)
<1>1. /\ DOMAIN g = DOMAIN f \cup {x}
      /\ g[x] = y
      /\ \A d \in DOMAIN f : g[d] = f[d]
  BY DEF Insert
<1>2. Nil \notin Nodes \cup Drafts /\ y.parent # Nil
  BY ConstantsAssumption DEF TreeOK
<1>3. g \in [DOMAIN g -> Delta] /\ DOMAIN g \subseteq Nodes \cup Drafts
  BY <1>1 DEF TreeOK, Insert
<1> HIDE DEF g
<1>4. \E r \in DOMAIN g \cap Nodes : \A d \in DOMAIN g : g[d].parent = Nil <=> d = r
  BY <1>1, <1>2 DEF TreeOK
<1>5. ASSUME NEW d \in DOMAIN g, g[d].parent # Nil
      PROVE  /\ g[d].parent \in DOMAIN g
             /\ g[d].revision = g[g[d].parent].revision + 1
             /\ d \in Nodes => g[d].parent \in Nodes /\ g[g[d].parent].finalized
  <2>1. CASE d = x
    BY <1>1, <2>1
  <2>2. CASE d # x
    BY <1>1, <1>5, <2>2 DEF TreeOK
  <2> QED
    BY <2>1, <2>2
<1>6. TreeOK(g)
  BY <1>3, <1>4, <1>5 DEF TreeOK
<1>7. ParentClosed(f, DOMAIN f)
  BY DEF TreeOK, ParentClosed
<1>8. \A d \in DOMAIN f : Lineage(g, d) = Lineage(f, d)
  BY <1>1, <1>6, <1>7, TreeOKIsTree, LineageSame
<1>9. Lineage(g, x) = {x} \cup Lineage(g, y.parent)
  BY <1>1, <1>2, <1>6, TreeOKIsTree, LineageStep
<1> QED
  BY <1>1, <1>6, <1>8, <1>9 DEF g

\* Deltas leave the tree that no delta left reads through.
LEMMA KeepTree ==
  ASSUME ConstantsAssumption, NEW f, TreeOK(f), NEW T \in SUBSET DOMAIN f, T # {},
         ParentClosed(f, T)
  PROVE  /\ TreeOK(Keep(f, T))
         /\ DOMAIN Keep(f, T) = T
         /\ \A d \in T : /\ Keep(f, T)[d] = f[d]
                         /\ Lineage(Keep(f, T), d) = Lineage(f, d)
                         /\ Lineage(f, d) \subseteq T
<1> DEFINE g == Keep(f, T)
<1>1. DOMAIN g = T /\ \A d \in T : g[d] = f[d]
  BY DEF Keep
<1>2. g \in [DOMAIN g -> Delta] /\ DOMAIN g \subseteq Nodes \cup Drafts
  BY <1>1 DEF TreeOK, Keep
<1> HIDE DEF g
<1>3. PICK d \in T : TRUE
  OBVIOUS
<1>4. PICK r \in Lineage(f, d) : f[r].parent = Nil
  BY <1>3, TreeOKIsTree, LineageRoot
<1>5. r \in T
  BY <1>3, <1>4, TreeOKIsTree, LineageLeast
<1>6. \E q \in DOMAIN g \cap Nodes : \A e \in DOMAIN g : g[e].parent = Nil <=> e = q
  BY <1>1, <1>4, <1>5 DEF TreeOK
<1>7. ASSUME NEW e \in DOMAIN g, g[e].parent # Nil
      PROVE  /\ g[e].parent \in DOMAIN g
             /\ g[e].revision = g[g[e].parent].revision + 1
             /\ e \in Nodes => g[e].parent \in Nodes /\ g[g[e].parent].finalized
  BY <1>1, <1>7 DEF TreeOK, ParentClosed
<1>8. TreeOK(g)
  BY <1>2, <1>6, <1>7 DEF TreeOK
<1>9. \A e \in T : Lineage(g, e) = Lineage(f, e) /\ Lineage(f, e) \subseteq T
  BY <1>1, <1>8, TreeOKIsTree, LineageSame
<1> QED
  BY <1>1, <1>8, <1>9 DEF g

\* The children of a live node or a draft, as create_node and the anonymous
\* nodes make them, are deltas.
LEMMA MakeChildType ==
  ASSUME TreeOK(delta), NEW p \in DOMAIN delta
  PROVE  /\ MakeChild(p) \in Delta
         /\ MakeChild(p).parent = p
         /\ MakeChild(p).revision = delta[p].revision + 1
<1>1. p \in Nodes \cup Drafts /\ delta[p].revision \in Nat
  BY DEF TreeOK, Delta
<1>2. EmptyStore \in Store
  BY DEF EmptyStore, Store
<1> QED
  BY <1>1, <1>2 DEF MakeChild, Delta
-----------------------------------------------------------------------------
(* The inductive invariant *)

States == {anon[a].state : a \in DOMAIN anon}

\* No two anonymous nodes share a delta.
HandlesApart == \A a, b \in DOMAIN anon : anon[a].state = anon[b].state => a = b

\* The delta of a fresh anonymous node lies over that of its parent.
FreshOverParent == \A a \in Fresh : delta[anon[a].state].parent = StateOf(anon[a].parent)

\* An anonymous node, fresh or not, lies over the state nodes its parent is or
\* lies over: a discard that takes the parent takes it too.
OverSameNodes ==
  \A a \in DOMAIN anon, n \in Nodes :
    n \in Lineage(delta, anon[a].state) <=> n \in Lineage(delta, StateOf(anon[a].parent))

\* The merkle root of a state node but the root is that of its writes, which
\* have ended, or has not been computed; that of the root has been computed.
MerkleCached ==
  \A n \in LiveNodes :
    IF delta[n].parent = Nil THEN delta[n].merkle # Unset
    ELSE \/ delta[n].merkle = Unset
         \/ delta[n].finalized /\ delta[n].merkle = EntriesOf(delta[n])

AnonOK ==
  /\ DOMAIN anon \subseteq Handles
  /\ anon \in [DOMAIN anon -> [parent : Users, state : DOMAIN delta \cap Drafts]]

IInv ==
  /\ TreeOK(delta)
  /\ AnonOK
  /\ HandlesApart
  /\ FreshOverParent
  /\ OverSameNodes
  /\ MerkleCached

LEMMA IInvType == ASSUME IInv PROVE TypeOK
  BY DEF IInv, TypeOK, TreeOK, AnonOK, IsRoot, LiveNodes

\* The deltas of anonymous nodes and their parents.
LEMMA AnonType ==
  ASSUME ConstantsAssumption, TreeOK(delta), AnonOK, NEW a \in DOMAIN anon
  PROVE  /\ a \in Handles
         /\ anon[a].state \in DOMAIN delta \cap Drafts
         /\ anon[a].state \notin Nodes
         /\ anon[a].parent \in Users
         /\ anon[a].parent \in LiveNodes => StateOf(anon[a].parent) = anon[a].parent
         /\ anon[a].parent \notin LiveNodes =>
              /\ anon[a].parent \in DOMAIN anon
              /\ StateOf(anon[a].parent) = anon[anon[a].parent].state
         /\ StateOf(anon[a].parent) \in DOMAIN delta
<1>1. /\ a \in Handles
      /\ anon[a].state \in DOMAIN delta \cap Drafts
      /\ anon[a].parent \in Users
  BY DEF AnonOK
<1>2. ASSUME NEW u \in Users
      PROVE  /\ u \in LiveNodes => StateOf(u) = u
             /\ u \notin LiveNodes => u \in DOMAIN anon /\ StateOf(u) = anon[u].state
             /\ StateOf(u) \in DOMAIN delta
  BY ConstantsAssumption DEF AnonOK, Users, LiveNodes, StateOf
<1> QED
  BY <1>1, <1>2, ConstantsAssumption

\* A user's delta.
LEMMA UserType ==
  ASSUME ConstantsAssumption, AnonOK, NEW u \in Users
  PROVE  /\ StateOf(u) \in DOMAIN delta
         /\ u \in LiveNodes => StateOf(u) = u /\ u \notin DOMAIN anon
         /\ u \notin LiveNodes => /\ u \in DOMAIN anon /\ u \notin Nodes
                                  /\ StateOf(u) = anon[u].state
  BY ConstantsAssumption DEF AnonOK, Users, LiveNodes, StateOf

\* What a fresh anonymous node lies over is fresh.
LEMMA FreshBelow ==
  ASSUME IInv, NEW b \in Fresh, NEW c \in DOMAIN anon,
         anon[c].state \in Lineage(delta, anon[b].state)
  PROVE  c \in Fresh
<1>1. b \in DOMAIN anon /\ anon[b].state \in DOMAIN delta
  BY DEF Fresh, IInv, AnonOK
<1>2. Lineage(delta, anon[c].state) \subseteq Lineage(delta, anon[b].state)
  BY <1>1, TreeOKIsTree, LineageTrans DEF IInv
<1> QED
  BY <1>2 DEF Fresh

\* Between a fresh anonymous node and one it lies over there is one that was
\* created from the latter.
LEMMA FreshChild ==
  ASSUME ConstantsAssumption, IInv, NEW b \in Fresh, NEW a \in DOMAIN anon, a # b,
         anon[a].state \in Lineage(delta, anon[b].state)
  PROVE  \E c \in Fresh : /\ anon[c].parent = a
                          /\ anon[c].state \in Lineage(delta, anon[b].state)
<1>1. b \in DOMAIN anon /\ TreeOK(delta) /\ AnonOK
  BY DEF Fresh, IInv
<1>2. /\ anon[a].state \in DOMAIN delta \cap Drafts
      /\ anon[b].state \in DOMAIN delta
      /\ anon[a].state \notin Nodes /\ anon[a].state # Nil
      /\ anon[a].state # anon[b].state
  BY <1>1, AnonType, ConstantsAssumption DEF IInv, HandlesApart
<1>3. PICK e \in Lineage(delta, anon[b].state) : delta[e].parent = anon[a].state
  BY <1>1, <1>2, TreeOKIsTree, LineageChild
<1>4. e \in DOMAIN delta
  BY <1>1, <1>2, <1>3, TreeOKIsTree, LineageClosed
<1>5. e \in Drafts
  BY <1>1, <1>2, <1>3, <1>4 DEF TreeOK
<1>6. PICK c \in DOMAIN anon : anon[c].state = e
  BY <1>3, <1>5 DEF Fresh
<1>7. c \in Fresh
  BY <1>3, <1>6, FreshBelow
<1>8. StateOf(anon[c].parent) = anon[a].state
  BY <1>3, <1>6, <1>7 DEF IInv, FreshOverParent
<1>9. anon[c].parent = a
  <2>1. anon[c].parent \notin LiveNodes
    BY <1>1, <1>2, <1>8, AnonType DEF LiveNodes
  <2> QED
    BY <1>1, <1>8, <2>1, AnonType DEF IInv, HandlesApart
<1> QED
  BY <1>3, <1>6, <1>7, <1>9

-----------------------------------------------------------------------------
(* The steps on nodes *)

\* A step that leaves the anonymous nodes, the deltas there were and their
\* lineages leaves which anonymous nodes are fresh.
LEMMA AnonUnchanged ==
  ASSUME ConstantsAssumption, IInv, TreeOK(delta'), anon' = anon,
         DOMAIN delta \subseteq DOMAIN delta',
         \A d \in DOMAIN delta : /\ delta'[d].parent = delta[d].parent
                                 /\ Lineage(delta', d) = Lineage(delta, d)
  PROVE  /\ AnonOK'
         /\ HandlesApart'
         /\ FreshOverParent'
         /\ OverSameNodes'
         /\ Fresh' = Fresh
<1>1. AnonOK'
  BY DEF IInv, AnonOK, Users, LiveNodes
<1>2. HandlesApart'
  BY DEF IInv, HandlesApart
<1>3. Fresh' = Fresh
  BY AnonType DEF IInv, Fresh
<1>4. \A u : StateOf(u)' = StateOf(u)
  BY DEF StateOf
<1>5. FreshOverParent'
  <2> SUFFICES ASSUME NEW a \in Fresh
               PROVE  delta'[anon[a].state].parent = StateOf(anon[a].parent)
    BY <1>3, <1>4 DEF FreshOverParent
  <2>1. a \in DOMAIN anon
    BY DEF Fresh
  <2> QED
    BY <2>1, AnonType DEF IInv, FreshOverParent
<1>6. OverSameNodes'
  <2> SUFFICES ASSUME NEW a \in DOMAIN anon, NEW n \in Nodes
               PROVE  n \in Lineage(delta', anon[a].state)
                        <=> n \in Lineage(delta', StateOf(anon[a].parent))
    BY <1>4 DEF OverSameNodes
  <2>1. anon[a].state \in DOMAIN delta /\ StateOf(anon[a].parent) \in DOMAIN delta
    BY AnonType DEF IInv
  <2> QED
    BY <2>1 DEF IInv, OverSameNodes
<1> QED
  BY <1>1, <1>2, <1>3, <1>5, <1>6
\* Writes change nothing of a delta but its objects and removals.
SameButContents(r, q) ==
  /\ q \in Delta
  /\ q.parent = r.parent
  /\ q.revision = r.revision
  /\ q.finalized = r.finalized
  /\ q.merkle = r.merkle

LEMMA PutType ==
  ASSUME NEW r \in Delta, NEW k \in Keys, NEW v \in Values
  PROVE  /\ SameButContents(r, PutInto(r, k, v))
         /\ PutInto(r, k, v).store = [r.store EXCEPT ![k] = v]
         /\ PutInto(r, k, v).removed = r.removed
<1>1. [r.store EXCEPT ![k] = v] \in Store
  BY DEF Delta, Store
<1> QED
  BY <1>1 DEF PutInto, SameButContents, Delta

LEMMA EraseType ==
  ASSUME NEW r \in Delta, NEW k \in Keys
  PROVE  /\ SameButContents(r, EraseFrom(r, k))
         /\ EraseFrom(r, k).store = [r.store EXCEPT ![k] = Absent]
         /\ EraseFrom(r, k).removed = r.removed \cup {k}
<1>1. [r.store EXCEPT ![k] = Absent] \in Store
  BY DEF Delta, Store
<1> QED
  BY <1>1 DEF EraseFrom, SameButContents, Delta

\* Writing a delta over a store gives a store.
LEMMA WriteBackType ==
  ASSUME NEW s \in Store, NEW r \in Delta
  PROVE  WriteBack(s, r) \in Store
  BY DEF WriteBack, Store, Delta

LEMMA SquashType ==
  ASSUME NEW p \in Delta, NEW r \in Delta
  PROVE  /\ SameButContents(p, SquashInto(p, r))
         /\ SquashInto(p, r).store = WriteBack(p.store, r)
         /\ SquashInto(p, r).removed =
              IF p.parent = Nil THEN p.removed
              ELSE (p.removed \cup r.removed) \ {k \in Keys : r.store[k] # Absent}
<1>1. WriteBack(p.store, r) \in Store
  BY WriteBackType DEF Delta
<1> QED
  BY <1>1 DEF SquashInto, SameButContents, Delta

\* What a delta holds of the key that was written or erased.
LEMMA WrittenKey ==
  ASSUME NEW r \in Delta, NEW k \in Keys, NEW v \in Values
  PROVE  PutInto(r, k, v).store[k] = v
<1>1. k \in DOMAIN r.store
  BY DEF Delta, Store
<1>2. PutInto(r, k, v).store = [r.store EXCEPT ![k] = v]
  BY PutType
<1> QED
  BY <1>1, <1>2

LEMMA ErasedKey ==
  ASSUME NEW r \in Delta, NEW k \in Keys
  PROVE  EraseFrom(r, k).store[k] = Absent /\ k \in EraseFrom(r, k).removed
<1>1. k \in DOMAIN r.store
  BY DEF Delta, Store
<1>2. /\ EraseFrom(r, k).store = [r.store EXCEPT ![k] = Absent]
      /\ EraseFrom(r, k).removed = r.removed \cup {k}
  BY EraseType
<1> QED
  BY <1>1, <1>2

\* Of a key in r the delta r is squashed into has an object or a removal.
LEMMA SquashEntry ==
  ASSUME NEW p \in Delta, NEW r \in Delta, NEW k \in Keys,
         SquashInto(p, r).parent # Nil, r.store[k] # Absent \/ k \in r.removed
  PROVE  (SquashInto(p, r).store[k] # Absent) # (k \in SquashInto(p, r).removed)
<1>1. p.parent # Nil
  BY SquashType DEF SameButContents
<1>2. /\ SquashInto(p, r).store = WriteBack(p.store, r)
      /\ SquashInto(p, r).removed = (p.removed \cup r.removed) \ {j \in Keys : r.store[j] # Absent}
  BY <1>1, SquashType
<1>3. CASE r.store[k] # Absent
  <2>1. SquashInto(p, r).store[k] # Absent
    BY <1>2, <1>3 DEF WriteBack
  <2>2. k \notin SquashInto(p, r).removed
    BY <1>2, <1>3
  <2> QED
    BY <2>1, <2>2
<1>4. CASE r.store[k] = Absent
  <2>1. k \in r.removed
    BY <1>4
  <2>2. SquashInto(p, r).store[k] = Absent
    BY <1>2, <1>4, <2>1 DEF WriteBack
  <2>3. k \in SquashInto(p, r).removed
    BY <1>2, <1>4, <2>1
  <2> QED
    BY <2>2, <2>3
<1> QED
  BY <1>3, <1>4

\* Writes on one delta that is not finalized.
LEMMA WriteShape ==
  ASSUME TreeOK(delta), NEW d \in DOMAIN delta, NEW q, SameButContents(delta[d], q)
  PROVE  SameShape(delta, [delta EXCEPT ![d] = q])
  BY DEF TreeOK, SameShape, SameButContents

LEMMA WriteStepInv ==
  ASSUME ConstantsAssumption, IInv, NEW d \in DOMAIN delta, ~delta[d].finalized,
         NEW q, SameButContents(delta[d], q),
         delta' = [delta EXCEPT ![d] = q], anon' = anon
  PROVE  /\ IInv'
         /\ Fresh' = Fresh
         /\ DOMAIN delta' = DOMAIN delta
         /\ delta'[d] = q
         /\ \A e \in DOMAIN delta : e # d => delta'[e] = delta[e]
         /\ \A e \in DOMAIN delta : Lineage(delta', e) = Lineage(delta, e)
<1>1. SameShape(delta, delta')
  BY WriteShape DEF IInv
<1>2. TreeOK(delta') /\ \A e \in DOMAIN delta : Lineage(delta', e) = Lineage(delta, e)
  BY <1>1, SameShapeTree DEF IInv
<1>3. /\ DOMAIN delta' = DOMAIN delta
      /\ delta'[d] = q
      /\ \A e \in DOMAIN delta : e # d => delta'[e] = delta[e]
  OBVIOUS
<1>4. /\ AnonOK' /\ HandlesApart' /\ FreshOverParent' /\ OverSameNodes'
      /\ Fresh' = Fresh
  BY <1>1, <1>2, AnonUnchanged DEF SameShape
<1>5. MerkleCached'
  <2> SUFFICES ASSUME NEW n \in LiveNodes
               PROVE  IF delta'[n].parent = Nil THEN delta'[n].merkle # Unset
                      ELSE \/ delta'[n].merkle = Unset
                           \/ delta'[n].finalized /\ delta'[n].merkle = EntriesOf(delta'[n])
    BY <1>3 DEF MerkleCached, LiveNodes
  <2>1. CASE n = d
    BY <1>3, <2>1 DEF IInv, MerkleCached, SameButContents
  <2>2. CASE n # d
    BY <1>3, <2>2 DEF IInv, MerkleCached, LiveNodes
  <2> QED
    BY <2>1, <2>2
<1> QED
  BY <1>2, <1>3, <1>4, <1>5 DEF IInv

LEMMA PutInv ==
  ASSUME ConstantsAssumption, IInv,
         NEW u \in Nodes \cup Handles, NEW k \in Keys, NEW v \in Values, Put(u, k, v)
  PROVE  /\ IInv'
         /\ Fresh' = Fresh
         /\ DOMAIN delta' = DOMAIN delta
         /\ StateOf(u) \in DOMAIN delta
         /\ delta'[StateOf(u)] = PutInto(delta[StateOf(u)], k, v)
         /\ \A e \in DOMAIN delta : e # StateOf(u) => delta'[e] = delta[e]
         /\ \A e \in DOMAIN delta : Lineage(delta', e) = Lineage(delta, e)
<1> DEFINE d == StateOf(u)
<1>1. /\ u \in Users /\ ~delta[d].finalized
      /\ delta' = [delta EXCEPT ![d] = PutInto(delta[d], k, v)]
      /\ anon' = anon
  BY DEF Put
<1>2. d \in DOMAIN delta
  BY <1>1, UserType DEF IInv
<1>3. SameButContents(delta[d], PutInto(delta[d], k, v))
  BY <1>2, PutType DEF IInv, TreeOK
<1> HIDE DEF d
<1>4. /\ IInv'
      /\ Fresh' = Fresh
      /\ DOMAIN delta' = DOMAIN delta
      /\ delta'[d] = PutInto(delta[d], k, v)
      /\ \A e \in DOMAIN delta : e # d => delta'[e] = delta[e]
      /\ \A e \in DOMAIN delta : Lineage(delta', e) = Lineage(delta, e)
  BY <1>1, <1>2, <1>3, WriteStepInv
<1> QED
  BY <1>2, <1>4 DEF d

LEMMA RemoveInv ==
  ASSUME ConstantsAssumption, IInv,
         NEW u \in Nodes \cup Handles, NEW k \in Keys, Remove(u, k)
  PROVE  /\ IInv'
         /\ Fresh' = Fresh
         /\ DOMAIN delta' = DOMAIN delta
         /\ StateOf(u) \in DOMAIN delta
         /\ delta'[StateOf(u)] = EraseFrom(delta[StateOf(u)], k)
         /\ \A e \in DOMAIN delta : e # StateOf(u) => delta'[e] = delta[e]
         /\ \A e \in DOMAIN delta : Lineage(delta', e) = Lineage(delta, e)
<1> DEFINE d == StateOf(u)
<1>1. /\ u \in Users /\ ~delta[d].finalized
      /\ delta' = [delta EXCEPT ![d] = EraseFrom(delta[d], k)]
      /\ anon' = anon
  BY DEF Remove
<1>2. d \in DOMAIN delta
  BY <1>1, UserType DEF IInv
<1>3. SameButContents(delta[d], EraseFrom(delta[d], k))
  BY <1>2, EraseType DEF IInv, TreeOK
<1> HIDE DEF d
<1>4. /\ IInv'
      /\ Fresh' = Fresh
      /\ DOMAIN delta' = DOMAIN delta
      /\ delta'[d] = EraseFrom(delta[d], k)
      /\ \A e \in DOMAIN delta : e # d => delta'[e] = delta[e]
      /\ \A e \in DOMAIN delta : Lineage(delta', e) = Lineage(delta, e)
  BY <1>1, <1>2, <1>3, WriteStepInv
<1> QED
  BY <1>2, <1>4 DEF d
\* The steps that only mark a state node.
LEMMA MarkInv ==
  ASSUME ConstantsAssumption, IInv, NEW n \in LiveNodes, NEW q \in Delta,
         q.parent = delta[n].parent, q.revision = delta[n].revision,
         q.store = delta[n].store, q.removed = delta[n].removed,
         delta[n].finalized => q.finalized,
         IF q.parent = Nil THEN q.merkle # Unset
         ELSE q.merkle = Unset \/ (q.finalized /\ q.merkle = EntriesOf(q)),
         delta' = [delta EXCEPT ![n] = q], anon' = anon
  PROVE  /\ IInv'
         /\ Fresh' = Fresh
         /\ DOMAIN delta' = DOMAIN delta
         /\ delta'[n] = q
         /\ \A e \in DOMAIN delta : e # n => delta'[e] = delta[e]
<1>1. n \in DOMAIN delta
  BY DEF LiveNodes
<1>2. /\ DOMAIN delta' = DOMAIN delta
      /\ delta'[n] = q
      /\ \A e \in DOMAIN delta : e # n => delta'[e] = delta[e]
  BY <1>1
<1>3. SameShape(delta, delta')
  BY <1>1, <1>2 DEF IInv, TreeOK, SameShape
<1>4. TreeOK(delta') /\ \A e \in DOMAIN delta : Lineage(delta', e) = Lineage(delta, e)
  BY <1>3, SameShapeTree DEF IInv
<1>5. /\ AnonOK' /\ HandlesApart' /\ FreshOverParent' /\ OverSameNodes'
      /\ Fresh' = Fresh
  BY <1>3, <1>4, AnonUnchanged DEF SameShape
<1>6. MerkleCached'
  BY <1>2 DEF IInv, MerkleCached, LiveNodes
<1> QED
  BY <1>2, <1>4, <1>5, <1>6 DEF IInv

\* The entries of a delta are an Entries value, so none of them is Unset.
LEMMA EntriesType ==
  ASSUME ConstantsAssumption, NEW r \in Delta
  PROVE  /\ EntriesOf(r) \in Entries
         /\ EntriesOf(r) # Unset
         /\ MerkleRoot(r) \in Entries \cup {ZeroRoot}
         /\ MerkleRoot(r) # Unset
<1>1. \A k \in Keys : r.store[k] \in Values \cup {Absent}
  BY DEF Delta, Store
<1>2. \A k \in Keys : (IF r.store[k] # Absent /\ k \in r.removed THEN 2
                       ELSE IF r.store[k] # Absent \/ k \in r.removed THEN 1 ELSE 0) \in 0 .. 2
  OBVIOUS
<1>3. EntriesOf(r) \in Entries
  BY <1>1, <1>2 DEF EntriesOf, Entries
<1>4. r.merkle \in Entries \cup {Unset, ZeroRoot}
  BY DEF Delta
<1> QED
  BY <1>3, <1>4, ConstantsAssumption DEF MerkleRoot

LEMMA FinalizeInv ==
  ASSUME ConstantsAssumption, IInv, NEW n \in Nodes, Finalize(n)
  PROVE  /\ IInv'
         /\ Fresh' = Fresh
         /\ DOMAIN delta' = DOMAIN delta
         /\ delta'[n] = [delta[n] EXCEPT !.finalized = TRUE]
         /\ \A e \in DOMAIN delta : e # n => delta'[e] = delta[e]
<1> DEFINE q == [delta[n] EXCEPT !.finalized = TRUE]
<1>1. /\ n \in LiveNodes /\ n \in DOMAIN delta
      /\ delta' = [delta EXCEPT ![n] = q]
      /\ anon' = anon
      /\ delta[n] \in Delta
  BY DEF Finalize, LiveNodes, IInv, TreeOK
<1>2. /\ q \in Delta /\ q.finalized
      /\ q.parent = delta[n].parent /\ q.revision = delta[n].revision
      /\ q.store = delta[n].store /\ q.removed = delta[n].removed
      /\ q.merkle = delta[n].merkle
  BY <1>1 DEF Delta
<1> HIDE DEF q
<1>3. EntriesOf(q) = EntriesOf(delta[n])
  BY <1>2 DEF EntriesOf
<1>4. IF q.parent = Nil THEN q.merkle # Unset
      ELSE q.merkle = Unset \/ (q.finalized /\ q.merkle = EntriesOf(q))
  BY <1>1, <1>2, <1>3 DEF IInv, MerkleCached
<1> QED
  BY <1>1, <1>2, <1>4, MarkInv DEF q

LEMMA AskInv ==
  ASSUME ConstantsAssumption, IInv, NEW n \in Nodes, AskMerkleRoot(n)
  PROVE  /\ IInv'
         /\ Fresh' = Fresh
         /\ DOMAIN delta' = DOMAIN delta
         /\ delta'[n] = [delta[n] EXCEPT !.merkle = MerkleRoot(delta[n])]
         /\ \A e \in DOMAIN delta : e # n => delta'[e] = delta[e]
<1> DEFINE q == [delta[n] EXCEPT !.merkle = MerkleRoot(delta[n])]
<1>1. /\ n \in LiveNodes /\ n \in DOMAIN delta
      /\ delta[n].finalized
      /\ delta' = [delta EXCEPT ![n] = q]
      /\ anon' = anon
      /\ delta[n] \in Delta
  BY DEF AskMerkleRoot, LiveNodes, IInv, TreeOK
<1>2. MerkleRoot(delta[n]) \in Entries \cup {ZeroRoot} /\ MerkleRoot(delta[n]) # Unset
  BY <1>1, EntriesType
<1>3. /\ q \in Delta /\ q.finalized
      /\ q.parent = delta[n].parent /\ q.revision = delta[n].revision
      /\ q.store = delta[n].store /\ q.removed = delta[n].removed
      /\ q.merkle = MerkleRoot(delta[n])
  BY <1>1, <1>2 DEF Delta
<1> HIDE DEF q
<1>4. EntriesOf(q) = EntriesOf(delta[n])
  BY <1>3 DEF EntriesOf
<1>5. delta[n].parent # Nil => MerkleRoot(delta[n]) = EntriesOf(delta[n])
  BY <1>1 DEF IInv, MerkleCached, MerkleRoot
<1>6. IF q.parent = Nil THEN q.merkle # Unset
      ELSE q.merkle = Unset \/ (q.finalized /\ q.merkle = EntriesOf(q))
  BY <1>2, <1>3, <1>4, <1>5
<1> QED
  BY <1>1, <1>3, <1>6, MarkInv DEF q

\* A new state node over a finalized one.
LEMMA NewNodeInv ==
  ASSUME ConstantsAssumption, IInv, NEW n \in Nodes \ DOMAIN delta, NEW y \in Delta,
         y.parent \in LiveNodes, delta[y.parent].finalized,
         y.revision = delta[y.parent].revision + 1, y.merkle = Unset,
         delta' = Insert(delta, n, y), anon' = anon
  PROVE  /\ IInv'
         /\ Fresh' = Fresh
         /\ DOMAIN delta' = DOMAIN delta \cup {n}
         /\ delta'[n] = y
         /\ \A e \in DOMAIN delta : delta'[e] = delta[e]
<1>1. /\ y.parent \in DOMAIN delta /\ y.parent \in Nodes
      /\ TreeOK(delta)
      /\ FitsOn(delta, n, y)
  BY DEF LiveNodes, IInv, FitsOn
<1>2. /\ DOMAIN delta' = DOMAIN delta \cup {n}
      /\ delta'[n] = y
      /\ \A d \in DOMAIN delta : delta'[d] = delta[d]
  BY DEF Insert
<1>3. TreeOK(delta') /\ \A d \in DOMAIN delta : Lineage(delta', d) = Lineage(delta, d)
  BY <1>1, InsertTree
<1>4. /\ AnonOK' /\ HandlesApart' /\ FreshOverParent' /\ OverSameNodes'
      /\ Fresh' = Fresh
  BY <1>2, <1>3, AnonUnchanged
<1>5. y.parent # Nil
  BY <1>1, ConstantsAssumption
<1>6. MerkleCached'
  BY <1>2, <1>5 DEF IInv, MerkleCached, LiveNodes
<1> QED
  BY <1>2, <1>3, <1>4, <1>6 DEF IInv

LEMMA CreateNodeInv ==
  ASSUME ConstantsAssumption, IInv, NEW p \in Nodes, NEW n \in Nodes, CreateNode(p, n)
  PROVE  /\ IInv'
         /\ Fresh' = Fresh
         /\ DOMAIN delta' = DOMAIN delta \cup {n}
         /\ delta'[n] = MakeChild(p)
         /\ \A e \in DOMAIN delta : delta'[e] = delta[e]
<1>1. /\ p \in LiveNodes /\ p \in DOMAIN delta /\ delta[p].finalized
      /\ n \notin DOMAIN delta
      /\ delta' = Insert(delta, n, MakeChild(p))
      /\ anon' = anon
  BY DEF CreateNode, LiveNodes
<1>2. /\ MakeChild(p) \in Delta
      /\ MakeChild(p).parent = p
      /\ MakeChild(p).revision = delta[p].revision + 1
  BY <1>1, MakeChildType DEF IInv
<1>3. MakeChild(p).merkle = Unset
  BY DEF MakeChild
<1> QED
  BY <1>1, <1>2, <1>3, NewNodeInv

LEMMA CloneNodeInv ==
  ASSUME ConstantsAssumption, IInv, NEW m \in Nodes, NEW n \in Nodes, CloneNode(m, n)
  PROVE  /\ IInv'
         /\ Fresh' = Fresh
         /\ DOMAIN delta' = DOMAIN delta \cup {n}
         /\ delta'[n] = delta[m]
         /\ \A e \in DOMAIN delta : delta'[e] = delta[e]
<1>1. /\ m \in LiveNodes /\ m \in DOMAIN delta /\ ~delta[m].finalized
      /\ delta[m].parent # Nil
      /\ n \notin DOMAIN delta
      /\ delta' = Insert(delta, n, delta[m])
      /\ anon' = anon
  BY DEF CloneNode, LiveNodes, IsRoot
<1>2. /\ delta[m] \in Delta
      /\ delta[m].parent \in LiveNodes
      /\ delta[delta[m].parent].finalized
      /\ delta[m].revision = delta[delta[m].parent].revision + 1
  BY <1>1 DEF IInv, TreeOK, LiveNodes
<1>3. delta[m].merkle = Unset
  BY <1>1 DEF IInv, MerkleCached
<1> QED
  BY <1>1, <1>2, <1>3, NewNodeInv
\* Deltas and anonymous nodes go that nothing left needs: what stays reads
\* through what stays, and so do the anonymous nodes it lies over.
LEMMA KeepInv ==
  ASSUME ConstantsAssumption, IInv,
         NEW T \in SUBSET DOMAIN delta, T # {}, ParentClosed(delta, T),
         NEW H \in SUBSET DOMAIN anon,
         \A a \in H : /\ anon[a].state \in T
                      /\ anon[a].parent \in (T \cap Nodes) \cup H,
         \A a \in Fresh \cap H, b \in DOMAIN anon \ H :
           anon[b].state \notin Lineage(delta, anon[a].state),
         delta' = Keep(delta, T), anon' = Keep(anon, H)
  PROVE  /\ IInv'
         /\ Fresh' = Fresh \cap H
         /\ DOMAIN delta' = T
         /\ \A d \in T : delta'[d] = delta[d] /\ Lineage(delta', d) = Lineage(delta, d)
         /\ DOMAIN anon' = H
         /\ \A a \in H : anon'[a] = anon[a]
<1>1. /\ TreeOK(delta')
      /\ DOMAIN delta' = T
      /\ \A d \in T : /\ delta'[d] = delta[d]
                      /\ Lineage(delta', d) = Lineage(delta, d)
                      /\ Lineage(delta, d) \subseteq T
  BY KeepTree DEF IInv
<1>2. DOMAIN anon' = H /\ \A a \in H : anon'[a] = anon[a]
  BY DEF Keep
<1>3. \A a \in H : /\ anon[a].state \in Drafts
                   /\ anon[a].parent \in (T \cap Nodes) \cup H
                   /\ StateOf(anon[a].parent)' = StateOf(anon[a].parent)
                   /\ StateOf(anon[a].parent) \in T
  BY <1>2, AnonType, ConstantsAssumption DEF IInv, AnonOK, StateOf
<1>4. AnonOK'
  <2>1. ASSUME NEW a \in H
        PROVE  anon'[a] \in [parent : (T \cap Nodes) \cup H, state : T \cap Drafts]
    <3>1. anon[a] \in [parent : Users, state : DOMAIN delta \cap Drafts]
      BY DEF IInv, AnonOK
    <3> QED
      BY <1>2, <1>3, <3>1
  <2>2. anon' \in [H -> [parent : (T \cap Nodes) \cup H, state : T \cap Drafts]]
    <3>1. anon' = [a \in DOMAIN anon \cap H |-> anon[a]]
      BY DEF Keep
    <3> HIDE DEF Keep
    <3> QED
      BY <1>2, <2>1, <3>1
  <2>3. Users' = (T \cap Nodes) \cup H
    BY <1>1, <1>2 DEF Users, LiveNodes
  <2> QED
    BY <1>1, <1>2, <2>2, <2>3 DEF IInv, AnonOK
<1>5. HandlesApart'
  BY <1>2 DEF IInv, HandlesApart
<1>6. Fresh' = Fresh \cap H
  <2>1. ASSUME NEW a \in H
        PROVE  a \in Fresh' <=> a \in Fresh
    <3> DEFINE L == Lineage(delta, anon[a].state)
    <3>1. Lineage(delta', anon'[a].state) = L
      BY <1>1, <1>2
    <3>2. a \in Fresh' <=> L \cap Drafts \subseteq {anon'[b].state : b \in H}
      BY <1>2, <3>1 DEF Fresh
    <3>3. a \in Fresh <=> L \cap Drafts \subseteq {anon[b].state : b \in DOMAIN anon}
      BY DEF Fresh
    <3>4. {anon'[b].state : b \in H} \subseteq {anon[b].state : b \in DOMAIN anon}
      BY <1>2
    <3>5. ASSUME a \in Fresh
          PROVE  L \cap Drafts \subseteq {anon'[b].state : b \in H}
      <4> SUFFICES ASSUME NEW e \in L \cap Drafts
                   PROVE  e \in {anon'[b].state : b \in H}
        OBVIOUS
      <4>1. PICK b \in DOMAIN anon : anon[b].state = e
        BY <3>3, <3>5
      <4>2. b \in H
        BY <3>5, <4>1
      <4> QED
        BY <1>2, <4>1, <4>2
    <3> QED
      BY <3>2, <3>3, <3>4, <3>5
  <2> QED
    BY <1>2, <2>1 DEF Fresh
<1>7. FreshOverParent'
  BY <1>1, <1>2, <1>3, <1>6 DEF IInv, FreshOverParent
<1>8. OverSameNodes'
  BY <1>1, <1>2, <1>3 DEF IInv, OverSameNodes
<1>9. MerkleCached'
  BY <1>1 DEF IInv, MerkleCached, LiveNodes
<1> QED
  BY <1>1, <1>2, <1>4, <1>5, <1>6, <1>7, <1>8, <1>9 DEF IInv

\* What reads through n, and what does not.
LEMMA BelowClosed ==
  ASSUME TreeOK(delta), NEW n \in DOMAIN delta
  PROVE  /\ n \in Below(n)
         /\ Below(n) \subseteq DOMAIN delta
         /\ \A d \in DOMAIN delta : delta[d].parent # Nil =>
              (d \in Below(n) <=> d = n \/ delta[d].parent \in Below(n))
         /\ \A d \in DOMAIN delta : delta[d].parent = Nil => (d \in Below(n) <=> d = n)
         /\ ParentClosed(delta, DOMAIN delta \ Below(n))
<1>1. n \in Below(n) /\ Below(n) \subseteq DOMAIN delta
  BY TreeOKIsTree, LineageClosed DEF Below
<1>2. ASSUME NEW d \in DOMAIN delta, delta[d].parent # Nil
      PROVE  d \in Below(n) <=> d = n \/ delta[d].parent \in Below(n)
  <2>1. Lineage(delta, d) = {d} \cup Lineage(delta, delta[d].parent)
    BY <1>2, TreeOKIsTree, LineageStep
  <2>2. delta[d].parent \in DOMAIN delta
    BY <1>2, TreeOKIsTree DEF Tree
  <2> QED
    BY <1>1, <2>1, <2>2 DEF Below
<1>3. ASSUME NEW d \in DOMAIN delta, delta[d].parent = Nil
      PROVE  d \in Below(n) <=> d = n
  <2>1. Lineage(delta, d) = {d}
    BY <1>3, TreeOKIsTree, LineageStep
  <2> QED
    BY <1>1, <2>1 DEF Below
<1>4. ParentClosed(delta, DOMAIN delta \ Below(n))
  BY <1>2, TreeOKIsTree DEF ParentClosed, Tree
<1> QED
  BY <1>1, <1>2, <1>3, <1>4

LEMMA DiscardInv ==
  ASSUME ConstantsAssumption, IInv, NEW n \in Nodes, Discard(n)
  PROVE  /\ IInv'
         /\ Fresh' = {a \in Fresh : anon[a].state \notin Below(n)}
         /\ DOMAIN delta' = DOMAIN delta \ Below(n)
         /\ \A d \in DOMAIN delta' : /\ delta'[d] = delta[d]
                                     /\ Lineage(delta', d) = Lineage(delta, d)
         /\ DOMAIN anon' = {a \in DOMAIN anon : anon[a].state \notin Below(n)}
         /\ \A a \in DOMAIN anon' : anon'[a] = anon[a]
<1> DEFINE T == DOMAIN delta \ Below(n)
           H == {a \in DOMAIN anon : anon[a].state \notin Below(n)}
<1>1. /\ n \in DOMAIN delta /\ delta[n].parent # Nil
      /\ delta' = Keep(delta, T)
      /\ anon' = Keep(anon, H)
  BY DEF Discard, LiveNodes, IsRoot
<1>2. ParentClosed(delta, T)
  BY <1>1, BelowClosed DEF IInv
<1>3. T # {}
  <2>1. PICK r \in DOMAIN delta : delta[r].parent = Nil
    BY DEF IInv, TreeOK
  <2> QED
    BY <1>1, <2>1, BelowClosed DEF IInv
<1>4. ASSUME NEW a \in H
      PROVE  anon[a].state \in T /\ anon[a].parent \in (T \cap Nodes) \cup H
  <2>1. n \notin Lineage(delta, anon[a].state) /\ anon[a].state \in T
    BY AnonType DEF Below, IInv
  <2>2. StateOf(anon[a].parent) \in T
    BY <2>1, AnonType DEF IInv, OverSameNodes, Below
  <2> QED
    BY <2>1, <2>2, AnonType DEF IInv, LiveNodes
<1>5. ASSUME NEW a \in Fresh \cap H, NEW b \in DOMAIN anon \ H
      PROVE  anon[b].state \notin Lineage(delta, anon[a].state)
  <2>1. anon[b].state \in DOMAIN delta /\ n \in Lineage(delta, anon[b].state)
    BY DEF Below
  <2>2. anon[a].state \in DOMAIN delta /\ n \notin Lineage(delta, anon[a].state)
    BY AnonType DEF IInv, Below
  <2> QED
    BY <2>1, <2>2, TreeOKIsTree, LineageTrans DEF IInv
<1> HIDE DEF T, H
<1>6. H \in SUBSET DOMAIN anon /\ T \in SUBSET DOMAIN delta
  BY DEF H, T
<1>7. /\ IInv'
      /\ Fresh' = Fresh \cap H
      /\ DOMAIN delta' = T
      /\ \A d \in T : delta'[d] = delta[d] /\ Lineage(delta', d) = Lineage(delta, d)
      /\ DOMAIN anon' = H
      /\ \A a \in H : anon'[a] = anon[a]
  BY <1>1, <1>2, <1>3, <1>4, <1>5, <1>6, KeepInv
<1>8. Fresh \cap H = {a \in Fresh : anon[a].state \notin Below(n)}
  BY DEF H, Fresh
<1> QED
  BY <1>7, <1>8 DEF T, H
\* A state node reads through state nodes only.
LEMMA NodeLineage ==
  ASSUME TreeOK(delta), NEW n \in LiveNodes
  PROVE  Lineage(delta, n) \subseteq LiveNodes
<1>1. ParentClosed(delta, LiveNodes)
  BY DEF TreeOK, ParentClosed, LiveNodes
<1> QED
  BY <1>1, TreeOKIsTree, LineageLeast DEF LiveNodes

\* What find returns for all keys is a store.
LEMMA ContentsType ==
  ASSUME TreeOK(delta), NEW d \in DOMAIN delta
  PROVE  ContentsOf(delta, d) \in Store
  BY FindUnfold DEF ContentsOf, Store

LEMMA CommitInv ==
  ASSUME ConstantsAssumption, IInv, NEW n \in Nodes, Commit(n)
  PROVE  /\ IInv'
         /\ DOMAIN anon = {} /\ anon' = anon
         /\ n \in DOMAIN delta
         /\ DOMAIN delta' = Below(n)
         /\ \A d \in Below(n) : d # n => delta'[d] = delta[d]
         /\ delta'[n] \in Delta
         /\ delta'[n].parent = Nil
         /\ delta'[n].store = ContentsOf(delta, n)
         /\ delta'[n].finalized
         /\ delta'[n].merkle = MerkleRoot(delta[n])
<1>1. /\ DOMAIN anon = {} /\ anon' = anon
      /\ n \in DOMAIN delta /\ delta[n].finalized /\ delta[n].parent # Nil
      /\ delta[n] \in Delta
  BY DEF Commit, LiveNodes, IsRoot, IInv, TreeOK
<1> DEFINE q == [delta[n] EXCEPT !.parent = Nil, !.store = Written(n), !.removed = {},
                                 !.merkle = MerkleRoot(delta[n])]
<1>2. delta' = [d \in Below(n) |-> IF d = n THEN q ELSE delta[d]]
  BY DEF Commit
<1>3. Written(n) = ContentsOf(delta, n) /\ ContentsOf(delta, n) \in Store
  BY <1>1, WrittenIsContents, ContentsType DEF IInv
<1>4. MerkleRoot(delta[n]) \in Entries \cup {ZeroRoot} /\ MerkleRoot(delta[n]) # Unset
  BY <1>1, EntriesType
<1>5. /\ q \in Delta /\ q.parent = Nil /\ q.revision = delta[n].revision
      /\ q.store = ContentsOf(delta, n) /\ q.finalized
      /\ q.merkle = MerkleRoot(delta[n])
  BY <1>1, <1>3, <1>4 DEF Delta
<1> HIDE DEF q
<1>6. /\ n \in Below(n) /\ Below(n) \subseteq DOMAIN delta
      /\ \A d \in DOMAIN delta : delta[d].parent # Nil =>
           (d \in Below(n) <=> d = n \/ delta[d].parent \in Below(n))
      /\ \A d \in DOMAIN delta : delta[d].parent = Nil => (d \in Below(n) <=> d = n)
  BY <1>1, BelowClosed DEF IInv
<1>7. /\ DOMAIN delta' = Below(n)
      /\ delta'[n] = q
      /\ \A d \in Below(n) : d # n => delta'[d] = delta[d]
  BY <1>2, <1>6
<1>8. TreeOK(delta')
  <2>1. delta' \in [DOMAIN delta' -> Delta] /\ DOMAIN delta' \subseteq Nodes \cup Drafts
    <3>1. \A d \in Below(n) : delta'[d] \in Delta
      BY <1>5, <1>6, <1>7 DEF IInv, TreeOK
    <3> QED
      BY <1>2, <1>6, <1>7, <3>1 DEF IInv, TreeOK
  <2>2. n \in DOMAIN delta' \cap Nodes /\ \A d \in DOMAIN delta' : delta'[d].parent = Nil <=> d = n
    BY <1>5, <1>6, <1>7
  <2>3. ASSUME NEW d \in DOMAIN delta', delta'[d].parent # Nil
        PROVE  /\ delta'[d].parent \in DOMAIN delta'
               /\ delta'[d].revision = delta'[delta'[d].parent].revision + 1
               /\ d \in Nodes => delta'[d].parent \in Nodes /\ delta'[delta'[d].parent].finalized
    <3>1. d # n /\ d \in Below(n) /\ d \in DOMAIN delta /\ delta'[d] = delta[d]
      BY <1>6, <1>7, <2>2, <2>3
    <3>2. /\ delta[d].parent \in Below(n)
          /\ delta[d].revision = delta[delta[d].parent].revision + 1
          /\ d \in Nodes => delta[d].parent \in Nodes /\ delta[delta[d].parent].finalized
      BY <1>6, <2>3, <3>1 DEF IInv, TreeOK
    <3>3. CASE delta[d].parent = n
      BY <1>5, <1>7, <3>1, <3>2, <3>3
    <3>4. CASE delta[d].parent # n
      BY <1>7, <3>1, <3>2, <3>4
    <3> QED
      BY <3>3, <3>4
  <2> QED
    BY <2>1, <2>2, <2>3 DEF TreeOK
<1>9. AnonOK'
  <2>1. anon \in [{} -> [parent : Users', state : (DOMAIN delta \cap Drafts)']]
    BY <1>1 DEF IInv, AnonOK
  <2> QED
    BY <1>1, <2>1 DEF AnonOK
<1>10. HandlesApart' /\ FreshOverParent' /\ OverSameNodes'
  BY <1>1 DEF HandlesApart, FreshOverParent, OverSameNodes, Fresh
<1>11. MerkleCached'
  <2> SUFFICES ASSUME NEW m \in LiveNodes'
               PROVE  IF delta'[m].parent = Nil THEN delta'[m].merkle # Unset
                      ELSE \/ delta'[m].merkle = Unset
                           \/ delta'[m].finalized /\ delta'[m].merkle = EntriesOf(delta'[m])
    BY DEF MerkleCached
  <2>1. CASE m = n
    BY <1>4, <1>5, <1>7, <2>1
  <2>2. CASE m # n
    <3>1. m \in Below(n) /\ m \in LiveNodes /\ delta'[m] = delta[m]
      BY <1>6, <1>7, <2>2 DEF LiveNodes
    <3> QED
      BY <3>1 DEF IInv, MerkleCached
  <2> QED
    BY <2>1, <2>2
<1> QED
  BY <1>1, <1>5, <1>7, <1>8, <1>9, <1>10, <1>11 DEF IInv
-----------------------------------------------------------------------------
(* The steps on anonymous nodes *)

\* StateOf, of the anonymous nodes h.
DeltaOf(h, u) == IF u \in Nodes THEN u ELSE h[u].state

\* FreshOverParent and OverSameNodes after a step.
LEMMA OverPrimed ==
  /\ (\A b \in Fresh' : delta'[anon'[b].state].parent = DeltaOf(anon', anon'[b].parent))
       => FreshOverParent'
  /\ (\A b \in DOMAIN anon', n \in Nodes :
        n \in Lineage(delta', anon'[b].state) <=> n \in Lineage(delta', DeltaOf(anon', anon'[b].parent)))
       => OverSameNodes'
<1>1. \A b : StateOf(anon[b].parent)' = DeltaOf(anon', anon'[b].parent)
  BY DEF StateOf, DeltaOf
<1> QED
  BY <1>1 DEF FreshOverParent, OverSameNodes

LEMMA CreateAnonymousInv ==
  ASSUME ConstantsAssumption, IInv, NEW a \in Handles, NEW u \in Nodes \cup Handles,
         NEW d \in Drafts, CreateAnonymous(a, u, d)
  PROVE  /\ IInv'
         /\ Fresh' = Fresh \cup (IF u \in LiveNodes \cup Fresh THEN {a} ELSE {})
         /\ a \notin DOMAIN anon
         /\ d \notin DOMAIN delta
         /\ DOMAIN delta' = DOMAIN delta \cup {d}
         /\ delta'[d] = MakeChild(StateOf(u))
         /\ \A e \in DOMAIN delta : delta'[e] = delta[e]
         /\ DOMAIN anon' = DOMAIN anon \cup {a}
         /\ anon'[a] = [parent |-> u, state |-> d]
         /\ \A b \in DOMAIN anon : anon'[b] = anon[b]
<1>1. /\ u \in Users /\ a \notin DOMAIN anon /\ d \notin DOMAIN delta
      /\ delta' = Insert(delta, d, MakeChild(StateOf(u)))
      /\ anon' = Insert(anon, a, [parent |-> u, state |-> d])
  BY DEF CreateAnonymous
<1>2. /\ DOMAIN anon' = DOMAIN anon \cup {a}
      /\ anon'[a] = [parent |-> u, state |-> d]
      /\ \A b \in DOMAIN anon : anon'[b] = anon[b]
  BY <1>1 DEF Insert
<1>3. /\ DOMAIN delta' = DOMAIN delta \cup {d}
      /\ delta'[d] = MakeChild(StateOf(u))
      /\ \A e \in DOMAIN delta : delta'[e] = delta[e]
  BY <1>1 DEF Insert
<1>4. /\ StateOf(u) \in DOMAIN delta
      /\ u \in LiveNodes => StateOf(u) = u
      /\ u \notin LiveNodes => u \in DOMAIN anon /\ StateOf(u) = anon[u].state
  BY <1>1, UserType DEF IInv
<1>5. /\ MakeChild(StateOf(u)) \in Delta
      /\ MakeChild(StateOf(u)).parent = StateOf(u)
      /\ MakeChild(StateOf(u)).revision = delta[StateOf(u)].revision + 1
  BY <1>4, MakeChildType DEF IInv
<1>6. FitsOn(delta, d, MakeChild(StateOf(u)))
  BY <1>1, <1>4, <1>5, ConstantsAssumption DEF FitsOn
<1>7. /\ TreeOK(delta')
      /\ \A e \in DOMAIN delta : Lineage(delta', e) = Lineage(delta, e)
      /\ Lineage(delta', d) = {d} \cup Lineage(delta, StateOf(u))
  <2>1. /\ TreeOK(delta')
        /\ \A e \in DOMAIN delta : Lineage(delta', e) = Lineage(delta, e)
    BY <1>1, <1>6, InsertTree DEF IInv
  <2>2. Lineage(delta', d) = {d} \cup Lineage(delta', StateOf(u))
    <3>1. delta'[d].parent = StateOf(u) /\ StateOf(u) # Nil /\ d \in DOMAIN delta'
      BY <1>3, <1>4, <1>5, ConstantsAssumption DEF IInv, TreeOK
    <3> QED
      BY <2>1, <3>1, TreeOKIsTree, LineageStep
  <2> QED
    BY <1>4, <2>1, <2>2
<1>8. a \notin Nodes /\ d \notin Nodes
  BY ConstantsAssumption
<1>9. \A w \in Users : DeltaOf(anon', w) = StateOf(w)
  BY <1>1, <1>2 DEF StateOf, DeltaOf, Users, LiveNodes
<1>10. AnonOK'
  <2>1. Users \subseteq Users' /\ DOMAIN delta \cap Drafts \subseteq (DOMAIN delta \cap Drafts)'
    BY <1>2, <1>3 DEF Users, LiveNodes
  <2>2. [parent |-> u, state |-> d] \in [parent : Users', state : (DOMAIN delta \cap Drafts)']
    BY <1>1, <1>3, <2>1
  <2>3. \A b \in DOMAIN anon : anon[b] \in [parent : Users', state : (DOMAIN delta \cap Drafts)']
    BY <2>1 DEF IInv, AnonOK
  <2>4. anon' \in [DOMAIN anon' -> [parent : Users', state : (DOMAIN delta \cap Drafts)']]
    BY <1>1, <2>2, <2>3 DEF Insert
  <2> QED
    BY <1>2, <2>4 DEF IInv, AnonOK
<1>11. HandlesApart'
  <2>1. \A b \in DOMAIN anon : anon[b].state # d
    BY <1>1, AnonType DEF IInv
  <2> QED
    BY <1>2, <2>1 DEF IInv, HandlesApart
<1>12. \A b \in DOMAIN anon : b \in Fresh' <=> b \in Fresh
  <2> SUFFICES ASSUME NEW b \in DOMAIN anon
               PROVE  b \in Fresh' <=> b \in Fresh
    OBVIOUS
  <2> DEFINE L == Lineage(delta, anon[b].state)
  <2>1. anon[b].state \in DOMAIN delta
    BY AnonType DEF IInv
  <2>2. L \subseteq DOMAIN delta
    BY <2>1, TreeOKIsTree, LineageClosed DEF IInv
  <2>3. Lineage(delta', anon'[b].state) = L
    BY <1>2, <1>7, <2>1
  <2>4. {anon'[c].state : c \in DOMAIN anon'} = {anon[c].state : c \in DOMAIN anon} \cup {d}
    BY <1>2
  <2>5. b \in Fresh' <=> L \cap Drafts \subseteq {anon[c].state : c \in DOMAIN anon} \cup {d}
    BY <1>2, <2>3, <2>4 DEF Fresh
  <2>6. b \in Fresh <=> L \cap Drafts \subseteq {anon[c].state : c \in DOMAIN anon}
    BY DEF Fresh
  <2> QED
    BY <1>1, <2>2, <2>5, <2>6
<1>13. a \in Fresh' <=> u \in LiveNodes \cup Fresh
  <2> DEFINE L == Lineage(delta, StateOf(u))
             S == {anon[c].state : c \in DOMAIN anon}
  <2>1. L \subseteq DOMAIN delta
    BY <1>4, TreeOKIsTree, LineageClosed DEF IInv
  <2>2. {anon'[c].state : c \in DOMAIN anon'} = S \cup {d}
    BY <1>2
  <2>3. a \in Fresh' <=> ({d} \cup L) \cap Drafts \subseteq S \cup {d}
    BY <1>2, <1>7, <2>2 DEF Fresh
  <2>4. a \in Fresh' <=> L \cap Drafts \subseteq S
    BY <1>1, <2>1, <2>3
  <2>5. CASE u \in LiveNodes
    <3>1. L \subseteq LiveNodes
      BY <1>4, <2>5, NodeLineage DEF IInv
    <3> QED
      BY <2>4, <2>5, <3>1, ConstantsAssumption DEF LiveNodes
  <2>6. CASE u \notin LiveNodes
    BY <1>4, <2>4, <2>6 DEF Fresh
  <2> QED
    BY <2>5, <2>6
<1>14. Fresh' = Fresh \cup (IF u \in LiveNodes \cup Fresh THEN {a} ELSE {})
  <2>1. Fresh' \subseteq DOMAIN anon \cup {a} /\ Fresh \subseteq DOMAIN anon
    BY <1>2 DEF Fresh
  <2> QED
    BY <1>1, <1>12, <1>13, <2>1
<1>15. FreshOverParent'
  <2> SUFFICES ASSUME NEW b \in Fresh'
               PROVE  delta'[anon'[b].state].parent = DeltaOf(anon', anon'[b].parent)
    BY OverPrimed
  <2>1. CASE b = a
    BY <1>1, <1>2, <1>3, <1>5, <1>9, <2>1
  <2>2. CASE b # a
    <3>1. b \in Fresh /\ b \in DOMAIN anon
      BY <1>14, <2>2 DEF Fresh
    <3>2. anon[b].state \in DOMAIN delta /\ anon[b].parent \in Users
      BY <3>1, AnonType DEF IInv
    <3> QED
      BY <1>2, <1>3, <1>9, <3>1, <3>2 DEF IInv, FreshOverParent
  <2> QED
    BY <2>1, <2>2
<1>16. OverSameNodes'
  <2> SUFFICES ASSUME NEW b \in DOMAIN anon', NEW n \in Nodes
               PROVE  n \in Lineage(delta', anon'[b].state)
                        <=> n \in Lineage(delta', DeltaOf(anon', anon'[b].parent))
    BY OverPrimed
  <2>1. CASE b = a
    <3>1. anon'[b].state = d /\ anon'[b].parent = u /\ DeltaOf(anon', u) = StateOf(u)
      BY <1>1, <1>2, <1>9, <2>1
    <3> QED
      BY <1>4, <1>7, <1>8, <3>1
  <2>2. CASE b # a
    <3>1. b \in DOMAIN anon /\ anon'[b] = anon[b]
      BY <1>2, <2>2
    <3>2. /\ anon[b].state \in DOMAIN delta
          /\ anon[b].parent \in Users
          /\ StateOf(anon[b].parent) \in DOMAIN delta
      BY <3>1, AnonType DEF IInv
    <3> QED
      BY <1>7, <1>9, <3>1, <3>2 DEF IInv, OverSameNodes
  <2> QED
    BY <2>1, <2>2
<1>17. MerkleCached'
  BY <1>3, <1>8 DEF IInv, MerkleCached, LiveNodes
<1> QED
  BY <1>1, <1>2, <1>3, <1>7, <1>10, <1>11, <1>14, <1>15, <1>16, <1>17 DEF IInv
\* The deltas f have the marks of the state nodes, and the finalized ones.
NodesKept(f) ==
  \A n \in LiveNodes : /\ f[n].merkle = delta[n].merkle
                       /\ f[n].finalized = delta[n].finalized
                       /\ delta[n].finalized => f[n] = delta[n]

\* The reset of the handle a, with the other deltas written on or not: what lay
\* over the delta a had is no longer fresh.
LEMMA ResetToInv ==
  ASSUME ConstantsAssumption, IInv, NEW a \in DOMAIN anon, NEW d \in Drafts,
         NEW f, SameShape(delta, f), NodesKept(f),
         ResetTo(a, d, f)
  PROVE  /\ IInv'
         /\ Fresh' = {b \in Fresh : anon[a].state \notin Lineage(delta, anon[b].state)}
         /\ d \notin DOMAIN delta
         /\ DOMAIN delta' = DOMAIN delta \cup {d}
         /\ \A e \in DOMAIN delta : delta'[e] = f[e]
         /\ DOMAIN anon' = DOMAIN anon
         /\ \A b \in DOMAIN anon : b # a => anon'[b] = anon[b]
<1> DEFINE s == anon[a].state
           y == MakeChild(s)
<1>1. /\ d \notin DOMAIN delta
      /\ delta' = Insert(f, d, y)
      /\ anon' = [anon EXCEPT ![a].state = d]
  BY DEF ResetTo
<1>2. /\ a \in Handles /\ s \in DOMAIN delta \cap Drafts /\ s \notin Nodes
      /\ d \notin Nodes /\ a \notin Nodes
  BY AnonType, ConstantsAssumption DEF IInv
<1>3. y \in Delta /\ y.parent = s /\ y.revision = delta[s].revision + 1
  BY <1>2, MakeChildType DEF IInv
<1> HIDE DEF y
<1>4. /\ TreeOK(f)
      /\ DOMAIN f = DOMAIN delta
      /\ \A e \in DOMAIN delta : /\ Lineage(f, e) = Lineage(delta, e)
                                 /\ f[e].parent = delta[e].parent
                                 /\ f[e].revision = delta[e].revision
  BY SameShapeTree DEF IInv, SameShape
<1>5. FitsOn(f, d, y)
  BY <1>1, <1>2, <1>3, <1>4 DEF FitsOn
<1>6. /\ DOMAIN delta' = DOMAIN delta \cup {d}
      /\ delta'[d] = y
      /\ \A e \in DOMAIN delta : delta'[e] = f[e]
  BY <1>1, <1>4 DEF Insert
<1>7. TreeOK(delta') /\ \A e \in DOMAIN delta : Lineage(delta', e) = Lineage(delta, e)
  <2>1. TreeOK(delta') /\ \A e \in DOMAIN f : Lineage(delta', e) = Lineage(f, e)
    BY <1>1, <1>4, <1>5, InsertTree
  <2> QED
    BY <1>4, <2>1
<1>8. Lineage(delta', d) = {d} \cup Lineage(delta, s)
  <2>1. d \in DOMAIN delta' /\ delta'[d].parent = s /\ s # Nil
    BY <1>2, <1>3, <1>6, ConstantsAssumption
  <2>2. Lineage(delta', d) = {d} \cup Lineage(delta', s)
    BY <1>7, <2>1, TreeOKIsTree, LineageStep
  <2> QED
    BY <1>2, <1>7, <2>2
<1>9. /\ DOMAIN anon' = DOMAIN anon
      /\ anon'[a].state = d /\ anon'[a].parent = anon[a].parent
      /\ \A b \in DOMAIN anon : b # a => anon'[b] = anon[b]
  BY <1>1 DEF IInv, AnonOK
<1>10. AnonOK'
  <2>1. Users \subseteq Users' /\ (DOMAIN delta \cap Drafts) \cup {d} \subseteq (DOMAIN delta \cap Drafts)'
    BY <1>6, <1>9 DEF Users, LiveNodes
  <2>2. \A b \in DOMAIN anon : anon[b] \in [parent : Users', state : (DOMAIN delta \cap Drafts)']
    BY <2>1 DEF IInv, AnonOK
  <2>3. [anon[a] EXCEPT !.state = d] \in [parent : Users', state : (DOMAIN delta \cap Drafts)']
    BY <2>1, <2>2
  <2>4. anon' \in [DOMAIN anon' -> [parent : Users', state : (DOMAIN delta \cap Drafts)']]
    BY <1>1, <1>9, <2>2, <2>3
  <2> QED
    BY <1>9, <2>4 DEF IInv, AnonOK
<1>11. \A b \in DOMAIN anon : anon[b].state # d /\ (b # a => anon[b].state # s)
  BY <1>1, AnonType DEF IInv, HandlesApart
<1>12. HandlesApart'
  BY <1>9, <1>11 DEF IInv, HandlesApart
<1> DEFINE S == {anon[c].state : c \in DOMAIN anon}
<1>13. {anon'[c].state : c \in DOMAIN anon'} = (S \ {s}) \cup {d}
  <2>1. ASSUME NEW c \in DOMAIN anon
        PROVE  anon'[c].state \in (S \ {s}) \cup {d}
    BY <1>9, <1>11
  <2>2. ASSUME NEW e \in (S \ {s}) \cup {d}
        PROVE  \E c \in DOMAIN anon : e = anon'[c].state
    <3>1. CASE e = d
      BY <1>9, <3>1
    <3>2. CASE e # d
      <4>1. PICK c \in DOMAIN anon : e = anon[c].state
        BY <2>2, <3>2
      <4> QED
        BY <1>9, <2>2, <3>2, <4>1
    <3> QED
      BY <3>1, <3>2
  <2> QED
    BY <1>9, <2>1, <2>2
<1>14. ASSUME NEW b \in DOMAIN anon
       PROVE  b \in Fresh' <=> b \in Fresh /\ s \notin Lineage(delta, anon[b].state)
  <2> DEFINE L == Lineage(delta, anon[b].state)
  <2>1. anon[b].state \in DOMAIN delta
    BY AnonType DEF IInv
  <2>2. anon[b].state \in L /\ L \subseteq DOMAIN delta
    BY <2>1, TreeOKIsTree, LineageClosed DEF IInv
  <2>3. b \in Fresh <=> L \cap Drafts \subseteq S
    BY DEF Fresh
  <2>4. CASE b # a
    <3>1. Lineage(delta', anon'[b].state) = L
      BY <1>7, <1>9, <2>1, <2>4
    <3>2. b \in Fresh' <=> L \cap Drafts \subseteq (S \ {s}) \cup {d}
      BY <1>9, <1>13, <3>1 DEF Fresh
    <3> QED
      BY <1>1, <1>2, <2>2, <2>3, <3>2
  <2>5. CASE b = a
    <3>1. Lineage(delta', anon'[b].state) = {d} \cup L
      BY <1>8, <1>9, <2>5
    <3>2. b \in Fresh' <=> ({d} \cup L) \cap Drafts \subseteq (S \ {s}) \cup {d}
      BY <1>9, <1>13, <3>1 DEF Fresh
    <3>3. s \in L
      BY <2>2, <2>5
    <3> QED
      BY <1>1, <1>2, <3>2, <3>3
  <2> QED
    BY <2>4, <2>5
<1>15. Fresh' = {b \in Fresh : s \notin Lineage(delta, anon[b].state)}
  <2>1. Fresh \subseteq DOMAIN anon /\ Fresh' \subseteq DOMAIN anon
    BY <1>9 DEF Fresh
  <2> QED
    BY <1>14, <2>1
<1>16. \A w \in Users : w # a => DeltaOf(anon', w) = StateOf(w)
  BY <1>9 DEF DeltaOf, StateOf, Users, LiveNodes
<1>17. DeltaOf(anon', a) = d /\ StateOf(a) = s
  BY <1>2, <1>9 DEF DeltaOf, StateOf
<1>18. FreshOverParent'
  <2> SUFFICES ASSUME NEW b \in Fresh'
               PROVE  delta'[anon'[b].state].parent = DeltaOf(anon', anon'[b].parent)
    BY OverPrimed
  <2>1. /\ b \in Fresh /\ b \in DOMAIN anon
        /\ s \notin Lineage(delta, anon[b].state)
    BY <1>15 DEF Fresh
  <2>2. /\ anon[b].state \in DOMAIN delta
        /\ anon[b].parent \in Users
        /\ delta[anon[b].state].parent = StateOf(anon[b].parent)
        /\ StateOf(anon[b].parent) \in DOMAIN delta
    BY <2>1, AnonType DEF IInv, FreshOverParent
  <2>3. b # a /\ anon'[b] = anon[b]
    BY <1>9, <2>1, <2>2, TreeOKIsTree, LineageClosed DEF IInv
  <2>4. anon[b].parent # a
    <3>1. StateOf(anon[b].parent) \in Lineage(delta, anon[b].state)
      <4>1. delta[anon[b].state].parent # Nil
        BY <2>2, ConstantsAssumption DEF IInv, TreeOK
      <4> QED
        BY <2>2, <4>1, TreeOKIsTree, LineageClosed DEF IInv, ParentClosed
    <3> QED
      BY <1>17, <2>1, <3>1
  <2> QED
    BY <1>4, <1>6, <1>16, <2>2, <2>3, <2>4
<1>19. OverSameNodes'
  <2> SUFFICES ASSUME NEW b \in DOMAIN anon', NEW n \in Nodes
               PROVE  n \in Lineage(delta', anon'[b].state)
                        <=> n \in Lineage(delta', DeltaOf(anon', anon'[b].parent))
    BY OverPrimed
  <2>1. /\ b \in DOMAIN anon
        /\ anon[b].state \in DOMAIN delta
        /\ anon[b].parent \in Users
        /\ anon'[b].parent = anon[b].parent
        /\ StateOf(anon[b].parent) \in DOMAIN delta
        /\ n \in Lineage(delta, anon[b].state) <=> n \in Lineage(delta, StateOf(anon[b].parent))
    BY <1>9, AnonType DEF IInv, OverSameNodes
  <2>2. n \in Lineage(delta', anon'[b].state) <=> n \in Lineage(delta, anon[b].state)
    BY <1>2, <1>7, <1>8, <1>9, <2>1
  <2>3. n \in Lineage(delta', DeltaOf(anon', anon[b].parent))
          <=> n \in Lineage(delta, StateOf(anon[b].parent))
    <3>1. CASE anon[b].parent = a
      BY <1>2, <1>8, <1>17, <3>1
    <3>2. CASE anon[b].parent # a
      BY <1>7, <1>16, <2>1, <3>2
    <3> QED
      BY <3>1, <3>2
  <2> QED
    BY <2>1, <2>2, <2>3
<1>20. MerkleCached'
  <2> SUFFICES ASSUME NEW n \in LiveNodes'
               PROVE  IF delta'[n].parent = Nil THEN delta'[n].merkle # Unset
                      ELSE \/ delta'[n].merkle = Unset
                           \/ delta'[n].finalized /\ delta'[n].merkle = EntriesOf(delta'[n])
    BY DEF MerkleCached
  <2>1. n \in LiveNodes /\ n \in DOMAIN delta /\ delta'[n] = f[n] /\ f[n].parent = delta[n].parent
    BY <1>2, <1>4, <1>6 DEF LiveNodes
  <2>2. CASE delta[n].finalized
    BY <2>1, <2>2 DEF IInv, MerkleCached, NodesKept
  <2>3. CASE ~delta[n].finalized
    BY <2>1, <2>3 DEF IInv, MerkleCached, NodesKept
  <2> QED
    BY <2>2, <2>3
<1> QED
  BY <1>1, <1>6, <1>7, <1>9, <1>10, <1>12, <1>15, <1>18, <1>19, <1>20 DEF IInv
\* An anonymous node whose delta lies over a state node or over the delta of a
\* fresh anonymous node is fresh.
LEMMA FreshAbove ==
  ASSUME ConstantsAssumption, IInv, NEW a \in DOMAIN anon
  PROVE  /\ delta[anon[a].state].parent \in DOMAIN delta
         /\ Lineage(delta, anon[a].state)
              = {anon[a].state} \cup Lineage(delta, delta[anon[a].state].parent)
         /\ delta[anon[a].state].parent \in Nodes => a \in Fresh
         /\ \A b \in Fresh : delta[anon[a].state].parent = anon[b].state => a \in Fresh
<1> DEFINE s == anon[a].state
           p == delta[s].parent
<1>1. s \in DOMAIN delta /\ s \notin Nodes
  BY AnonType DEF IInv
<1>2. p # Nil /\ p \in DOMAIN delta
  BY <1>1 DEF IInv, TreeOK
<1>3. Lineage(delta, s) = {s} \cup Lineage(delta, p)
  BY <1>1, <1>2, TreeOKIsTree, LineageStep DEF IInv
<1>4. ASSUME p \in Nodes
      PROVE  a \in Fresh
  <2>1. Lineage(delta, p) \subseteq LiveNodes
    BY <1>2, <1>4, NodeLineage DEF IInv, LiveNodes
  <2> QED
    BY <1>3, <2>1, ConstantsAssumption DEF Fresh, LiveNodes
<1>5. ASSUME NEW b \in Fresh, p = anon[b].state
      PROVE  a \in Fresh
  BY <1>3, <1>5 DEF Fresh
<1> QED
  BY <1>2, <1>3, <1>4, <1>5

\* What anonymous_state_node::commit does to the deltas there were.
LEMMA CommitAnonymousInv ==
  ASSUME ConstantsAssumption, IInv, NEW a \in Handles, NEW d \in Drafts,
         CommitAnonymous(a, d)
  PROVE  /\ IInv'
         /\ Fresh' = {b \in Fresh : anon[a].state \notin Lineage(delta, anon[b].state)}
         /\ a \in DOMAIN anon
         /\ ~delta[StateOf(anon[a].parent)].finalized
         /\ d \notin DOMAIN delta
         /\ DOMAIN delta' = DOMAIN delta \cup {d}
         /\ delta[anon[a].state].parent \in DOMAIN delta
         /\ delta'[delta[anon[a].state].parent]
              = SquashInto(delta[delta[anon[a].state].parent], delta[anon[a].state])
         /\ \A e \in DOMAIN delta : e # delta[anon[a].state].parent => delta'[e] = delta[e]
         /\ DOMAIN anon' = DOMAIN anon
         /\ \A b \in DOMAIN anon : b # a => anon'[b] = anon[b]
<1> DEFINE s == anon[a].state
           p == delta[s].parent
           q == SquashInto(delta[p], delta[s])
           f == [delta EXCEPT ![p] = q]
<1>1. /\ a \in DOMAIN anon
      /\ ~delta[StateOf(anon[a].parent)].finalized
      /\ ResetTo(a, d, f)
  BY DEF CommitAnonymous
<1>2. s \in DOMAIN delta /\ p \in DOMAIN delta
  BY <1>1, FreshAbove, AnonType DEF IInv
<1>3. delta[s] \in Delta /\ delta[p] \in Delta
  BY <1>2 DEF IInv, TreeOK
<1>4. SameButContents(delta[p], q)
  BY <1>3, SquashType
<1>5. ASSUME p \in LiveNodes
      PROVE  ~delta[p].finalized
  BY <1>1, <1>5, FreshAbove DEF IInv, FreshOverParent, LiveNodes
<1> HIDE DEF q, p, s
<1>6. /\ DOMAIN f = DOMAIN delta
      /\ f[p] = q
      /\ \A e \in DOMAIN delta : e # p => f[e] = delta[e]
  BY <1>2
<1>7. SameShape(delta, f)
  BY <1>2, <1>4, WriteShape DEF IInv
<1> HIDE DEF f
<1>8. \A n \in LiveNodes : n # p => f[n] = delta[n]
  BY <1>6 DEF LiveNodes
<1>9. NodesKept(f)
  BY <1>4, <1>5, <1>6, <1>8 DEF SameButContents, NodesKept
<1>10. /\ IInv'
       /\ Fresh' = {b \in Fresh : anon[a].state \notin Lineage(delta, anon[b].state)}
       /\ d \notin DOMAIN delta
       /\ DOMAIN delta' = DOMAIN delta \cup {d}
       /\ \A e \in DOMAIN delta : delta'[e] = f[e]
       /\ DOMAIN anon' = DOMAIN anon
       /\ \A b \in DOMAIN anon : b # a => anon'[b] = anon[b]
  BY <1>1, <1>7, <1>9, ResetToInv
<1> QED
  BY <1>1, <1>2, <1>6, <1>10 DEF q, p, s

LEMMA ResetAnonymousInv ==
  ASSUME ConstantsAssumption, IInv, NEW a \in Handles, NEW d \in Drafts,
         ResetAnonymous(a, d)
  PROVE  /\ IInv'
         /\ Fresh' = {b \in Fresh : anon[a].state \notin Lineage(delta, anon[b].state)}
         /\ a \in DOMAIN anon
         /\ d \notin DOMAIN delta
         /\ DOMAIN delta' = DOMAIN delta \cup {d}
         /\ \A e \in DOMAIN delta : delta'[e] = delta[e]
         /\ DOMAIN anon' = DOMAIN anon
         /\ \A b \in DOMAIN anon : b # a => anon'[b] = anon[b]
<1>1. a \in DOMAIN anon /\ ResetTo(a, d, delta)
  BY DEF ResetAnonymous
<1>2. SameShape(delta, delta)
  BY DEF IInv, TreeOK, SameShape
<1>3. NodesKept(delta)
  BY DEF NodesKept
<1> QED
  BY <1>1, <1>2, <1>3, ResetToInv

LEMMA DropAnonymousInv ==
  ASSUME ConstantsAssumption, IInv, NEW a \in Handles, DropAnonymous(a)
  PROVE  /\ IInv'
         /\ a \in DOMAIN anon
         /\ \A b \in DOMAIN anon : anon[b].parent # a
         /\ Fresh' = Fresh \ {a}
         /\ LiveNodes \subseteq DOMAIN delta' /\ DOMAIN delta' \subseteq DOMAIN delta
         /\ \A d \in DOMAIN delta' : /\ delta'[d] = delta[d]
                                     /\ Lineage(delta', d) = Lineage(delta, d)
         /\ DOMAIN anon' = DOMAIN anon \ {a}
         /\ \A b \in DOMAIN anon' : anon'[b] = anon[b]
<1> DEFINE H == DOMAIN anon \ {a}
           T == LiveNodes \cup UNION {Lineage(delta, anon[b].state) : b \in H}
<1>1. /\ a \in DOMAIN anon
      /\ \A b \in DOMAIN anon : anon[b].parent # a
      /\ anon' = Keep(anon, H)
      /\ delta' = Keep(delta, T)
  BY DEF DropAnonymous
<1>2. \A b \in H : /\ anon[b].state \in DOMAIN delta
                   /\ anon[b].state \in Lineage(delta, anon[b].state)
                   /\ Lineage(delta, anon[b].state) \subseteq DOMAIN delta
                   /\ ParentClosed(delta, Lineage(delta, anon[b].state))
  BY AnonType, TreeOKIsTree, LineageClosed DEF IInv
<1>3. T \in SUBSET DOMAIN delta /\ LiveNodes \subseteq T
  BY <1>2 DEF LiveNodes
<1>4. T # {}
  <2>1. LiveNodes # {}
    BY DEF IInv, TreeOK, LiveNodes
  <2> QED
    BY <2>1
<1>5. ParentClosed(delta, T)
  <2>1. ASSUME NEW d \in LiveNodes, delta[d].parent # Nil
        PROVE  delta[d].parent \in LiveNodes
    BY <2>1 DEF IInv, TreeOK, LiveNodes
  <2>2. ASSUME NEW b \in H, NEW d \in Lineage(delta, anon[b].state), delta[d].parent # Nil
        PROVE  delta[d].parent \in Lineage(delta, anon[b].state)
    BY <1>2, <2>2 DEF ParentClosed
  <2> QED
    BY <2>1, <2>2 DEF ParentClosed
<1>6. ASSUME NEW b \in H
      PROVE  anon[b].state \in T /\ anon[b].parent \in (T \cap Nodes) \cup H
  <2>1. anon[b].parent \in LiveNodes \cup DOMAIN anon
    BY AnonType DEF IInv
  <2> QED
    BY <1>1, <1>2, <1>3, <2>1 DEF LiveNodes
<1>7. ASSUME NEW b \in Fresh \cap H, NEW c \in DOMAIN anon \ H
      PROVE  anon[c].state \notin Lineage(delta, anon[b].state)
  <2>1. c = a /\ c # b
    OBVIOUS
  <2>2. \A e \in Fresh : anon[e].parent # a
    BY <1>1 DEF Fresh
  <2> QED
    BY <1>1, <2>1, <2>2, FreshChild
<1> HIDE DEF T, H
<1>8. /\ IInv'
      /\ Fresh' = Fresh \cap H
      /\ DOMAIN delta' = T
      /\ \A d \in T : delta'[d] = delta[d] /\ Lineage(delta', d) = Lineage(delta, d)
      /\ DOMAIN anon' = H
      /\ \A b \in H : anon'[b] = anon[b]
  <2>1. H \in SUBSET DOMAIN anon
    BY DEF H
  <2> QED
    BY <1>1, <1>3, <1>4, <1>5, <1>6, <1>7, <2>1, KeepInv
<1>9. Fresh \cap H = Fresh \ {a}
  BY DEF H, Fresh
<1> QED
  BY <1>1, <1>3, <1>8, <1>9 DEF H

-----------------------------------------------------------------------------
(* Theorems *)

LEMMA InitInv == ASSUME ConstantsAssumption, Init PROVE IInv
<1>1. EmptyStore \in Store
  BY DEF EmptyStore, Store
<1>2. DOMAIN delta = {Genesis} /\ DOMAIN anon = {}
  BY DEF Init
<1>3. /\ delta[Genesis] \in Delta
      /\ delta[Genesis].parent = Nil
      /\ delta[Genesis].merkle = ZeroRoot
  BY <1>1 DEF Init, Delta
<1>4. TreeOK(delta)
  <2>1. delta \in [DOMAIN delta -> Delta]
    BY <1>2, <1>3 DEF Init
  <2> QED
    BY <1>2, <1>3, <2>1, ConstantsAssumption DEF TreeOK
<1>5. AnonOK
  BY DEF Init, AnonOK
<1>6. HandlesApart /\ FreshOverParent /\ OverSameNodes
  BY <1>2 DEF HandlesApart, FreshOverParent, OverSameNodes, Fresh
<1>7. MerkleCached
  BY <1>2, <1>3, ConstantsAssumption DEF MerkleCached, LiveNodes
<1> QED
  BY <1>4, <1>5, <1>6, <1>7 DEF IInv

\* The steps keep the invariant.
LEMMA NextInv == ASSUME ConstantsAssumption, IInv, [Next]_vars PROVE IInv'
<1>1. ASSUME NEW u \in Nodes \cup Handles, NEW k \in Keys, NEW v \in Values, Put(u, k, v)
      PROVE  IInv'
  BY <1>1, PutInv
<1>2. ASSUME NEW u \in Nodes \cup Handles, NEW k \in Keys, Remove(u, k)
      PROVE  IInv'
  BY <1>2, RemoveInv
<1>3. ASSUME NEW p \in Nodes, NEW n \in Nodes, CreateNode(p, n)
      PROVE  IInv'
  BY <1>3, CreateNodeInv
<1>4. ASSUME NEW m \in Nodes, NEW n \in Nodes, CloneNode(m, n)
      PROVE  IInv'
  BY <1>4, CloneNodeInv
<1>5. ASSUME NEW n \in Nodes, Finalize(n)
      PROVE  IInv'
  BY <1>5, FinalizeInv
<1>6. ASSUME NEW n \in Nodes, AskMerkleRoot(n)
      PROVE  IInv'
  BY <1>6, AskInv
<1>7. ASSUME NEW n \in Nodes, Discard(n)
      PROVE  IInv'
  BY <1>7, DiscardInv
<1>8. ASSUME NEW n \in Nodes, Commit(n)
      PROVE  IInv'
  BY <1>8, CommitInv
<1>9. ASSUME NEW a \in Handles, NEW u \in Nodes \cup Handles, NEW d \in Drafts,
             CreateAnonymous(a, u, d)
      PROVE  IInv'
  BY <1>9, CreateAnonymousInv
<1>10. ASSUME NEW a \in Handles, NEW d \in Drafts, CommitAnonymous(a, d)
       PROVE  IInv'
  BY <1>10, CommitAnonymousInv
<1>11. ASSUME NEW a \in Handles, NEW d \in Drafts, ResetAnonymous(a, d)
       PROVE  IInv'
  BY <1>11, ResetAnonymousInv
<1>12. ASSUME NEW a \in Handles, DropAnonymous(a)
       PROVE  IInv'
  BY <1>12, DropAnonymousInv
<1>13. CASE UNCHANGED vars
  <2>1. delta' = delta /\ anon' = anon
    BY <1>13 DEF vars
  <2> QED
    BY <2>1 DEF IInv, AnonOK, HandlesApart, FreshOverParent, OverSameNodes, MerkleCached,
                Users, LiveNodes, Fresh, StateOf
<1> QED
  BY <1>1, <1>2, <1>3, <1>4, <1>5, <1>6, <1>7, <1>8, <1>9, <1>10, <1>11, <1>12, <1>13 DEF Next

LEMMA Invariance == Spec => []IInv
<1>1. Init => IInv
  BY ConstantsAssumption, InitInv
<1>2. IInv /\ [Next]_vars => IInv'
  BY ConstantsAssumption, NextInv
<1> QED
  BY <1>1, <1>2, PTL DEF Spec

\* The deltas are one tree: whatever is discarded, committed or reset, there is
\* one root, a delta reads from one that is still there and a revision below,
\* and state nodes lie over finalized state nodes.
THEOREM TypeCorrect == Spec => []TypeOK
<1>1. IInv => TypeOK
  BY IInvType
<1> QED
  BY <1>1, Invariance, PTL
\* What MerkleRootOfWrites says of a state.
LEMMA MerkleState ==
  ASSUME IInv, NEW n \in LiveNodes, delta[n].finalized, ~IsRoot(n)
  PROVE  MerkleRoot(delta[n]) = EntriesOf(delta[n])
  BY DEF IInv, MerkleCached, MerkleRoot, IsRoot

\* No step changes the merkle root of a finalized node that stays.
LEMMA MerkleStep ==
  ASSUME ConstantsAssumption, IInv, [Next]_vars,
         NEW n \in LiveNodes, delta[n].finalized, n \in LiveNodes'
  PROVE  MerkleRoot(delta'[n]) = MerkleRoot(delta[n])
<1>0. n \in DOMAIN delta /\ n \in DOMAIN delta' /\ n \in Nodes /\ delta[n] \in Delta
  BY DEF LiveNodes, IInv, TreeOK
<1>1. ASSUME NEW u \in Nodes \cup Handles, NEW k \in Keys, NEW v \in Values, Put(u, k, v)
      PROVE  delta'[n] = delta[n]
  <2>1. StateOf(u) # n
    BY <1>1 DEF Put
  <2> QED
    BY <1>0, <1>1, <2>1, PutInv
<1>2. ASSUME NEW u \in Nodes \cup Handles, NEW k \in Keys, Remove(u, k)
      PROVE  delta'[n] = delta[n]
  <2>1. StateOf(u) # n
    BY <1>2 DEF Remove
  <2> QED
    BY <1>0, <1>2, <2>1, RemoveInv
<1>3. ASSUME NEW p \in Nodes, NEW m \in Nodes, CreateNode(p, m)
      PROVE  delta'[n] = delta[n]
  BY <1>0, <1>3, CreateNodeInv
<1>4. ASSUME NEW m \in Nodes, NEW x \in Nodes, CloneNode(m, x)
      PROVE  delta'[n] = delta[n]
  BY <1>0, <1>4, CloneNodeInv
<1>5. ASSUME NEW m \in Nodes, Finalize(m)
      PROVE  MerkleRoot(delta'[n]) = MerkleRoot(delta[n])
  <2>1. CASE m # n
    BY <1>0, <1>5, <2>1, FinalizeInv
  <2>2. CASE m = n
    <3>1. delta'[n] = [delta[n] EXCEPT !.finalized = TRUE]
      BY <1>5, <2>2, FinalizeInv
    <3>2. /\ delta'[n].merkle = delta[n].merkle
          /\ delta'[n].store = delta[n].store
          /\ delta'[n].removed = delta[n].removed
      BY <1>0, <3>1 DEF Delta
    <3> QED
      BY <3>2 DEF MerkleRoot, EntriesOf
  <2> QED
    BY <2>1, <2>2
<1>6. ASSUME NEW m \in Nodes, AskMerkleRoot(m)
      PROVE  MerkleRoot(delta'[n]) = MerkleRoot(delta[n])
  <2>1. CASE m # n
    BY <1>0, <1>6, <2>1, AskInv
  <2>2. CASE m = n
    <3>1. delta'[n] = [delta[n] EXCEPT !.merkle = MerkleRoot(delta[n])]
      BY <1>6, <2>2, AskInv
    <3>2. delta'[n].merkle = MerkleRoot(delta[n])
      BY <1>0, <3>1 DEF Delta
    <3>3. MerkleRoot(delta[n]) # Unset
      BY <1>0, EntriesType
    <3> QED
      BY <3>2, <3>3 DEF MerkleRoot
  <2> QED
    BY <2>1, <2>2
<1>7. ASSUME NEW m \in Nodes, Discard(m)
      PROVE  delta'[n] = delta[n]
  BY <1>0, <1>7, DiscardInv
<1>8. ASSUME NEW m \in Nodes, Commit(m)
      PROVE  MerkleRoot(delta'[n]) = MerkleRoot(delta[n])
  <2>1. CASE m # n
    BY <1>0, <1>8, <2>1, CommitInv
  <2>2. CASE m = n
    <3>1. delta'[n].merkle = MerkleRoot(delta[n])
      BY <1>8, <2>2, CommitInv
    <3>2. MerkleRoot(delta[n]) # Unset
      BY <1>0, EntriesType
    <3> QED
      BY <3>1, <3>2 DEF MerkleRoot
  <2> QED
    BY <2>1, <2>2
<1>9. ASSUME NEW a \in Handles, NEW u \in Nodes \cup Handles, NEW d \in Drafts,
             CreateAnonymous(a, u, d)
      PROVE  delta'[n] = delta[n]
  BY <1>0, <1>9, CreateAnonymousInv
<1>10. ASSUME NEW a \in Handles, NEW d \in Drafts, CommitAnonymous(a, d)
       PROVE  delta'[n] = delta[n]
  <2>1. /\ a \in DOMAIN anon
        /\ ~delta[StateOf(anon[a].parent)].finalized
        /\ \A e \in DOMAIN delta : e # delta[anon[a].state].parent => delta'[e] = delta[e]
    BY <1>10, CommitAnonymousInv
  <2>2. delta[anon[a].state].parent # n
    BY <1>0, <2>1, FreshAbove DEF IInv, FreshOverParent
  <2> QED
    BY <1>0, <2>1, <2>2
<1>11. ASSUME NEW a \in Handles, NEW d \in Drafts, ResetAnonymous(a, d)
       PROVE  delta'[n] = delta[n]
  BY <1>0, <1>11, ResetAnonymousInv
<1>12. ASSUME NEW a \in Handles, DropAnonymous(a)
       PROVE  delta'[n] = delta[n]
  BY <1>0, <1>12, DropAnonymousInv
<1>13. CASE UNCHANGED vars
  BY <1>13 DEF vars
<1> QED
  BY <1>1, <1>2, <1>3, <1>4, <1>5, <1>6, <1>7, <1>8, <1>9, <1>10, <1>11, <1>12, <1>13 DEF Next

\* The merkle root of a finalized node is that of its writes, also when it is
\* first asked by the commit that gives the node the contents of the root, and
\* no step changes it.
THEOREM MerkleSafe == Spec => MerkleRootOfWrites
<1> DEFINE P == \A n \in LiveNodes :
                  delta[n].finalized /\ ~IsRoot(n) => MerkleRoot(delta[n]) = EntriesOf(delta[n])
           A == \A n \in LiveNodes :
                  delta[n].finalized /\ n \in LiveNodes' => MerkleRoot(delta'[n]) = MerkleRoot(delta[n])
<1>1. IInv => P
  BY MerkleState
<1>2. IInv /\ [Next]_vars => [A]_vars
  BY MerkleStep, ConstantsAssumption
<1> HIDE DEF P, A
<1>3. Spec => []P /\ [][A]_vars
  BY <1>1, <1>2, Invariance, PTL DEF Spec
<1> QED
  BY <1>3 DEF MerkleRootOfWrites, P, A

LEMMA ReadStep ==
  ASSUME ConstantsAssumption, IInv, NEW u \in Users, NEW k \in Keys
  PROVE  /\ Remove(u, k) => Find(delta, StateOf(u), k)' = Absent
         /\ \A v \in Values : Put(u, k, v) => Find(delta, StateOf(u), k)' = v
<1>1. u \in Nodes \cup Handles /\ StateOf(u) \in DOMAIN delta
  BY UserType DEF IInv, AnonOK, Users, LiveNodes
<1>2. delta[StateOf(u)] \in Delta /\ delta[StateOf(u)].store \in Store
  BY <1>1 DEF IInv, TreeOK, Delta
<1>3. ASSUME Remove(u, k)
      PROVE  Find(delta, StateOf(u), k)' = Absent
  <2>1. StateOf(u)' = StateOf(u)
    BY <1>3 DEF Remove, StateOf
  <2>2. /\ TreeOK(delta')
        /\ StateOf(u) \in DOMAIN delta'
        /\ delta'[StateOf(u)] = EraseFrom(delta[StateOf(u)], k)
    BY <1>1, <1>3, RemoveInv DEF IInv
  <2>3. delta'[StateOf(u)].store[k] = Absent /\ k \in delta'[StateOf(u)].removed
    BY <1>2, <2>2, ErasedKey
  <2>4. Find(delta', StateOf(u), k) = Absent
    BY <2>2, <2>3, FindUnfold
  <2> QED
    BY <2>1, <2>4
<1>4. ASSUME NEW v \in Values, Put(u, k, v)
      PROVE  Find(delta, StateOf(u), k)' = v
  <2>1. StateOf(u)' = StateOf(u)
    BY <1>4 DEF Put, StateOf
  <2>2. /\ TreeOK(delta')
        /\ StateOf(u) \in DOMAIN delta'
        /\ delta'[StateOf(u)] = PutInto(delta[StateOf(u)], k, v)
    BY <1>1, <1>4, PutInv DEF IInv
  <2>3. delta'[StateOf(u)].store[k] = v /\ v # Absent
    BY <1>2, <2>2, WrittenKey, ConstantsAssumption
  <2>4. Find(delta', StateOf(u), k) = v
    BY <2>2, <2>3, FindUnfold
  <2> QED
    BY <2>1, <2>4
<1> QED
  BY <1>3, <1>4

\* A writer reads what it wrote, over whatever chain of deltas it lies.
THEOREM WritesAreRead == Spec => ReadYourWrites
<1> DEFINE A == \A u \in Users, k \in Keys :
                  /\ Remove(u, k) => Find(delta, StateOf(u), k)' = Absent
                  /\ \A v \in Values : Put(u, k, v) => Find(delta, StateOf(u), k)' = v
<1>1. IInv /\ [Next]_vars => [A]_vars
  BY ReadStep, ConstantsAssumption
<1> HIDE DEF A
<1>2. Spec => [][A]_vars
  BY <1>1, Invariance, PTL DEF Spec
<1> QED
  BY <1>2 DEF ReadYourWrites, A

LEMMA SquashStep ==
  ASSUME ConstantsAssumption, IInv, NEW a \in DOMAIN anon, NEW d \in Drafts,
         CommitAnonymous(a, d),
         delta'[delta[anon[a].state].parent].parent # Nil,
         NEW k \in Keys, Modified(anon[a].state, k)
  PROVE  (delta'[delta[anon[a].state].parent].store[k] # Absent)
           # (k \in delta'[delta[anon[a].state].parent].removed)
<1> DEFINE s == anon[a].state
           p == delta[s].parent
<1>1. a \in Handles
  BY DEF IInv, AnonOK
<1>2. p \in DOMAIN delta /\ delta'[p] = SquashInto(delta[p], delta[s])
  BY <1>1, CommitAnonymousInv
<1>3. delta[p] \in Delta /\ delta[s] \in Delta
  BY <1>2, AnonType DEF IInv, TreeOK
<1>4. delta[s].store[k] # Absent \/ k \in delta[s].removed
  BY DEF Modified
<1> HIDE DEF p, s
<1> QED
  BY <1>2, <1>3, <1>4, SquashEntry DEF p, s

\* A commit of an anonymous node leaves its parent with an object or a removal
\* for a key it touched, never with both.
THEOREM SquashSafe == Spec => SquashLeavesOneEntry
<1> DEFINE A == \A a \in DOMAIN anon, d \in Drafts : CommitAnonymous(a, d) =>
                  LET s == anon[a].state
                      p == delta'[delta[s].parent]
                  IN  p.parent # Nil =>
                        \A k \in Keys : Modified(s, k) => (p.store[k] # Absent) # (k \in p.removed)
<1>1. IInv /\ [Next]_vars => [A]_vars
  BY SquashStep, ConstantsAssumption
<1> HIDE DEF A
<1>2. Spec => [][A]_vars
  BY <1>1, Invariance, PTL DEF Spec
<1> QED
  BY <1>2 DEF SquashLeavesOneEntry, A
=============================================================================
