------------------------ MODULE CarefulClient_proofs ------------------------
(***************************************************************************)
(* Proofs about CarefulClient, for every set of ids and headers, every     *)
(* bound and every fork resolution algorithm.                              *)
(***************************************************************************)
EXTENDS CarefulClient, ForkDatabase_proofs, Induction

-----------------------------------------------------------------------------
(* Subtrees of a tree with one root *)

\* The parent of a node below x is x or below x.
LEMMA SubtreeParent ==
  ASSUME NEW f, NEW x \in DOMAIN f, NEW m \in Subtree(f, x), m # x
  PROVE  f[m].parent \in Subtree(f, x)
<1> DEFINE S == Subtree(f, x) \ {m}
<1> SUFFICES ASSUME f[m].parent \notin Subtree(f, x) PROVE FALSE
  OBVIOUS
<1>1. /\ x \in Subtree(f, x) /\ Subtree(f, x) \subseteq DOMAIN f
      /\ ChildClosed(f, Subtree(f, x))
  BY SubtreeClosed
<1>2. S \in SUBSET DOMAIN f /\ x \in S
  BY <1>1
<1>3. ChildClosed(f, S)
  BY <1>1 DEF ChildClosed
<1> HIDE DEF S
<1>4. Subtree(f, x) \subseteq S
  BY <1>2, <1>3, SubtreeLeast
<1> QED
  BY <1>4 DEF S

\* What is below a node below x is below x.
LEMMA SubtreeBelow ==
  ASSUME NEW f, NEW x \in DOMAIN f, NEW m \in Subtree(f, x)
  PROVE  Subtree(f, m) \subseteq Subtree(f, x)
<1>1. /\ Subtree(f, x) \in SUBSET DOMAIN f
      /\ ChildClosed(f, Subtree(f, x))
      /\ m \in DOMAIN f
  BY SubtreeClosed
<1> QED
  BY <1>1, SubtreeLeast

LEMMA RootReach ==
  ASSUME NEW f, TreeOK(f), NEW r, Roots(f) = {r}
  PROVE  r \in DOMAIN f /\ Subtree(f, r) = DOMAIN f
<1>1. r \in DOMAIN f
  BY DEF Roots
<1>2. /\ r \in Subtree(f, r) /\ Subtree(f, r) \subseteq DOMAIN f
      /\ ChildClosed(f, Subtree(f, r))
  BY <1>1, SubtreeClosed
<1> QED
  BY <1>1, <1>2 DEF TreeOK, RootsReach

\* When n is made a root, its subtree is what the old root no longer reaches.
LEMMA DetachSplits ==
  ASSUME ConstantsAssumption, NEW f, TreeOK(f), NEW r, Roots(f) = {r},
         NEW n \in DOMAIN f, n # r
  PROVE  Subtree(Detach(f, n), r) = DOMAIN f \ Subtree(f, n)
<1> DEFINE g == Detach(f, n)
           D == Subtree(g, r)
           N == Subtree(f, n)
<1>1. /\ DOMAIN g = DOMAIN f /\ g[n].parent = Nil
      /\ \A m \in DOMAIN f : m # n => g[m] = f[m]
  BY DEF Detach, TreeOK, Node
<1>2. r \in Roots(f) /\ r \in DOMAIN f /\ DOMAIN f \subseteq Ids
  BY DEF Roots, TreeOK
<1>3. /\ n \in N /\ N \subseteq DOMAIN f /\ ChildClosed(f, N)
  BY SubtreeClosed
<1>4. /\ r \in D /\ D \subseteq DOMAIN f /\ ChildClosed(g, D)
  <2> HIDE DEF g
  <2> QED
    BY <1>1, <1>2, SubtreeClosed
<1>5. r \notin N
  BY <1>2, RootOutside
<1>6. D \subseteq DOMAIN f \ N
  <2> DEFINE S == DOMAIN f \ N
  <2>1. S \in SUBSET DOMAIN g /\ r \in S
    BY <1>1, <1>2, <1>5
  <2>2. ASSUME NEW m \in DOMAIN g, g[m].parent \in S
        PROVE  m \in S
    <3>1. Nil \notin S
      BY <1>2 DEF ConstantsAssumption
    <3>2. m # n /\ m \in DOMAIN f /\ f[m].parent \notin N
      BY <1>1, <2>2, <3>1
    <3> QED
      BY <3>2, SubtreeParent
  <2>3. ChildClosed(g, S)
    BY <2>2 DEF ChildClosed
  <2> HIDE DEF g, S
  <2>4. r \in DOMAIN g
    BY <1>1, <1>2
  <2>5. Subtree(g, r) \subseteq S
    BY <2>1, <2>3, <2>4, SubtreeLeast
  <2> QED
    BY <2>5 DEF S
<1>7. DOMAIN f \subseteq D \cup N
  <2> HIDE DEF g, D, N
  <2>1. ChildClosed(f, D \cup N)
    BY <1>1, <1>3, <1>4 DEF ChildClosed
  <2>2. D \cup N \in SUBSET DOMAIN f /\ Roots(f) \subseteq D \cup N
    BY <1>3, <1>4
  <2> QED
    BY <2>1, <2>2 DEF TreeOK, RootsReach
<1> QED
  BY <1>6, <1>7

-----------------------------------------------------------------------------
(* The inductive invariant *)

OneRoot == open => lost = {} /\ Roots(index) = {root}

\* The all-zero id is that of a root that was never committed to.
GenesisAtZero ==
  /\ Genesis \in DOMAIN index => index[Genesis].revision = 0
  /\ persisted.id = Genesis => persisted.revision = 0

\* The invariant of ForkDatabase, and what a careful caller adds.
CInv ==
  /\ IInv
  /\ OneRoot
  /\ GenesisAtZero
  /\ ForkHeadsAreTips
  /\ LeafIsForkHead

LEMMA CarefulIsNext == CarefulNext => Next
  BY DEF CarefulNext, Next, FinalizeOnce, DiscardFork, CommitAncestor

\* What is known of an open database.
LEMMA OpenFacts ==
  ASSUME CInv, open
  PROVE  /\ TreeOK(index) /\ DOMAIN index \subseteq Ids
         /\ index \in [DOMAIN index -> Node]
         /\ Roots(index) = {root} /\ root \in DOMAIN index /\ root \in Roots(index)
         /\ lost = {}
         /\ Subtree(index, root) = DOMAIN index
         /\ head \in DOMAIN index /\ index[head].finalized /\ head \in forkHeads
         /\ \A n \in forkHeads : n \in DOMAIN index /\ index[n].finalized
<1>1. TreeOK(index) /\ Roots(index) = {root} /\ lost = {}
  BY DEF CInv, IInv, OneRoot
<1> QED
  BY <1>1, RootReach DEF CInv, IInv, TreeOK, HeadIsForkHead, ForkHeadsLive

\* Only a finalized node has children.
LEMMA WritableIsLeaf ==
  ASSUME ConstantsAssumption, NEW f, TreeOK(f), NEW m \in DOMAIN f, NEW n \in DOMAIN f,
         f[m].parent = n
  PROVE  f[n].finalized /\ m # n /\ f[m].revision = f[n].revision + 1
<1>1. n # Nil
  BY DEF TreeOK, ConstantsAssumption
<1>2. f[n].finalized /\ f[m].revision = f[n].revision + 1 /\ f[n].revision \in Nat
  BY <1>1 DEF TreeOK, ParentsOK, Node
<1> QED
  BY <1>2

LEMMA ClosedCareful ==
  ASSUME ConstantsAssumption, IInv', ~open',
         persisted'.id = Genesis => persisted'.revision = 0
  PROVE  CInv'
<1>1. DOMAIN index' = {} /\ forkHeads' = {}
  BY DEF IInv, TypeOK
<1> QED
  BY <1>1 DEF CInv, OneRoot, GenesisAtZero, ForkHeadsAreTips, LeafIsForkHead

LEMMA OpenAtCareful ==
  ASSUME ConstantsAssumption, NEW m \in Metadata, OpenAt(m), IInv',
         m.id = Genesis => m.revision = 0
  PROVE  CInv'
<1>1. /\ DOMAIN index' = {m.id}
      /\ index'[m.id].parent = Nil /\ index'[m.id].revision = m.revision
      /\ index'[m.id].finalized
      /\ root' = m.id /\ lost' = {} /\ forkHeads' = {m.id} /\ persisted' = m
      /\ m.id # Nil
  BY DEF OpenAt, Metadata, ConstantsAssumption
<1>2. OneRoot'
  BY <1>1 DEF OneRoot, Roots
<1>3. GenesisAtZero'
  BY <1>1 DEF GenesisAtZero
<1>4. ForkHeadsAreTips' /\ LeafIsForkHead'
  BY <1>1 DEF ForkHeadsAreTips, LeafIsForkHead, Children, FinalizedChildren
<1> QED
  BY <1>2, <1>3, <1>4 DEF CInv

\* create_writable_node and clone_node: a new writable node.
LEMMA AddCareful ==
  ASSUME ConstantsAssumption, CInv, IInv', open, NEW n \in NewIds \ DOMAIN index,
         NEW a \in Node, ~a.finalized, a.parent \in DOMAIN index, index[a.parent].finalized,
         a.revision = index[a.parent].revision + 1,
         index' = [m \in DOMAIN index \cup {n} |-> IF m = n THEN a ELSE index[m]],
         UNCHANGED <<open, root, head, forkHeads, lost, persisted>>
  PROVE  CInv'
<1>1. /\ TreeOK(index) /\ Roots(index) = {root} /\ lost = {}
      /\ n \in Ids \ DOMAIN index /\ n # Genesis
  BY OpenFacts DEF NewIds
<1>2. /\ DOMAIN index' = DOMAIN index \cup {n}
      /\ Roots(index') = Roots(index)
      /\ \A m \in DOMAIN index : index'[m] = index[m]
      /\ index'[n] = a
  <2> DEFINE g == index'
  <2>1. g = [m \in DOMAIN index \cup {n} |-> IF m = n THEN a ELSE index[m]]
    OBVIOUS
  <2> HIDE DEF g
  <2>2. /\ DOMAIN g = DOMAIN index \cup {n}
        /\ Roots(g) = Roots(index)
        /\ \A m \in DOMAIN index : g[m] = index[m]
        /\ g[n] = a
    BY <1>1, <2>1, AddKeepsTree
  <2> QED
    BY <2>2 DEF g
<1>3. OneRoot'
  BY <1>1, <1>2 DEF OneRoot
<1>4. GenesisAtZero'
  BY <1>1, <1>2 DEF CInv, GenesisAtZero
<1>5. ForkHeadsAreTips'
  BY <1>2 DEF CInv, ForkHeadsAreTips, Children, FinalizedChildren
<1>6. LeafIsForkHead'
  BY <1>2 DEF CInv, LeafIsForkHead, Children
<1> QED
  BY <1>3, <1>4, <1>5, <1>6 DEF CInv

LEMMA CreateCareful ==
  ASSUME ConstantsAssumption, CInv, IInv', NEW p \in Ids, NEW n \in NewIds, NEW h \in Headers,
         CreateWritableNode(p, n, h)
  PROVE  CInv'
<1> DEFINE a == MakeChild(p, h)
<1>1. /\ open /\ p \in DOMAIN index /\ index[p].finalized /\ n \in NewIds \ DOMAIN index
      /\ index' = [m \in DOMAIN index \cup {n} |-> IF m = n THEN a ELSE index[m]]
      /\ UNCHANGED <<open, root, head, forkHeads, lost, persisted>>
  BY DEF CreateWritableNode
<1>2. /\ a \in Node /\ a.parent = p /\ a.revision = index[p].revision + 1 /\ ~a.finalized
  BY <1>1, OpenFacts DEF MakeChild, Node, Header, ConstantsAssumption
<1> HIDE DEF a
<1> QED
  BY <1>1, <1>2, AddCareful

LEMMA CloneCareful ==
  ASSUME ConstantsAssumption, CInv, IInv', NEW k \in Ids, NEW n \in NewIds, NEW h \in Headers,
         CloneNode(k, n, h)
  PROVE  CInv'
<1> DEFINE a == [index[k] EXCEPT !.header = h]
<1>1. /\ open /\ k \in DOMAIN index /\ index[k].parent # Nil /\ ~index[k].finalized
      /\ n \in NewIds \ DOMAIN index
      /\ index' = [m \in DOMAIN index \cup {n} |-> IF m = n THEN a ELSE index[m]]
      /\ UNCHANGED <<open, root, head, forkHeads, lost, persisted>>
  BY DEF CloneNode
<1>2. TreeOK(index) /\ index[k] \in Node
  BY <1>1, OpenFacts
<1>3. /\ a \in Node /\ a.parent = index[k].parent /\ a.revision = index[k].revision
      /\ ~a.finalized
  BY <1>1, <1>2 DEF Node, Header, ConstantsAssumption
<1>4. /\ a.parent \in DOMAIN index
      /\ index[a.parent].finalized
      /\ a.revision = index[a.parent].revision + 1
  BY <1>1, <1>2, <1>3 DEF TreeOK, ParentsOK
<1> HIDE DEF a
<1> QED
  BY <1>1, <1>3, <1>4, AddCareful
-----------------------------------------------------------------------------
(* Finalizing *)

\* With fifo and block_time the node takes the place of its parent.
LEMMA FinalizeForks ==
  ASSUME ConstantsAssumption, CInv, NEW n \in Ids, FinalizeOnce(n), Algorithm # "pob"
  PROVE  forkHeads' = (forkHeads \ {index[n].parent}) \cup {n}
<1>1. open /\ n \in DOMAIN index /\ FinalizeHead(n)
  BY DEF FinalizeOnce, FinalizeNode
<1>2. /\ head \in DOMAIN index /\ head # Nil /\ n # Nil
      /\ index[n].revision \in Nat /\ index[head].revision \in Nat
  BY <1>1, OpenFacts DEF Node, ConstantsAssumption
<1>3. index[n].parent # n
  BY <1>1, WritableIsLeaf, OpenFacts
<1>4. index[n].parent = head => index[n].revision = index[head].revision + 1
  BY <1>1, <1>2, WritableIsLeaf, OpenFacts
<1>5. CASE Higher(n)
  BY <1>3, <1>5 DEF Higher, Supersede
<1>6. CASE Lower(n)
  BY <1>2, <1>4, <1>6 DEF Lower, Supersede
<1>7. CASE Tie(n)
  <2>1. \A c \in Comparator(n) : c \in {n, head}
    BY DEF Comparator, Earlier, ConstantsAssumption
  <2>2. \A c \in {n, head} : Supersede(forkHeads, n, c) = (forkHeads \ {index[n].parent}) \cup {n}
    BY <1>2, <1>3, <1>4, <1>7 DEF Tie, Supersede
  <2> QED
    BY <1>2, <1>7, <2>1, <2>2 DEF Tie
<1> QED
  BY <1>1, <1>5, <1>6, <1>7 DEF FinalizeHead

LEMMA FinalizeCareful ==
  ASSUME ConstantsAssumption, CInv, IInv', NEW n \in Ids, FinalizeOnce(n)
  PROVE  CInv'
<1>1. /\ open /\ n \in DOMAIN index /\ ~index[n].finalized
      /\ index' = [index EXCEPT ![n].finalized = TRUE]
      /\ UNCHANGED <<open, root, lost, persisted>>
  BY DEF FinalizeOnce, FinalizeNode
<1>2. TreeOK(index) /\ Roots(index) = {root} /\ lost = {} /\ index \in [DOMAIN index -> Node]
  BY <1>1, OpenFacts
<1>3. /\ DOMAIN index' = DOMAIN index
      /\ index'[n].finalized
      /\ \A m \in DOMAIN index : /\ index'[m].parent = index[m].parent
                                 /\ index'[m].revision = index[m].revision
                                 /\ m # n => index'[m] = index[m]
  BY <1>1, <1>2 DEF Node
<1>4. OneRoot'
  BY <1>1, <1>2, <1>3 DEF OneRoot, Roots
<1>5. GenesisAtZero'
  BY <1>1, <1>3 DEF CInv, GenesisAtZero
<1>6. \A m \in DOMAIN index : index[m].parent # n
  BY <1>1, <1>2, WritableIsLeaf
<1>7. ASSUME Algorithm # "pob"
      PROVE  forkHeads' = (forkHeads \ {index[n].parent}) \cup {n}
  BY <1>7, FinalizeForks
<1>8. ForkHeadsAreTips'
  <2> SUFFICES ASSUME Algorithm # "pob", NEW m \in forkHeads', NEW k \in DOMAIN index',
                      index'[k].parent = m, index'[k].finalized
               PROVE  FALSE
    BY DEF ForkHeadsAreTips, Children, FinalizedChildren
  <2>1. m # n /\ m \in forkHeads /\ m # index[n].parent
    BY <1>3, <1>6, <1>7
  <2>2. k # n /\ k \in DOMAIN index /\ index[k].parent = m /\ index[k].finalized
    BY <1>3, <2>1
  <2> QED
    BY <2>1, <2>2 DEF CInv, ForkHeadsAreTips, Children, FinalizedChildren
<1>9. LeafIsForkHead'
  <2> SUFFICES ASSUME Algorithm # "pob", NEW m \in DOMAIN index', index'[m].finalized,
                      \A k \in DOMAIN index' : index'[k].parent # m, m # n
               PROVE  m \in forkHeads'
    BY <1>7 DEF LeafIsForkHead, Children
  <2>1. m \in DOMAIN index /\ index[m].finalized /\ \A k \in DOMAIN index : index[k].parent # m
    BY <1>3
  <2>2. m \in forkHeads
    BY <2>1 DEF CInv, LeafIsForkHead, Children
  <2> QED
    BY <1>1, <1>7, <2>1, <2>2
<1> QED
  BY <1>4, <1>5, <1>8, <1>9 DEF CInv

-----------------------------------------------------------------------------
(* Discards and commits *)

\* A fork goes; what is left is the tree without it.
LEMMA DiscardCareful ==
  ASSUME ConstantsAssumption, CInv, IInv', NEW x \in Ids, DiscardFork(x)
  PROVE  CInv'
<1> DEFINE T == Subtree(index, x)
           p == index[x].parent
<1>1. /\ open /\ x \in DOMAIN index /\ x # root /\ head \notin T
      /\ index' = Remove(index, T)
      /\ forkHeads' = ForkHeadsAfterDiscard(index, T, p)
      /\ lost' = lost \ T
      /\ UNCHANGED <<open, root, head, persisted>>
  BY DEF DiscardFork, OnHeadPath, DiscardNode, DiscardLockless
<1>2. /\ TreeOK(index) /\ Roots(index) = {root} /\ root \in Roots(index) /\ lost = {}
      /\ DOMAIN index \subseteq Ids
  BY <1>1, OpenFacts
<1>3. x \in T /\ T \subseteq DOMAIN index /\ ChildClosed(index, T)
  BY <1>1, SubtreeClosed
<1>4. root \in DOMAIN index \ T
  BY <1>1, <1>2, RootOutside
<1>5. /\ DOMAIN index' = DOMAIN index \ T
      /\ \A m \in DOMAIN index \ T : index'[m] = index[m]
  BY <1>1 DEF Remove
<1>6. \A m \in T : m # x => index[m].parent \in T
  BY <1>1, SubtreeParent
<1>7. forkHeads' = (forkHeads \ T)
                     \cup (IF \E m \in DOMAIN index \ T : index[m].parent = p THEN {} ELSE {p})
  BY <1>1 DEF ForkHeadsAfterDiscard
<1> HIDE DEF T
<1>8. OneRoot'
  BY <1>1, <1>2, <1>4, <1>5 DEF OneRoot, Roots
<1>9. GenesisAtZero'
  BY <1>1, <1>5 DEF CInv, GenesisAtZero
<1>10. ForkHeadsAreTips'
  BY <1>5, <1>7 DEF CInv, ForkHeadsAreTips, Children, FinalizedChildren
<1>11. LeafIsForkHead'
  <2> SUFFICES ASSUME Algorithm # "pob", NEW m \in DOMAIN index \ T, index[m].finalized,
                      \A k \in DOMAIN index \ T : index[k].parent # m
               PROVE  m \in forkHeads'
    BY <1>5 DEF LeafIsForkHead, Children
  <2>1. CASE \A k \in DOMAIN index : index[k].parent # m
    BY <1>7, <2>1 DEF CInv, LeafIsForkHead, Children
  <2>2. CASE \E k \in DOMAIN index : index[k].parent = m
    <3>1. p = m
      BY <1>6, <2>2
    <3> QED
      BY <1>7, <3>1
  <2> QED
    BY <2>1, <2>2
<1> QED
  BY <1>8, <1>9, <1>10, <1>11 DEF CInv

\* What a commit of an ancestor of the head does: its subtree stays, under a
\* root of its own, and the rest goes.
LEMMA CommitResult ==
  ASSUME ConstantsAssumption, CInv, NEW n \in Ids, CommitAncestor(n)
  PROVE  /\ open /\ open' /\ n \in DOMAIN index /\ n # root /\ root' = n /\ head' = head
         /\ DOMAIN index' = Subtree(index, n)
         /\ index'[n].parent = Nil
         /\ \A m \in Subtree(index, n) : m # n => index'[m] = index[m]
         /\ \A m \in Subtree(index, n) : /\ index'[m].revision = index[m].revision
                                         /\ index'[m].finalized = index[m].finalized
         /\ lost' = {}
         /\ forkHeads' = forkHeads \cap Subtree(index, n)
         /\ persisted'.id = n /\ persisted'.revision = index[n].revision
<1> DEFINE g == Detach(index, n)
           N == Subtree(index, n)
           D == Subtree(g, root)
<1>1. /\ open /\ n \in DOMAIN index /\ n # root /\ head \in N /\ CommitNode(n)
  BY DEF CommitAncestor, OnHeadPath, CommitNode
<1>2. /\ TreeOK(index) /\ Roots(index) = {root} /\ lost = {} /\ root \in DOMAIN index
      /\ index \in [DOMAIN index -> Node] /\ forkHeads \subseteq DOMAIN index
      /\ root \in Roots(index)
  BY <1>1, OpenFacts
<1>3. index[n].parent # Nil
  BY <1>1, <1>2 DEF Roots
<1>4. CommitDelta(n, root)
  BY <1>1, <1>2, <1>3 DEF CommitNode, CommitDetached
<1>5. D = DOMAIN index \ N
  BY <1>1, <1>2, DetachSplits
<1>6. n \in N /\ N \subseteq DOMAIN index
  BY <1>1, SubtreeClosed
<1>7. /\ DOMAIN g = DOMAIN index /\ g[n].parent = Nil
      /\ \A m \in DOMAIN index : /\ m # n => g[m] = index[m]
                                 /\ g[m].revision = index[m].revision
                                 /\ g[m].finalized = index[m].finalized
  BY <1>2, <1>6 DEF Detach, Node
<1>8. g[root].parent = Nil
  BY <1>1, <1>2, <1>7 DEF Roots
<1>9. /\ root' = n /\ UNCHANGED <<open, head>> /\ persisted' = CommitMetadata(n)
      /\ DiscardLockless(g, root, {root})
  BY <1>2, <1>4 DEF CommitDelta
<1>10. /\ index' = Remove(g, D)
       /\ forkHeads' = ForkHeadsAfterDiscard(g, D, g[root].parent)
       /\ lost' = {root} \ D
  BY <1>1, <1>5, <1>9 DEF DiscardLockless
<1>11. root \notin N
  BY <1>1, <1>2, RootOutside DEF TreeOK
<1>12. /\ DOMAIN index' = N
       /\ \A m \in N : index'[m] = g[m]
  <2> HIDE DEF g, D, N
  <2> QED
    BY <1>5, <1>6, <1>7, <1>10 DEF Remove
<1>13. forkHeads' = forkHeads \cap N
  <2>1. \E m \in DOMAIN g \ D : g[m].parent = g[root].parent
    BY <1>5, <1>6, <1>7, <1>8
  <2> HIDE DEF g, D, N
  <2> QED
    BY <1>2, <1>5, <1>10, <2>1 DEF ForkHeadsAfterDiscard
<1>14. lost' = {}
  BY <1>2, <1>5, <1>10, <1>11
<1>15. persisted'.id = n /\ persisted'.revision = index[n].revision
  BY <1>9 DEF CommitMetadata
<1> HIDE DEF g, N, D
<1>16. /\ index'[n].parent = Nil
       /\ \A m \in N : /\ m # n => index'[m] = index[m]
                       /\ index'[m].revision = index[m].revision
                       /\ index'[m].finalized = index[m].finalized
  BY <1>6, <1>7, <1>12
<1> QED
  BY <1>1, <1>9, <1>12, <1>13, <1>14, <1>15, <1>16 DEF N

LEMMA CommitCareful ==
  ASSUME ConstantsAssumption, CInv, IInv', NEW n \in Ids, CommitAncestor(n)
  PROVE  CInv'
<1> DEFINE N == Subtree(index, n)
<1>1. /\ open /\ open' /\ n \in DOMAIN index /\ n # root /\ root' = n
      /\ DOMAIN index' = N
      /\ index'[n].parent = Nil
      /\ \A m \in N : m # n => index'[m] = index[m]
      /\ \A m \in N : /\ index'[m].revision = index[m].revision
                      /\ index'[m].finalized = index[m].finalized
      /\ lost' = {}
      /\ forkHeads' = forkHeads \cap N
      /\ persisted'.id = n /\ persisted'.revision = index[n].revision
  BY CommitResult
<1>2. /\ TreeOK(index) /\ Roots(index) = {root} /\ DOMAIN index \subseteq Ids
  BY <1>1, OpenFacts
<1>3. n \in N /\ N \subseteq DOMAIN index /\ ChildClosed(index, N)
  BY <1>1, SubtreeClosed
<1>4. root \notin N
  BY <1>1, <1>2, RootOutside
<1>5. \A m \in N : index'[m].parent = Nil => m = n
  BY <1>1, <1>2, <1>3, <1>4 DEF Roots
<1> HIDE DEF N
<1>6. OneRoot'
  BY <1>1, <1>3, <1>5 DEF OneRoot, Roots
<1>7. GenesisAtZero'
  BY <1>1, <1>3 DEF CInv, GenesisAtZero
<1>8. \A m, k \in N : index'[k].parent = m => index[k].parent = m
  BY <1>1, <1>2, <1>3 DEF ConstantsAssumption
<1>9. ForkHeadsAreTips'
  BY <1>1, <1>3, <1>8 DEF CInv, ForkHeadsAreTips, Children, FinalizedChildren
<1>10. LeafIsForkHead'
  <2> SUFFICES ASSUME Algorithm # "pob", NEW m \in N, index'[m].finalized,
                      \A k \in N : index'[k].parent # m
               PROVE  m \in forkHeads'
    BY <1>1 DEF LeafIsForkHead, Children
  <2>1. index[n].parent \notin N
    <3>1. CASE index[n].parent = Nil
      BY <1>2, <1>3, <3>1 DEF ConstantsAssumption
    <3>2. CASE index[n].parent # Nil
      BY <1>1, <1>2, <3>2, ParentOutside DEF N
    <3> QED
      BY <3>1, <3>2
  <2>2. \A k \in DOMAIN index : index[k].parent # m
    BY <1>1, <1>3, <2>1 DEF ChildClosed
  <2>3. index[m].finalized /\ m \in DOMAIN index
    BY <1>1, <1>3
  <2> QED
    BY <1>1, <2>2, <2>3 DEF CInv, LeafIsForkHead, Children
<1> QED
  BY <1>6, <1>7, <1>9, <1>10 DEF CInv
-----------------------------------------------------------------------------
(* The invariant is inductive *)

LEMMA CInitInv == ASSUME ConstantsAssumption, Init PROVE CInv
<1>1. IInv
  BY InitInv
<1>2. ~open /\ DOMAIN index = {} /\ forkHeads = {} /\ persisted.revision = 0
  BY DEF Init, EmptyIndex, GenesisMetadata
<1> QED
  BY <1>1, <1>2 DEF CInv, OneRoot, GenesisAtZero, ForkHeadsAreTips, LeafIsForkHead

LEMMA CNextInv ==
  ASSUME ConstantsAssumption, CInv, [CarefulNext]_vars
  PROVE  CInv'
<1>1. IInv'
  BY CarefulIsNext, NextInv DEF CInv
<1>2. CASE UNCHANGED vars
  BY <1>1, <1>2 DEF vars, CInv, OneRoot, GenesisAtZero, ForkHeadsAreTips, LeafIsForkHead,
                    Children, FinalizedChildren
<1>3. CASE Open
  <2>1. persisted \in Metadata /\ (persisted.id = Genesis => persisted.revision = 0)
    BY DEF CInv, IInv, TypeOK, GenesisAtZero
  <2>2. OpenAt(persisted)
    BY <1>3 DEF Open
  <2> DEFINE m == persisted
  <2>3. m \in Metadata /\ (m.id = Genesis => m.revision = 0) /\ OpenAt(m)
    BY <2>1, <2>2
  <2> HIDE DEF m
  <2> QED
    BY <1>1, <2>3, OpenAtCareful
<1>4. CASE Close
  BY <1>1, <1>4, ClosedCareful DEF Close, Shutdown, CInv, GenesisAtZero
<1>5. CASE Reset
  <2>1. OpenAt(GenesisMetadata)
    BY <1>5, OpenFacts DEF Reset
  <2>2. GenesisMetadata \in Metadata /\ GenesisMetadata.revision = 0
    BY DEF GenesisMetadata, Metadata, Header, EmptyHeader, ConstantsAssumption
  <2> QED
    BY <1>1, <2>1, <2>2, OpenAtCareful
<1> QED
  BY <1>1, <1>2, <1>3, <1>4, <1>5, CreateCareful, CloneCareful, FinalizeCareful,
     DiscardCareful, CommitCareful DEF CarefulNext

LEMMA CarefulInvariance == CarefulSpec => []CInv
<1>1. Init => CInv
  BY CInitInv, ConstantsAssumption
<1>2. CInv /\ [CarefulNext]_vars => CInv'
  BY CNextInv, ConstantsAssumption
<1> QED
  BY <1>1, <1>2, PTL DEF CarefulSpec

-----------------------------------------------------------------------------
(* The theorems *)

\* What a careful caller does is what ForkDatabase allows: every theorem about
\* Spec holds of its behaviours too.
THEOREM CarefulRefines == CarefulSpec => Spec
<1>1. [CarefulNext]_vars => [Next]_vars
  BY CarefulIsNext
<1> QED
  BY <1>1, PTL DEF CarefulSpec, Spec

\* commit_node of an ancestor of the head and discard_node of a fork never stop
\* half way, so that the index stays one tree, below _root and with the head.
THEOREM OneTreeSafe == CarefulSpec => []OneTree
<1>1. CInv => OneTree
  BY OpenFacts DEF OneTree, OnHeadPath
<1> QED
  BY <1>1, CarefulInvariance, PTL

LEMMA CallsState ==
  ASSUME ConstantsAssumption, CInv
  PROVE  CallsComplete
<1> SUFFICES ASSUME open, NEW n \in DOMAIN index
             PROVE  /\ ~index[n].finalized /\ index[n].revision = index[head].revision =>
                         ~ComparatorMayCrash(n)
                    /\ OnHeadPath(n) /\ n # root =>
                         /\ index[n].parent # Nil
                         /\ head \notin Subtree(Detach(index, n), root)
  BY DEF CallsComplete
<1>1. /\ TreeOK(index) /\ Roots(index) = {root} /\ lost = {} /\ root \in DOMAIN index
      /\ Subtree(index, root) = DOMAIN index
      /\ head \in DOMAIN index /\ index[head].finalized
      /\ index \in [DOMAIN index -> Node]
  BY OpenFacts
<1>2. ASSUME ~index[n].finalized, index[n].revision = index[head].revision
      PROVE  ~ComparatorMayCrash(n)
  <2>1. index[head].parent # Nil
    <3> SUFFICES ASSUME index[head].parent = Nil PROVE FALSE
      OBVIOUS
    <3>1. head = root
      BY <1>1 DEF Roots
    <3>2. n # root /\ n \in Subtree(index, root)
      BY <1>1, <1>2, <3>1
    <3>3. index[n].revision > index[root].revision
      BY <1>1, <3>2, BelowIsHigher
    <3>4. index[n].revision \in Nat
      BY <1>1 DEF Node
    <3> QED
      BY <1>2, <3>1, <3>3, <3>4
  <2> QED
    BY <1>1, <2>1 DEF ComparatorMayCrash, ComparatorCrashes
<1>3. ASSUME OnHeadPath(n), n # root
      PROVE  index[n].parent # Nil /\ head \notin Subtree(Detach(index, n), root)
  <2>1. index[n].parent # Nil
    BY <1>1, <1>3 DEF Roots
  <2>2. Subtree(Detach(index, n), root) = DOMAIN index \ Subtree(index, n)
    BY <1>1, <1>3, DetachSplits
  <2> QED
    BY <1>3, <2>1, <2>2 DEF OnHeadPath
<1> QED
  BY <1>2, <1>3

\* The comparators of finalize_node find every backend and the parent of the
\* head, and commit_node does not meet the head while it discards the old root.
THEOREM CallsSafe == CarefulSpec => []CallsComplete
<1>1. CInv => CallsComplete
  BY CallsState, ConstantsAssumption
<1> QED
  BY <1>1, CarefulInvariance, PTL

\* _fork_heads of fifo and block_time: finalize_node takes the parent out, and
\* discard_node puts it back only when it has no child left.
THEOREM TipsSafe == CarefulSpec => []ForkHeadsAreTips
<1>1. CInv => ForkHeadsAreTips
  BY DEF CInv
<1> QED
  BY <1>1, CarefulInvariance, PTL

\* No fork is lost from _fork_heads, whichever are finalized, discarded and
\* committed.
THEOREM LeavesSafe == CarefulSpec => []LeafIsForkHead
<1>1. CInv => LeafIsForkHead
  BY DEF CInv
<1> QED
  BY <1>1, CarefulInvariance, PTL

\* On the way from c to the root there is a node of every revision between.
LEMMA AncestorAt ==
  ASSUME ConstantsAssumption, CInv, open, NEW c \in DOMAIN index,
         NEW r \in index[root].revision .. index[c].revision
  PROVE  /\ root \in Ancestry(c) /\ Ancestry(c) \subseteq DOMAIN index
         /\ \E m \in Ancestry(c) : index[m].revision = r
<1>1. /\ TreeOK(index) /\ Roots(index) = {root} /\ root \in DOMAIN index
      /\ Subtree(index, root) = DOMAIN index
      /\ \A m \in DOMAIN index : index[m].revision \in Nat
  BY OpenFacts DEF Node
<1>2. /\ root \in Ancestry(c) /\ c \in Ancestry(c) /\ Ancestry(c) \subseteq DOMAIN index
  BY <1>1, SubtreeClosed DEF Ancestry
<1> DEFINE A == {m \in Ancestry(c) : index[m].revision >= r}
           rank == [m \in DOMAIN index |-> index[m].revision]
<1>3. r \in Nat /\ c \in A /\ A \in SUBSET DOMAIN index /\ rank \in [DOMAIN index -> Nat]
  BY <1>1, <1>2
<1>4. PICK m \in A : \A k \in A : rank[m] <= rank[k]
  <2> HIDE DEF A, rank
  <2> QED
    BY <1>3, LeastRank
<1>5. index[m].revision = r
  <2> SUFFICES ASSUME index[m].revision # r PROVE FALSE
    OBVIOUS
  <2>1. m \in DOMAIN index /\ c \in Subtree(index, m) /\ index[m].revision > r
    BY <1>1, <1>3, <1>4 DEF Ancestry
  <2>2. index[m].parent # Nil
    BY <1>1, <2>1, <1>3 DEF Roots
  <2> DEFINE p == index[m].parent
  <2>3. p \in DOMAIN index /\ index[m].revision = index[p].revision + 1
    BY <1>1, <2>1, <2>2 DEF TreeOK, ParentsOK
  <2>4. c \in Subtree(index, p)
    <3> HIDE DEF p
    <3>1. p \in Subtree(index, p) /\ ChildClosed(index, Subtree(index, p))
      BY <2>3, SubtreeClosed
    <3>2. m \in Subtree(index, p)
      BY <2>1, <3>1 DEF ChildClosed, p
    <3> QED
      BY <2>1, <2>3, <3>2, SubtreeBelow
  <2>5. p \in A
    BY <1>1, <1>3, <2>1, <2>3, <2>4 DEF Ancestry
  <2>6. rank[m] <= rank[p] /\ rank[m] = index[m].revision /\ rank[p] = index[p].revision
    BY <1>4, <2>1, <2>3, <2>5
  <2> QED
    BY <1>1, <2>3, <2>6
<1> QED
  BY <1>2, <1>5

LEMMA WalkState ==
  ASSUME ConstantsAssumption, CInv
  PROVE  WalkFindsRevision
<1> SUFFICES ASSUME open, NEW c \in DOMAIN index,
                    NEW r \in index[root].revision .. index[c].revision
             PROVE  /\ NodeAtRevision(r, c) \in Ancestry(c)
                    /\ index[NodeAtRevision(r, c)].revision = r
  BY DEF WalkFindsRevision
<1>1. /\ root \in Ancestry(c) /\ Ancestry(c) \subseteq DOMAIN index
      /\ \E m \in Ancestry(c) : index[m].revision = r
  BY AncestorAt
<1>2. \A m \in DOMAIN index : index[m].revision \in Nat
  BY OpenFacts DEF Node
<1> DEFINE low == {m \in Ancestry(c) : index[m].revision <= r}
           top == CHOOSE m \in low : \A k \in low : index[k].revision <= index[m].revision
<1>3. CASE r = index[root].revision
  BY <1>1, <1>3 DEF NodeAtRevision
<1>4. CASE r # index[root].revision
  <2>1. PICK m \in Ancestry(c) : index[m].revision = r
    BY <1>1
  <2>2. r \in Nat
    BY <1>1, <1>2, <2>1
  <2>3. m \in low /\ \A k \in low : index[k].revision <= index[m].revision
    BY <2>1, <2>2
  <2>4. top \in low /\ \A k \in low : index[k].revision <= index[top].revision
    <3> HIDE DEF low
    <3> QED
      BY <2>3
  <2>5. NodeAtRevision(r, c) = top
    BY <1>4, <2>3 DEF NodeAtRevision
  <2>6. index[top].revision = r
    BY <1>1, <1>2, <2>1, <2>2, <2>3, <2>4
  <2> QED
    BY <2>4, <2>5, <2>6
<1> QED
  BY <1>3, <1>4

\* get_node_at_revision, which follows _parent until the revision is not above
\* the one asked for, ends at an ancestor of exactly that revision.
THEOREM WalkSafe == CarefulSpec => []WalkFindsRevision
<1>1. CInv => WalkFindsRevision
  BY WalkState, ConstantsAssumption
<1> QED
  BY <1>1, CarefulInvariance, PTL

LEMMA RetreatStep ==
  ASSUME ConstantsAssumption, CInv, [CarefulNext]_vars,
         open, head \in DOMAIN index', index'[head'].revision < index[head].revision
  PROVE  \E n \in DOMAIN index :
           /\ n # head
           /\ ~index[n].finalized /\ index'[n].finalized
           /\ index[n].revision = index[head].revision
           /\ SameSigner(n)
<1>1. /\ index \in [DOMAIN index -> Node] /\ head \in DOMAIN index /\ index[head].finalized
      /\ index[head].revision \in Nat /\ lost = {}
  BY OpenFacts DEF Node
<1>2. ~ (head' = head /\ index'[head].revision = index[head].revision)
  <2> SUFFICES ASSUME head' = head, index'[head].revision = index[head].revision PROVE FALSE
    OBVIOUS
  <2>1. index'[head'].revision = index[head].revision
    OBVIOUS
  <2> QED
    BY <1>1, <2>1
<1>3. ~ UNCHANGED vars
  BY <1>2 DEF vars
<1>4. ~ Open /\ ~ Close
  BY DEF Open, Close, Shutdown, EmptyIndex
<1>5. ~ Reset
  <2> SUFFICES ASSUME Reset PROVE FALSE
    OBVIOUS
  <2>1. OpenAt(GenesisMetadata)
    BY <1>1 DEF Reset
  <2>2. head = Genesis
    BY <2>1 DEF OpenAt, GenesisMetadata
  <2>3. index[head].revision = 0
    BY <1>1, <2>2 DEF CInv, GenesisAtZero
  <2>4. index'[head'].revision = 0
    BY <2>1 DEF OpenAt, GenesisMetadata
  <2> QED
    BY <2>3, <2>4
<1>6. ASSUME NEW p \in Ids, NEW n \in NewIds, NEW h \in Headers
      PROVE  ~ CreateWritableNode(p, n, h)
  <2> SUFFICES ASSUME CreateWritableNode(p, n, h) PROVE FALSE
    OBVIOUS
  <2>1. head' = head /\ index'[head] = index[head]
    BY <1>1 DEF CreateWritableNode
  <2> QED
    BY <1>2, <2>1
<1>7. ASSUME NEW m \in Ids, NEW n \in NewIds, NEW h \in Headers
      PROVE  ~ CloneNode(m, n, h)
  <2> SUFFICES ASSUME CloneNode(m, n, h) PROVE FALSE
    OBVIOUS
  <2>1. head' = head /\ index'[head] = index[head]
    BY <1>1 DEF CloneNode
  <2> QED
    BY <1>2, <2>1
<1>8. ASSUME NEW n \in Ids
      PROVE  ~ DiscardFork(n)
  <2> SUFFICES ASSUME DiscardFork(n) PROVE FALSE
    OBVIOUS
  <2>1. /\ head' = head /\ head \notin Subtree(index, n)
        /\ index' = Remove(index, Subtree(index, n))
    BY DEF DiscardFork, DiscardNode, DiscardLockless, OnHeadPath
  <2>2. index'[head] = index[head]
    BY <1>1, <2>1 DEF Remove
  <2> QED
    BY <1>2, <2>1, <2>2
<1>9. \A n \in Ids : ~ CommitAncestor(n)
  <2> SUFFICES ASSUME NEW n \in Ids, CommitAncestor(n) PROVE FALSE
    OBVIOUS
  <2>1. head' = head /\ index'[head].revision = index[head].revision
    BY CommitResult
  <2> QED
    BY <1>2, <2>1
<1>10. PICK n \in Ids : FinalizeOnce(n)
  BY <1>3, <1>4, <1>5, <1>6, <1>7, <1>8, <1>9 DEF CarefulNext
<1>11. /\ n \in DOMAIN index /\ ~index[n].finalized /\ FinalizeHead(n)
       /\ index' = [index EXCEPT ![n].finalized = TRUE]
  BY <1>10 DEF FinalizeOnce, FinalizeNode
<1>12. /\ index'[n].finalized
       /\ \A m \in DOMAIN index : index'[m].revision = index[m].revision
       /\ index[n].revision \in Nat
  BY <1>1, <1>11 DEF Node
<1>13. Tie(n)
  BY <1>1, <1>11, <1>12 DEF FinalizeHead, Higher, Lower
<1>14. index[n].revision = index[head].revision
  BY <1>13 DEF Tie
<1>15. SameSigner(n)
  <2> SUFFICES ASSUME ~SameSigner(n) PROVE FALSE
    OBVIOUS
  <2>1. Comparator(n) \subseteq {n, head}
    BY DEF Comparator, Earlier, ConstantsAssumption
  <2>2. n # Nil /\ head # Nil
    BY <1>1, <1>11, OpenFacts DEF ConstantsAssumption
  <2>3. head' \in {n, head}
    BY <1>13, <2>1, <2>2 DEF Tie
  <2> QED
    BY <1>1, <1>11, <1>12, <1>14, <2>3
<1> QED
  BY <1>1, <1>11, <1>12, <1>14, <1>15

\* The pob comparator takes the head back only for a double production: another
\* block of the signer of the head, at its revision, is being finalized.
THEOREM RetreatSafe == CarefulSpec => RetreatNeedsDoubleProduction
<1>1. CInv /\ [CarefulNext]_vars =>
        [(open /\ head \in DOMAIN index' /\ index'[head'].revision < index[head].revision) =>
           \E n \in DOMAIN index :
             /\ n # head
             /\ ~index[n].finalized /\ index'[n].finalized
             /\ index[n].revision = index[head].revision
             /\ SameSigner(n)]_vars
  BY RetreatStep, ConstantsAssumption
<1> QED
  BY <1>1, CarefulInvariance, PTL DEF CarefulSpec, RetreatNeedsDoubleProduction
=============================================================================
