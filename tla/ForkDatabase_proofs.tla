------------------------- MODULE ForkDatabase_proofs -------------------------
(***************************************************************************)
(* Proofs about ForkDatabase, for every set of ids and headers, every      *)
(* bound and every fork resolution algorithm.                              *)
(***************************************************************************)
EXTENDS ForkDatabase, TLAPS

-----------------------------------------------------------------------------
(* Subtrees *)

\* Subtree( f, x ) holds x, and with a node it holds the node's children: the
\* traversal of discard_node leaves no child of a discarded node behind.
LEMMA SubtreeClosed ==
  ASSUME NEW f, NEW x \in DOMAIN f
  PROVE  /\ x \in Subtree(f, x)
         /\ Subtree(f, x) \subseteq DOMAIN f
         /\ ChildClosed(f, Subtree(f, x))
  BY DEF Subtree, ChildClosed

\* It is the least such set: the traversal removes nothing that it need not.
LEMMA SubtreeLeast ==
  ASSUME NEW f, NEW x \in DOMAIN f, NEW S \in SUBSET DOMAIN f,
         x \in S, ChildClosed(f, S)
  PROVE  Subtree(f, x) \subseteq S
  BY DEF Subtree

\* A tree of nodes: parents are present, finalized and one revision below.
ParentsOK(f) ==
  \A n \in DOMAIN f : f[n].parent # Nil =>
    /\ f[n].parent \in DOMAIN f
    /\ f[f[n].parent].finalized
    /\ f[n].revision = f[f[n].parent].revision + 1

\* Every node is below one of the roots.
RootsReach(f) ==
  \A S \in SUBSET DOMAIN f : Roots(f) \subseteq S /\ ChildClosed(f, S) => S = DOMAIN f

TreeOK(f) ==
  /\ DOMAIN f \subseteq Ids
  /\ f \in [DOMAIN f -> Node]
  /\ ParentsOK(f)
  /\ RootsReach(f)

\* The parent of x is not below x, for its revision is lower.
LEMMA ParentOutside ==
  ASSUME ConstantsAssumption, NEW f, TreeOK(f), NEW x \in DOMAIN f, f[x].parent # Nil
  PROVE  f[x].parent \in DOMAIN f \ Subtree(f, x)
<1> DEFINE S == {m \in DOMAIN f : f[m].revision >= f[x].revision}
<1>1. \A m \in DOMAIN f : f[m].revision \in Nat
  BY DEF TreeOK, Node
<1>2. ChildClosed(f, S)
  BY <1>1, ConstantsAssumption DEF ChildClosed, TreeOK, ParentsOK
<1>3. x \in S
  BY <1>1
<1>4. Subtree(f, x) \subseteq S
  BY <1>2, <1>3, SubtreeLeast
<1>5. f[x].parent \in DOMAIN f /\ f[x].revision = f[f[x].parent].revision + 1
  BY DEF TreeOK, ParentsOK
<1>6. f[x].parent \notin S
  BY <1>1, <1>5
<1> QED
  BY <1>4, <1>5, <1>6

\* A root other than x is not below x.
LEMMA RootOutside ==
  ASSUME ConstantsAssumption, NEW f, DOMAIN f \subseteq Ids, NEW x \in DOMAIN f,
         NEW r \in Roots(f), r # x
  PROVE  r \in DOMAIN f \ Subtree(f, x)
<1> DEFINE S == DOMAIN f \ {r}
<1>1. ChildClosed(f, S)
  BY ConstantsAssumption DEF ChildClosed, Roots
<1>2. Subtree(f, x) \subseteq S
  BY <1>1, SubtreeLeast
<1> QED
  BY <1>2 DEF Roots

\* A node below x has a higher revision than x.
LEMMA BelowIsHigher ==
  ASSUME ConstantsAssumption, NEW f, TreeOK(f), NEW x \in DOMAIN f,
         NEW n \in Subtree(f, x), n # x
  PROVE  f[n].revision > f[x].revision
<1> DEFINE S == {m \in DOMAIN f : m = x \/ f[m].revision > f[x].revision}
<1>1. \A m \in DOMAIN f : f[m].revision \in Nat
  BY DEF TreeOK, Node
<1>2. ChildClosed(f, S)
  BY <1>1, ConstantsAssumption DEF ChildClosed, TreeOK, ParentsOK
<1>3. Subtree(f, x) \subseteq S
  BY <1>2, SubtreeLeast
<1> QED
  BY <1>3

\* Taking a child-closed set of nodes out of a tree leaves a tree.
LEMMA RemoveKeepsTree ==
  ASSUME ConstantsAssumption, NEW f, TreeOK(f), NEW T \in SUBSET DOMAIN f, ChildClosed(f, T)
  PROVE  /\ TreeOK(Remove(f, T))
         /\ DOMAIN Remove(f, T) = DOMAIN f \ T
         /\ \A m \in DOMAIN f \ T : Remove(f, T)[m] = f[m]
<1> DEFINE g == Remove(f, T)
<1>1. /\ DOMAIN g = DOMAIN f \ T
      /\ \A m \in DOMAIN f \ T : g[m] = f[m]
  BY DEF Remove
<1>2. g \in [DOMAIN g -> Node] /\ DOMAIN g \subseteq Ids
  BY <1>1 DEF TreeOK, Remove
<1>3. ParentsOK(g)
  BY <1>1 DEF TreeOK, ParentsOK, ChildClosed
<1>4. ASSUME NEW S \in SUBSET DOMAIN g, Roots(g) \subseteq S, ChildClosed(g, S)
      PROVE  S = DOMAIN g
  <2>1. Roots(f) \subseteq S \cup T
    BY <1>1, <1>4 DEF Roots
  <2>2. ChildClosed(f, S \cup T)
    BY <1>1, <1>4 DEF ChildClosed
  <2>3. S \cup T = DOMAIN f
    BY <2>1, <2>2, <1>1 DEF TreeOK, RootsReach
  <2> QED
    BY <2>3, <1>1
<1>5. RootsReach(g)
  BY <1>4 DEF RootsReach
<1> QED
  BY <1>1, <1>2, <1>3, <1>5 DEF TreeOK

\* Turning a node into a root, as state_delta::commit does when it drops
\* _parent, leaves a tree with that root added.
LEMMA DetachKeepsTree ==
  ASSUME ConstantsAssumption, NEW f, TreeOK(f), NEW n \in DOMAIN f
  PROVE  /\ TreeOK(Detach(f, n))
         /\ DOMAIN Detach(f, n) = DOMAIN f
         /\ Roots(Detach(f, n)) = Roots(f) \cup {n}
         /\ \A m \in DOMAIN f : /\ Detach(f, n)[m].revision = f[m].revision
                                /\ Detach(f, n)[m].header = f[m].header
                                /\ Detach(f, n)[m].finalized = f[m].finalized
<1> DEFINE g == Detach(f, n)
<1>1. /\ DOMAIN g = DOMAIN f
      /\ g \in [DOMAIN f -> Node]
      /\ g[n].parent = Nil
      /\ \A m \in DOMAIN f : /\ m # n => g[m] = f[m]
                             /\ g[m].revision = f[m].revision
                             /\ g[m].header = f[m].header
                             /\ g[m].finalized = f[m].finalized
  BY DEF TreeOK, Node, Detach
<1> HIDE DEF g
<1>2. Roots(g) = Roots(f) \cup {n}
  BY <1>1 DEF Roots
<1>3. ParentsOK(g)
  BY <1>1 DEF TreeOK, ParentsOK
<1>4. ASSUME NEW S \in SUBSET DOMAIN g, Roots(g) \subseteq S, ChildClosed(g, S)
      PROVE  S = DOMAIN g
  <2>1. Roots(f) \subseteq S /\ n \in S
    BY <1>2, <1>4
  <2>2. ChildClosed(f, S)
    BY <1>1, <1>4, <2>1 DEF ChildClosed
  <2> QED
    BY <1>1, <2>1, <2>2 DEF TreeOK, RootsReach
<1>5. RootsReach(g)
  BY <1>4 DEF RootsReach
<1> QED
  BY <1>1, <1>2, <1>3, <1>5 DEF TreeOK, g

\* Adding a node without children, below a node that is finalized, leaves a
\* tree.
LEMMA AddKeepsTree ==
  ASSUME ConstantsAssumption, NEW f, TreeOK(f), NEW n \in Ids \ DOMAIN f, NEW a \in Node,
         a.parent \in DOMAIN f, f[a.parent].finalized,
         a.revision = f[a.parent].revision + 1,
         NEW g, g = [m \in DOMAIN f \cup {n} |-> IF m = n THEN a ELSE f[m]]
  PROVE  /\ TreeOK(g)
         /\ DOMAIN g = DOMAIN f \cup {n}
         /\ Roots(g) = Roots(f)
         /\ \A m \in DOMAIN f : g[m] = f[m]
         /\ g[n] = a
<1>1. /\ DOMAIN g = DOMAIN f \cup {n}
      /\ \A m \in DOMAIN f : g[m] = f[m]
      /\ g[n] = a
      /\ g \in [DOMAIN g -> Node]
      /\ DOMAIN g \subseteq Ids
  BY DEF TreeOK
<1>2. a.parent # Nil
  BY ConstantsAssumption DEF TreeOK
<1>3. Roots(g) = Roots(f)
  BY <1>1, <1>2 DEF Roots
<1>4. ParentsOK(g)
  BY <1>1 DEF TreeOK, ParentsOK
<1>5. ASSUME NEW S \in SUBSET DOMAIN g, Roots(g) \subseteq S, ChildClosed(g, S)
      PROVE  S = DOMAIN g
  <2> DEFINE T == S \ {n}
  <2>1. \A m \in DOMAIN f : f[m].parent # n
    BY ConstantsAssumption DEF TreeOK, ParentsOK, Node
  <2>2. Roots(f) \subseteq T
    BY <1>3, <1>5 DEF Roots
  <2>3. ChildClosed(f, T)
    BY <1>1, <1>5 DEF ChildClosed
  <2>4. T = DOMAIN f
    BY <1>1, <2>2, <2>3 DEF TreeOK, RootsReach
  <2>5. n \in S
    BY <1>1, <1>5, <2>4 DEF ChildClosed
  <2> QED
    BY <1>1, <2>4, <2>5
<1>6. RootsReach(g)
  BY <1>5 DEF RootsReach
<1> QED
  BY <1>1, <1>3, <1>4, <1>6 DEF TreeOK

\* discard_node_lockless, whether it succeeds or meets the head: what is left
\* is a tree with the other roots in it, the head and the fork heads are live.
LEMMA DiscardKeepsTree ==
  ASSUME ConstantsAssumption, NEW f, TreeOK(f), NEW L \in SUBSET Roots(f),
         NEW x \in DOMAIN f, NEW r \in Roots(f), r # x,
         head \in DOMAIN f, f[head].finalized, head \in forkHeads,
         \A n \in forkHeads : n \in DOMAIN f /\ f[n].finalized,
         DiscardLockless(f, x, L)
  PROVE  /\ TreeOK(index')
         /\ DOMAIN index' \subseteq DOMAIN f
         /\ \A m \in DOMAIN index' : index'[m] = f[m]
         /\ r \in DOMAIN index'
         /\ head \in DOMAIN index' /\ head \in forkHeads'
         /\ \A n \in forkHeads' : n \in DOMAIN index' /\ index'[n].finalized
         /\ lost' = L \cap DOMAIN index'
<1> DEFINE T == Subtree(f, x)
<1>1. T \subseteq DOMAIN f /\ ChildClosed(f, T)
  BY SubtreeClosed
<1>2. r \in DOMAIN f \ T
  BY RootOutside DEF TreeOK
<1>3. CASE head \notin T
  <2>1. /\ index' = Remove(f, T)
        /\ forkHeads' = ForkHeadsAfterDiscard(f, T, f[x].parent)
        /\ lost' = L \ T
    BY <1>3 DEF DiscardLockless
  <2>2. /\ TreeOK(index')
        /\ DOMAIN index' = DOMAIN f \ T
        /\ \A m \in DOMAIN f \ T : index'[m] = f[m]
    <3> HIDE DEF T
    <3>1. /\ TreeOK(Remove(f, T))
          /\ DOMAIN Remove(f, T) = DOMAIN f \ T
          /\ \A m \in DOMAIN f \ T : Remove(f, T)[m] = f[m]
      BY <1>1, RemoveKeepsTree
    <3> QED
      BY <2>1, <3>1
  <2>3. ASSUME NEW n \in forkHeads'
        PROVE  n \in DOMAIN index' /\ index'[n].finalized
    <3>1. CASE n \in forkHeads \ T
      BY <2>2, <3>1
    <3>2. CASE n \notin forkHeads \ T
      <4>1. n = f[x].parent /\ ~ \E m \in DOMAIN f \ T : f[m].parent = f[x].parent
        BY <2>1, <3>2 DEF ForkHeadsAfterDiscard
      <4>2. f[x].parent # Nil
        BY <1>2, <4>1 DEF Roots
      <4>3. f[x].parent \in DOMAIN f \ T
        BY <4>2, ParentOutside
      <4>4. f[f[x].parent].finalized
        BY <4>2 DEF TreeOK, ParentsOK
      <4> QED
        BY <2>2, <4>1, <4>3, <4>4
    <3> QED
      BY <3>1, <3>2
  <2>4. head \in forkHeads'
    BY <1>3, <2>1 DEF ForkHeadsAfterDiscard
  <2>5. lost' = L \cap DOMAIN index'
    BY <2>1, <2>2 DEF Roots
  <2> QED
    BY <1>2, <1>3, <2>2, <2>3, <2>4, <2>5
<1>4. CASE head \in T
  <2>1. /\ index' = f
        /\ lost' = L
        /\ \E V \in Visited(f, T) : forkHeads' = forkHeads \ V
    BY <1>4 DEF DiscardLockless
  <2>2. head \in forkHeads' /\ forkHeads' \subseteq forkHeads
    BY <2>1 DEF Visited
  <2>3. lost' = L \cap DOMAIN index'
    BY <2>1 DEF Roots
  <2> QED
    BY <1>2, <2>1, <2>2, <2>3
<1> QED
  BY <1>3, <1>4

-----------------------------------------------------------------------------
(* The inductive invariant *)

\* At most one root still has the backend.
OneBackend == \A a, b \in Roots(index) \ lost : a = b

\* The invariants of ForkDatabase are not inductive by themselves: that the
\* root reaches the whole index after a commit needs that every node is below
\* some root and that a root without a lost backend is unique.
IInv ==
  /\ TypeOK
  /\ HeadIsForkHead
  /\ ForkHeadsLive
  /\ TreeOK(index)
  /\ open => root \in Roots(index)
  /\ lost \subseteq Roots(index)
  /\ OneBackend
  /\ DurableRoot

\* The closed database satisfies the inductive invariant.
LEMMA InitInv == ASSUME ConstantsAssumption, Init PROVE IInv
  BY DEF Init, IInv, TypeOK, HeadIsForkHead, ForkHeadsLive, TreeOK, ParentsOK, RootsReach,
         OneBackend, DurableRoot, Roots, EmptyIndex, ConstantsAssumption, Metadata,
         GenesisMetadata, Header, EmptyHeader

\* close_lockless, which drops the root, the index, the head and the fork
\* heads together, keeps the invariant.
LEMMA ShutdownInv == ASSUME ConstantsAssumption, IInv, Shutdown PROVE IInv'
  BY DEF Shutdown, IInv, TypeOK, HeadIsForkHead, ForkHeadsLive, TreeOK, ParentsOK, RootsReach,
         OneBackend, DurableRoot, Roots, EmptyIndex, ConstantsAssumption

\* open_lockless over whatever metadata the backend has keeps the invariant:
\* root, head and sole fork head are the one node it makes.
LEMMA OpenAtInv == ASSUME ConstantsAssumption, NEW m \in Metadata, OpenAt(m) PROVE IInv'
<1>1. /\ DOMAIN index' = {m.id}
      /\ index'[m.id] = [parent |-> Nil, revision |-> m.revision,
                         header |-> m.header, finalized |-> TRUE]
      /\ m.id \in Ids
      /\ index' \in [{m.id} -> Node]
  BY DEF OpenAt, Node, Metadata
<1>2. Roots(index') = {m.id}
  BY <1>1 DEF Roots
<1>3. TypeOK'
  BY <1>1 DEF OpenAt, TypeOK, Metadata
<1>4. TreeOK(index')
  BY <1>1, <1>2 DEF TreeOK, ParentsOK, RootsReach
<1>5. HeadIsForkHead' /\ ForkHeadsLive'
  BY <1>1 DEF OpenAt, HeadIsForkHead, ForkHeadsLive
<1>6. (open => root \in Roots(index))' /\ (lost \subseteq Roots(index))' /\ OneBackend'
  BY <1>2 DEF OpenAt, OneBackend
<1>7. DurableRoot'
  BY <1>1, <1>2 DEF OpenAt, DurableRoot, Metadata
<1> QED
  BY <1>3, <1>4, <1>5, <1>6, <1>7 DEF IInv

\* create_writable_node keeps the invariant: the new node hangs below a
\* finalized one and is no head.
LEMMA CreateInv ==
  ASSUME ConstantsAssumption, IInv, NEW p \in Ids, NEW n \in NewIds, NEW h \in Headers,
         CreateWritableNode(p, n, h)
  PROVE  IInv'
<1> DEFINE a == MakeChild(p, h)
<1>1. /\ p \in DOMAIN index /\ index[p].finalized /\ n \in Ids \ DOMAIN index
      /\ index' = [m \in DOMAIN index \cup {n} |-> IF m = n THEN a ELSE index[m]]
      /\ UNCHANGED <<open, root, head, forkHeads, lost, persisted>>
  BY DEF CreateWritableNode, NewIds
<1>2. /\ a \in Node /\ a.parent = p /\ a.revision = index[p].revision + 1
  BY <1>1, ConstantsAssumption DEF MakeChild, Node, Header, IInv, TreeOK
<1>3. /\ TreeOK(index')
      /\ DOMAIN index' = DOMAIN index \cup {n}
      /\ Roots(index') = Roots(index)
      /\ \A m \in DOMAIN index : index'[m] = index[m]
  <2> HIDE DEF a
  <2> QED
    BY <1>1, <1>2, AddKeepsTree DEF IInv
<1>4. TypeOK'
  BY <1>1, <1>3 DEF CreateWritableNode, IInv, TypeOK, TreeOK
<1>5. HeadIsForkHead' /\ ForkHeadsLive'
  BY <1>1, <1>3 DEF IInv, HeadIsForkHead, ForkHeadsLive
<1>6. OneBackend' /\ DurableRoot'
  BY <1>1, <1>3 DEF IInv, OneBackend, DurableRoot, Roots
<1> QED
  BY <1>1, <1>3, <1>4, <1>5, <1>6 DEF IInv

\* clone_node keeps the invariant: the copy hangs where the original hangs and
\* is writable as well.
LEMMA CloneInv ==
  ASSUME ConstantsAssumption, IInv, NEW k \in Ids, NEW n \in NewIds, NEW h \in Headers,
         CloneNode(k, n, h)
  PROVE  IInv'
<1> DEFINE a == [index[k] EXCEPT !.header = h]
<1>1. /\ k \in DOMAIN index /\ index[k].parent # Nil /\ n \in Ids \ DOMAIN index
      /\ index' = [m \in DOMAIN index \cup {n} |-> IF m = n THEN a ELSE index[m]]
      /\ UNCHANGED <<open, root, head, forkHeads, lost, persisted>>
  BY DEF CloneNode, NewIds
<1>2. /\ a \in Node /\ a.parent = index[k].parent /\ a.revision = index[k].revision
  BY <1>1, ConstantsAssumption DEF Node, Header, IInv, TreeOK
<1>3. /\ a.parent \in DOMAIN index
      /\ index[a.parent].finalized
      /\ a.revision = index[a.parent].revision + 1
  BY <1>1, <1>2 DEF IInv, TreeOK, ParentsOK
<1>4. /\ TreeOK(index')
      /\ DOMAIN index' = DOMAIN index \cup {n}
      /\ Roots(index') = Roots(index)
      /\ \A m \in DOMAIN index : index'[m] = index[m]
  <2> HIDE DEF a
  <2> QED
    BY <1>1, <1>2, <1>3, AddKeepsTree DEF IInv
<1>5. TypeOK'
  BY <1>1, <1>4 DEF CloneNode, IInv, TypeOK, TreeOK
<1>6. HeadIsForkHead' /\ ForkHeadsLive'
  BY <1>1, <1>4 DEF IInv, HeadIsForkHead, ForkHeadsLive
<1>7. OneBackend' /\ DurableRoot'
  BY <1>1, <1>4 DEF IInv, OneBackend, DurableRoot, Roots
<1> QED
  BY <1>1, <1>4, <1>5, <1>6, <1>7 DEF IInv

\* What the comparator answers: a fork head or the node just finalized; and
\* the null pointer only where the head has a parent to go back to.
LEMMA ComparatorResult ==
  ASSUME ConstantsAssumption, IInv, open, NEW n \in DOMAIN index,
         ~ComparatorCrashes(n), NEW c \in Comparator(n)
  PROVE  /\ c # Nil => c \in forkHeads \cup {n}
         /\ c = Nil => /\ Algorithm = "pob"
                       /\ index[head].parent # Nil
<1>1. /\ head \in forkHeads /\ Nil \notin forkHeads /\ Earlier(n) \in {n, head}
      /\ n # Nil /\ head # Nil
  BY ConstantsAssumption DEF IInv, HeadIsForkHead, TypeOK, Earlier
<1>2. DoubleProduction \subseteq forkHeads \cup {Nil}
  BY DEF DoubleProduction, Best
<1>3. CASE Algorithm = "fifo"
  BY <1>1, <1>3 DEF Comparator
<1>4. CASE Algorithm = "block_time"
  BY <1>1, <1>4 DEF Comparator
<1>5. CASE Algorithm = "pob"
  <2>1. c \in (IF SameSigner(n) THEN DoubleProduction ELSE {Earlier(n)})
    BY <1>5 DEF Comparator
  <2>2. CASE SameSigner(n)
    BY <1>2, <1>5, <2>1, <2>2 DEF ComparatorCrashes
  <2>3. CASE ~SameSigner(n)
    BY <1>1, <2>1, <2>3
  <2> QED
    BY <2>2, <2>3
<1> QED
  BY <1>3, <1>4, <1>5, ConstantsAssumption

\* The head the last block of finalize_node sees stays among the fork heads.
LEMMA SupersedeKeepsHead ==
  ASSUME NEW forks, NEW n, NEW c \in forks \cup {n}, index[n].parent # n
  PROVE  /\ c \in Supersede(forks, n, c)
         /\ Supersede(forks, n, c) \subseteq forks \cup {n}
  BY DEF Supersede

\* After finalize_node the head is a fork head, and the fork heads are those
\* there were, n, and the parent of the old head if pob has gone back to it.
LEMMA FinalizeHeadResult ==
  ASSUME ConstantsAssumption, IInv, open, NEW n \in DOMAIN index, FinalizeHead(n)
  PROVE  /\ head' \in forkHeads'
         /\ \A m \in forkHeads' :
              m \in DOMAIN index /\ (m = n \/ index[m].finalized)
<1>1. /\ head \in DOMAIN index /\ head \in forkHeads
      /\ \A m \in forkHeads : m \in DOMAIN index /\ index[m].finalized
  BY DEF IInv, HeadIsForkHead, ForkHeadsLive
<1>2. /\ index[n].parent # n
      /\ index[head].parent # Nil => /\ index[head].parent \in DOMAIN index
                                     /\ index[index[head].parent].finalized
  BY <1>1, ConstantsAssumption DEF IInv, TreeOK, ParentsOK, Node
<1>3. CASE /\ head' \in {head, n}
           /\ forkHeads' = Supersede(forkHeads, n, head')
  BY <1>1, <1>2, <1>3, SupersedeKeepsHead
<1>4. CASE /\ ~ComparatorCrashes(n)
           /\ \E c \in Comparator(n) :
                \/ c # Nil /\ head' = c /\ forkHeads' = Supersede(forkHeads, n, c)
                \/ /\ c = Nil
                   /\ head' = index[head].parent
                   /\ forkHeads' =
                        Supersede((forkHeads \ {head}) \cup {index[head].parent},
                                  n, index[head].parent)
  <2>1. PICK c \in Comparator(n) :
          \/ c # Nil /\ head' = c /\ forkHeads' = Supersede(forkHeads, n, c)
          \/ /\ c = Nil
             /\ head' = index[head].parent
             /\ forkHeads' = Supersede((forkHeads \ {head}) \cup {index[head].parent},
                                       n, index[head].parent)
    BY <1>4
  <2>2. /\ c # Nil => c \in forkHeads \cup {n}
        /\ c = Nil => index[head].parent # Nil
    BY <1>4, ComparatorResult
  <2>3. CASE c # Nil
    BY <1>1, <1>2, <2>1, <2>2, <2>3, SupersedeKeepsHead
  <2>4. CASE c = Nil
    <3> DEFINE forks == (forkHeads \ {head}) \cup {index[head].parent}
    <3>1. head' \in forks /\ forkHeads' = Supersede(forks, n, head')
      BY <2>1, <2>4
    <3>2. \A m \in forks : m \in DOMAIN index /\ index[m].finalized
      BY <1>1, <1>2, <2>2, <2>4
    <3> HIDE DEF forks
    <3>3. head' \in forkHeads' /\ forkHeads' \subseteq forks \cup {n}
      BY <1>2, <3>1, SupersedeKeepsHead
    <3> QED
      BY <3>2, <3>3
  <2> QED
    BY <2>3, <2>4
<1> QED
  BY <1>3, <1>4 DEF FinalizeHead, Higher, Lower, Tie

\* finalize_node keeps the invariant, under each comparator and when the
\* comparator answers the null pointer.
LEMMA FinalizeInv ==
  ASSUME ConstantsAssumption, IInv, NEW n \in Ids, FinalizeNode(n)
  PROVE  IInv'
<1>1. /\ open /\ n \in DOMAIN index /\ FinalizeHead(n)
      /\ index' = [index EXCEPT ![n].finalized = TRUE]
      /\ UNCHANGED <<open, root, lost, persisted>>
  BY DEF FinalizeNode
<1>2. /\ DOMAIN index' = DOMAIN index
      /\ index' \in [DOMAIN index -> Node]
      /\ index'[n].finalized
      /\ \A m \in DOMAIN index : /\ index'[m].parent = index[m].parent
                                 /\ index'[m].revision = index[m].revision
                                 /\ index'[m].header = index[m].header
                                 /\ index[m].finalized => index'[m].finalized
  BY <1>1 DEF IInv, TreeOK, Node
<1>3. Roots(index') = Roots(index)
  BY <1>2 DEF Roots
<1>4. TreeOK(index')
  <2>1. ParentsOK(index')
    BY <1>2 DEF IInv, TreeOK, ParentsOK
  <2>2. RootsReach(index')
    BY <1>2, <1>3 DEF IInv, TreeOK, RootsReach, ChildClosed
  <2> QED
    BY <1>2, <2>1, <2>2 DEF IInv, TreeOK
<1>5. /\ head' \in forkHeads'
      /\ \A m \in forkHeads' : m \in DOMAIN index' /\ index'[m].finalized
  BY <1>1, <1>2, FinalizeHeadResult
<1>6. TypeOK'
  BY <1>1, <1>2, <1>5 DEF IInv, TypeOK
<1>7. HeadIsForkHead' /\ ForkHeadsLive'
  BY <1>5 DEF HeadIsForkHead, ForkHeadsLive
<1>8. OneBackend' /\ DurableRoot'
  BY <1>1, <1>2, <1>3 DEF IInv, OneBackend, DurableRoot, Roots
<1> QED
  BY <1>1, <1>3, <1>4, <1>6, <1>7, <1>8 DEF IInv

\* discard_node keeps the invariant, also when it meets the head half way.
LEMMA DiscardInv ==
  ASSUME ConstantsAssumption, IInv, NEW x \in Ids, DiscardNode(x)
  PROVE  IInv'
<1>1. /\ open /\ x \in DOMAIN index /\ x # root /\ root \in Roots(index)
      /\ DiscardLockless(index, x, lost)
      /\ UNCHANGED <<open, root, head, persisted>>
  BY DEF DiscardNode, IInv
<1>2. /\ TreeOK(index')
      /\ DOMAIN index' \subseteq DOMAIN index
      /\ \A m \in DOMAIN index' : index'[m] = index[m]
      /\ root \in DOMAIN index'
      /\ head \in DOMAIN index' /\ head \in forkHeads'
      /\ \A m \in forkHeads' : m \in DOMAIN index' /\ index'[m].finalized
      /\ lost' = lost \cap DOMAIN index'
  <2>1. /\ TreeOK(index) /\ lost \in SUBSET Roots(index)
        /\ head \in DOMAIN index /\ index[head].finalized /\ head \in forkHeads
        /\ \A m \in forkHeads : m \in DOMAIN index /\ index[m].finalized
    BY <1>1 DEF IInv, HeadIsForkHead, ForkHeadsLive
  <2> QED
    BY <1>1, <2>1, DiscardKeepsTree
<1>3. Roots(index') = Roots(index) \cap DOMAIN index'
  BY <1>2 DEF Roots
<1>4. TypeOK'
  BY <1>1, <1>2 DEF IInv, TypeOK, TreeOK
<1>5. HeadIsForkHead' /\ ForkHeadsLive'
  BY <1>1, <1>2 DEF HeadIsForkHead, ForkHeadsLive
<1>6. OneBackend' /\ DurableRoot'
  BY <1>1, <1>2, <1>3 DEF IInv, OneBackend, DurableRoot
<1>7. (open => root \in Roots(index))' /\ (lost \subseteq Roots(index))'
  BY <1>1, <1>2, <1>3 DEF IInv
<1> QED
  BY <1>2, <1>4, <1>5, <1>6, <1>7 DEF IInv

\* commit_node keeps the invariant, also when the discard of a sibling branch
\* is refused after the node has become a root.
LEMMA CommitInv ==
  ASSUME ConstantsAssumption, IInv, NEW n \in Ids, CommitNode(n)
  PROVE  IInv'
<1>1. open /\ n \in DOMAIN index /\ n # root /\ root \in Roots(index)
  BY DEF CommitNode, IInv
<1>2. CASE CommitDetached(n)
  BY <1>1, <1>2 DEF CommitDetached, IInv, TypeOK, HeadIsForkHead, ForkHeadsLive,
                    OneBackend, DurableRoot, Roots
<1>3. CASE Shutdown
  BY <1>3, ShutdownInv
<1>4. ASSUME NEW r \in Roots(index), CommitDelta(n, r), index[n].parent # Nil
      PROVE  IInv'
  <2> DEFINE g == Detach(index, n)
             L == lost \cup {r}
  <2>1. /\ r \notin lost /\ root' = n /\ open' = open /\ head' = head
        /\ persisted' = [id |-> n, revision |-> index[n].revision, header |-> index[n].header]
        /\ DiscardLockless(g, root, L)
    BY <1>4 DEF CommitDelta, CommitMetadata
  <2>2. /\ TreeOK(g)
        /\ DOMAIN g = DOMAIN index
        /\ Roots(g) = Roots(index) \cup {n}
        /\ \A m \in DOMAIN index : /\ g[m].revision = index[m].revision
                                   /\ g[m].header = index[m].header
                                   /\ g[m].finalized = index[m].finalized
    BY <1>1, DetachKeepsTree DEF IInv
  <2>3. /\ L \in SUBSET Roots(g)
        /\ root \in DOMAIN g /\ n \in Roots(g)
        /\ head \in DOMAIN g /\ g[head].finalized /\ head \in forkHeads
        /\ \A m \in forkHeads : m \in DOMAIN g /\ g[m].finalized
    BY <1>1, <2>2 DEF IInv, HeadIsForkHead, ForkHeadsLive, Roots
  <2> HIDE DEF g, L
  <2>4. /\ TreeOK(index')
        /\ DOMAIN index' \subseteq DOMAIN g
        /\ \A m \in DOMAIN index' : index'[m] = g[m]
        /\ n \in DOMAIN index'
        /\ head \in DOMAIN index' /\ head \in forkHeads'
        /\ \A m \in forkHeads' : m \in DOMAIN index' /\ index'[m].finalized
        /\ lost' = L \cap DOMAIN index'
    BY <1>1, <2>1, <2>2, <2>3, DiscardKeepsTree
  <2>5. Roots(index') = (Roots(index) \cup {n}) \cap DOMAIN index'
    BY <2>2, <2>4 DEF Roots
  <2>6. \A a \in Roots(index') \ lost' : a = n
    BY <1>4, <2>1, <2>4, <2>5 DEF L, IInv, OneBackend
  <2>7. TypeOK'
    <3>1. persisted' \in Metadata
      BY <1>1, <2>1 DEF IInv, TreeOK, Metadata, Node
    <3> QED
      BY <1>1, <2>1, <2>4, <3>1 DEF IInv, TypeOK, TreeOK
  <2>8. HeadIsForkHead' /\ ForkHeadsLive'
    BY <2>1, <2>4 DEF HeadIsForkHead, ForkHeadsLive
  <2>9. OneBackend' /\ DurableRoot'
    BY <1>1, <2>1, <2>2, <2>4, <2>6 DEF OneBackend, DurableRoot, Roots
  <2>10. (open => root \in Roots(index))' /\ (lost \subseteq Roots(index))'
    BY <2>1, <2>3, <2>4, <2>5, <2>2 DEF L, Roots
  <2> QED
    BY <2>4, <2>7, <2>8, <2>9, <2>10 DEF IInv
<1> QED
  BY <1>1, <1>2, <1>3, <1>4 DEF CommitNode

\* Every step of the database keeps the invariant.
LEMMA NextInv == ASSUME ConstantsAssumption, IInv, [Next]_vars PROVE IInv'
<1>1. CASE Open
  BY <1>1, OpenAtInv DEF Open, IInv, TypeOK
<1>2. CASE Close
  BY <1>2, ShutdownInv DEF Close
<1>3. CASE Reset
  <2>1. GenesisMetadata \in Metadata
    BY ConstantsAssumption DEF GenesisMetadata, Metadata, EmptyHeader, Header
  <2> QED
    BY <1>3, <2>1, OpenAtInv, ShutdownInv DEF Reset
<1>4. CASE \E p \in Ids, n \in NewIds, h \in Headers : CreateWritableNode(p, n, h)
  BY <1>4, CreateInv
<1>5. CASE \E m \in Ids, n \in NewIds, h \in Headers : CloneNode(m, n, h)
  BY <1>5, CloneInv
<1>6. CASE \E n \in Ids : FinalizeNode(n)
  BY <1>6, FinalizeInv
<1>7. CASE \E n \in Ids : FinalizeCrash(n)
  BY <1>7, ShutdownInv DEF FinalizeCrash
<1>8. CASE \E n \in Ids : DiscardNode(n)
  BY <1>8, DiscardInv
<1>9. CASE \E n \in Ids : CommitNode(n)
  BY <1>9, CommitInv
<1>10. CASE UNCHANGED vars
  BY <1>10 DEF vars, IInv, TypeOK, HeadIsForkHead, ForkHeadsLive, OneBackend, DurableRoot,
               TreeOK, ParentsOK, RootsReach, Roots, ChildClosed
<1> QED
  BY <1>1, <1>2, <1>3, <1>4, <1>5, <1>6, <1>7, <1>8, <1>9, <1>10 DEF Next

\* The inductive invariant holds in every reachable state.
LEMMA Invariance == Spec => []IInv
<1>1. Init => IInv
  BY InitInv, ConstantsAssumption
<1>2. IInv /\ [Next]_vars => IInv'
  BY NextInv, ConstantsAssumption
<1> QED
  BY <1>1, <1>2, PTL DEF Spec

-----------------------------------------------------------------------------
(* Theorems *)

\* Every value the database holds has its type, and a closed database holds
\* no node.
THEOREM TypeCorrect == Spec => []TypeOK
<1>1. IInv => TypeOK
  BY DEF IInv
<1> QED
  BY <1>1, Invariance, PTL

\* The head is always a finalized node of the index and a fork head, whatever
\* was discarded, committed or refused, under each fork resolution algorithm.
THEOREM HeadSafe == Spec => []HeadIsForkHead
<1>1. IInv => HeadIsForkHead
  BY DEF IInv
<1> QED
  BY <1>1, Invariance, PTL

\* No fork head dangles: each is a finalized node of the index.
THEOREM ForkHeadsSafe == Spec => []ForkHeadsLive
<1>1. IInv => ForkHeadsLive
  BY DEF IInv
<1> QED
  BY <1>1, Invariance, PTL

\* The parent links of the index form chains of finalized nodes without gaps.
THEOREM ParentsSafe == Spec => []ParentsLive
<1>1. IInv => ParentsLive
  BY DEF IInv, TreeOK, ParentsOK, ParentsLive
<1> QED
  BY <1>1, Invariance, PTL

\* As long as no commit was refused half way, every node of the index descends
\* from the root.
THEOREM RootSafe == Spec => []RootReachesAll
<1>1. ASSUME IInv PROVE RootReachesAll
  <2>1. ASSUME open, lost = {} PROVE Subtree(index, root) = DOMAIN index
    <3>1. root \in Roots(index) /\ root \in DOMAIN index
      BY <1>1, <2>1 DEF IInv, Roots
    <3>2. Roots(index) = {root}
      BY <1>1, <2>1, <3>1 DEF IInv, OneBackend
    <3>3. /\ root \in Subtree(index, root)
          /\ Subtree(index, root) \subseteq DOMAIN index
          /\ ChildClosed(index, Subtree(index, root))
      BY <3>1, SubtreeClosed
    <3> QED
      BY <1>1, <3>2, <3>3 DEF IInv, TreeOK, RootsReach
  <2> QED
    BY <1>1, <2>1 DEF IInv, RootReachesAll
<1> QED
  BY <1>1, Invariance, PTL

\* What a restart would resume from is the one root that has the backend.
THEOREM DurableSafe == Spec => []DurableRoot
<1>1. IInv => DurableRoot
  BY DEF IInv
<1> QED
  BY <1>1, Invariance, PTL

-----------------------------------------------------------------------------
(* The head *)

\* A discard or a commit that does not end the process keeps the head, and
\* changes neither the revision nor the header of a node it leaves, nor
\* finalizes one.
LEMMA DropResult ==
  ASSUME ConstantsAssumption, IInv, open, NEW n \in Ids,
         DiscardNode(n) \/ (CommitNode(n) /\ ~Shutdown)
  PROVE  /\ head' = head /\ head \in DOMAIN index'
         /\ DOMAIN index' \subseteq DOMAIN index
         /\ \A m \in DOMAIN index' : /\ index'[m].revision = index[m].revision
                                     /\ index'[m].finalized = index[m].finalized
<1>1. /\ root \in Roots(index) /\ root \in DOMAIN index
      /\ TreeOK(index) /\ lost \subseteq Roots(index)
      /\ head \in DOMAIN index /\ index[head].finalized /\ head \in forkHeads
      /\ \A m \in forkHeads : m \in DOMAIN index /\ index[m].finalized
  BY DEF IInv, HeadIsForkHead, ForkHeadsLive, Roots
<1>2. CASE DiscardNode(n)
  <2>1. /\ n \in DOMAIN index /\ n # root /\ head' = head
        /\ DiscardLockless(index, n, lost)
    BY <1>2 DEF DiscardNode
  <2> QED
    BY <1>1, <2>1, DiscardKeepsTree
<1>3. CASE CommitDetached(n)
  BY <1>1, <1>3 DEF CommitDetached
<1>4. ASSUME NEW r \in Roots(index), CommitDelta(n, r), n \in DOMAIN index, n # root
      PROVE  /\ head' = head /\ head \in DOMAIN index'
             /\ DOMAIN index' \subseteq DOMAIN index
             /\ \A m \in DOMAIN index' : /\ index'[m].revision = index[m].revision
                                         /\ index'[m].finalized = index[m].finalized
  <2> DEFINE g == Detach(index, n)
             L == lost \cup {r}
  <2>1. head' = head /\ DiscardLockless(g, root, L)
    BY <1>4 DEF CommitDelta
  <2>2. /\ TreeOK(g)
        /\ DOMAIN g = DOMAIN index
        /\ Roots(g) = Roots(index) \cup {n}
        /\ \A m \in DOMAIN index : /\ g[m].revision = index[m].revision
                                   /\ g[m].finalized = index[m].finalized
    BY <1>1, <1>4, DetachKeepsTree
  <2>3. L \in SUBSET Roots(g)
    BY <1>1, <2>2
  <2> HIDE DEF g, L
  <2>4. /\ DOMAIN index' \subseteq DOMAIN g
        /\ \A m \in DOMAIN index' : index'[m] = g[m]
        /\ head \in DOMAIN index'
    BY <1>1, <1>4, <2>1, <2>2, <2>3, DiscardKeepsTree
  <2> QED
    BY <2>1, <2>2, <2>4
<1> QED
  BY <1>2, <1>3, <1>4 DEF CommitNode

\* With fifo and block_time a finalize_node that changes the head moves it to
\* the node just finalized, which is higher, or as high with an earlier time.
LEMMA FinalizeImproves ==
  ASSUME ConstantsAssumption, IInv, NEW n \in Ids, FinalizeNode(n), Algorithm # "pob"
  PROVE  \/ head' = head /\ index[n].revision <= index[head].revision
         \/ head' = n /\ index[n].revision > index[head].revision
         \/ /\ head' = n /\ index[n].revision = index[head].revision
            /\ Algorithm = "block_time"
            /\ index[n].header.timestamp < index[head].header.timestamp
<1>1. /\ open /\ n \in DOMAIN index /\ FinalizeHead(n)
      /\ head \in DOMAIN index /\ head # Nil /\ n # Nil
      /\ index[n].revision \in Nat /\ index[head].revision \in Nat
  BY ConstantsAssumption DEF FinalizeNode, IInv, HeadIsForkHead, TreeOK, Node
<1>2. Comparator(n) = IF Algorithm = "fifo" THEN {head} ELSE {Earlier(n)}
  BY ConstantsAssumption DEF Comparator
<1> QED
  BY <1>1, <1>2, ConstantsAssumption DEF FinalizeHead, Higher, Lower, Tie, Earlier

\* What each step does to the head, as far as LongestChain and
\* HeadOnlyImproves need it.
LEMMA LongestStep ==
  ASSUME ConstantsAssumption, IInv, LongestChain, [Next]_vars
  PROVE  LongestChain'
<1>1. SUFFICES ASSUME open', Algorithm # "pob", NEW n \in DOMAIN index', index'[n].finalized
               PROVE  index'[n].revision <= index'[head'].revision
  BY DEF LongestChain
<1>2. \A m \in DOMAIN index : index[m].revision \in Nat
  BY DEF IInv, TreeOK, Node
<1>3. open => /\ head \in DOMAIN index
              /\ \A m \in DOMAIN index :
                   index[m].finalized => index[m].revision <= index[head].revision
  BY <1>1 DEF IInv, HeadIsForkHead, LongestChain
<1>4. ASSUME NEW m \in Metadata, OpenAt(m) PROVE index'[n].revision <= index'[head'].revision
  BY <1>1, <1>4 DEF OpenAt, Metadata
<1>5. CASE Shutdown
  BY <1>1, <1>5 DEF Shutdown
<1>6. CASE Open \/ Close \/ Reset
  <2>1. GenesisMetadata \in Metadata /\ persisted \in Metadata
    BY ConstantsAssumption DEF GenesisMetadata, Metadata, EmptyHeader, Header, IInv, TypeOK
  <2> QED
    BY <1>4, <1>5, <1>6, <2>1 DEF Open, Close, Reset
<1>7. ASSUME NEW p \in Ids, NEW k \in NewIds, NEW h \in Headers, CreateWritableNode(p, k, h)
      PROVE  index'[n].revision <= index'[head'].revision
  BY <1>1, <1>3, <1>7 DEF CreateWritableNode, MakeChild
<1>8. ASSUME NEW p \in Ids, NEW k \in NewIds, NEW h \in Headers, CloneNode(p, k, h)
      PROVE  index'[n].revision <= index'[head'].revision
  <2>1. /\ open /\ k \notin DOMAIN index /\ head' = head
        /\ DOMAIN index' = DOMAIN index \cup {k}
        /\ ~index'[k].finalized
        /\ \A m \in DOMAIN index : index'[m] = index[m]
    BY <1>8 DEF CloneNode, IInv, TreeOK, Node
  <2> QED
    BY <1>1, <1>3, <2>1
<1>9. ASSUME NEW k \in Ids, FinalizeNode(k)
      PROVE  index'[n].revision <= index'[head'].revision
  <2>1. /\ open /\ k \in DOMAIN index
        /\ DOMAIN index' = DOMAIN index
        /\ \A m \in DOMAIN index : /\ index'[m].revision = index[m].revision
                                   /\ m # k => index'[m].finalized = index[m].finalized
    BY <1>9 DEF FinalizeNode, IInv, TreeOK, Node
  <2>2. \/ head' = head /\ index[k].revision <= index[head].revision
        \/ head' = k /\ index[k].revision > index[head].revision
        \/ head' = k /\ index[k].revision = index[head].revision
    BY <1>1, <1>9, FinalizeImproves
  <2> QED
    BY <1>1, <1>2, <1>3, <2>1, <2>2
<1>10. CASE \E k \in Ids : FinalizeCrash(k)
  BY <1>5, <1>10 DEF FinalizeCrash
<1>11. ASSUME NEW k \in Ids, DiscardNode(k) \/ CommitNode(k)
       PROVE  index'[n].revision <= index'[head'].revision
  <2>1. open
    BY <1>11 DEF DiscardNode, CommitNode
  <2>2. CASE ~Shutdown
    BY <1>1, <1>3, <1>11, <2>1, <2>2, DropResult
  <2> QED
    BY <1>5, <2>2
<1>12. CASE UNCHANGED vars
  BY <1>1, <1>3, <1>12 DEF vars
<1> QED
  BY <1>6, <1>7, <1>8, <1>9, <1>10, <1>11, <1>12 DEF Next

\* With fifo and block_time the head is on the longest chain of finalized
\* nodes.
THEOREM LongestChainSafe == Spec => []LongestChain
<1>1. Init => LongestChain
  BY DEF Init, LongestChain, EmptyIndex
<1>2. IInv /\ LongestChain /\ [Next]_vars => LongestChain'
  BY LongestStep, ConstantsAssumption
<1> QED
  BY <1>1, <1>2, Invariance, PTL DEF Spec

\* With fifo and block_time a step that replaces the head while the old one stays
\* in the index moves it to a better node.
LEMMA HeadStep ==
  ASSUME ConstantsAssumption, IInv, [Next]_vars,
         open, Algorithm # "pob", head \in DOMAIN index', head' # head
  PROVE  \/ index'[head'].revision > index'[head].revision
         \/ /\ Algorithm = "block_time"
            /\ index'[head'].revision = index'[head].revision
            /\ index'[head'].header.timestamp < index'[head].header.timestamp
<1>1. ASSUME NEW m \in Metadata, OpenAt(m) PROVE FALSE
  BY <1>1 DEF OpenAt
<1>2. CASE Shutdown
  BY <1>2 DEF Shutdown, EmptyIndex
<1>3. CASE Open \/ Close \/ Reset
  <2>1. GenesisMetadata \in Metadata
    BY ConstantsAssumption DEF GenesisMetadata, Metadata, EmptyHeader, Header
  <2> QED
    BY <1>1, <1>2, <1>3, <2>1 DEF Open, Close, Reset
<1>4. ASSUME NEW k \in Ids, FinalizeNode(k)
      PROVE  \/ index'[head'].revision > index'[head].revision
             \/ /\ Algorithm = "block_time"
                /\ index'[head'].revision = index'[head].revision
                /\ index'[head'].header.timestamp < index'[head].header.timestamp
  <2>1. /\ k \in DOMAIN index /\ head \in DOMAIN index
        /\ \A m \in DOMAIN index : /\ index'[m].revision = index[m].revision
                                   /\ index'[m].header = index[m].header
    BY <1>4 DEF FinalizeNode, IInv, HeadIsForkHead, TreeOK, Node
  <2> QED
    BY <1>4, <2>1, FinalizeImproves
<1>5. CASE \E k \in Ids : FinalizeCrash(k)
  BY <1>2, <1>5 DEF FinalizeCrash
<1>6. ASSUME NEW k \in Ids, DiscardNode(k) \/ CommitNode(k) PROVE Shutdown
  BY <1>6, DropResult
<1>7. CASE \E p \in Ids, n \in NewIds, h \in Headers :
             CreateWritableNode(p, n, h) \/ CloneNode(p, n, h)
  BY <1>7 DEF CreateWritableNode, CloneNode
<1> QED
  BY <1>2, <1>3, <1>4, <1>5, <1>6, <1>7 DEF Next, vars

\* With fifo and block_time the head is replaced only by a higher node, or with
\* block_time by an earlier one of the same height.
THEOREM HeadImproves == Spec => HeadOnlyImproves
<1>1. IInv /\ [Next]_vars =>
        [(open /\ Algorithm # "pob" /\ head \in DOMAIN index' /\ head' # head) =>
           \/ index'[head'].revision > index'[head].revision
           \/ /\ Algorithm = "block_time"
              /\ index'[head'].revision = index'[head].revision
              /\ index'[head'].header.timestamp < index'[head].header.timestamp]_vars
  BY HeadStep, ConstantsAssumption
<1> QED
  BY <1>1, Invariance, PTL DEF Spec, HeadOnlyImproves

\* A step that writes the metadata raises the stored revision or, in reset,
\* stores that of genesis.
LEMMA PersistedStep ==
  ASSUME ConstantsAssumption, IInv, [Next]_vars, persisted' # persisted
  PROVE  persisted'.revision > persisted.revision \/ persisted' = GenesisMetadata
<1>1. ASSUME NEW n \in Ids, CommitNode(n), ~Shutdown
      PROVE  persisted'.revision > persisted.revision
  <2>1. PICK r \in Roots(index) : /\ n \in Subtree(index, r)
                                  /\ CommitDelta(n, r)
                                  /\ index[n].parent # Nil
    BY <1>1 DEF CommitNode, CommitDetached
  <2>2. persisted.revision = index[r].revision /\ persisted'.revision = index[n].revision
    BY <2>1 DEF CommitDelta, CommitMetadata, IInv, DurableRoot
  <2>3. r # n /\ r \in DOMAIN index
    BY <2>1 DEF Roots
  <2>4. index[n].revision > index[r].revision
    BY <2>1, <2>3, BelowIsHigher DEF IInv
  <2> QED
    BY <2>2, <2>4
<1>2. CASE Shutdown
  BY <1>2 DEF Shutdown
<1>3. CASE Open \/ Close \/ Reset
  BY <1>2, <1>3 DEF Open, Close, Reset, OpenAt
<1>4. CASE \E p \in Ids, n \in NewIds, h \in Headers :
             CreateWritableNode(p, n, h) \/ CloneNode(p, n, h)
  BY <1>4 DEF CreateWritableNode, CloneNode
<1>5. CASE \E n \in Ids : FinalizeNode(n) \/ DiscardNode(n)
  BY <1>5 DEF FinalizeNode, DiscardNode
<1>6. CASE \E n \in Ids : FinalizeCrash(n)
  BY <1>2, <1>6 DEF FinalizeCrash
<1> QED
  BY <1>1, <1>2, <1>3, <1>4, <1>5, <1>6 DEF Next, vars

\* The stored revision only grows, but for reset: what a restart resumes from
\* is never older than what an earlier restart would have resumed from.
THEOREM PersistedGrows == Spec => PersistedAdvances
<1>1. IInv /\ [Next]_vars =>
        [persisted' # persisted =>
           \/ persisted'.revision > persisted.revision
           \/ persisted' = GenesisMetadata]_vars
  BY PersistedStep, ConstantsAssumption
<1> QED
  BY <1>1, Invariance, PTL DEF Spec, PersistedAdvances
=============================================================================
