---------------------------- MODULE CarefulClient ----------------------------
(***************************************************************************)
(* ForkDatabase under a caller that keeps to the order of calls the        *)
(* comments of state_db.hpp and the tests follow: a node is finalized      *)
(* once, only nodes that are not on the way to the head are discarded, and *)
(* only nodes on the way to the head are committed.  The tests commit and  *)
(* discard this way (fork_tests in src/tests/state_db_test.cpp); the       *)
(* library itself does not ask for it.  For this caller no call fails half *)
(* way, so that what the fork heads are for can be asked.                  *)
(***************************************************************************)
EXTENDS ForkDatabase

\* The head is n or descends from it.
OnHeadPath(n) == head \in Subtree(index, n)

FinalizeOnce(n) == n \in DOMAIN index /\ ~index[n].finalized /\ FinalizeNode(n)

DiscardFork(n) == n \in DOMAIN index /\ ~OnHeadPath(n) /\ DiscardNode(n)

CommitAncestor(n) == n \in DOMAIN index /\ OnHeadPath(n) /\ CommitNode(n)

CarefulNext ==
  \/ Open
  \/ Close
  \/ Reset
  \/ \E p \in Ids, n \in NewIds, h \in Headers : CreateWritableNode(p, n, h)
  \/ \E m \in Ids, n \in NewIds, h \in Headers : CloneNode(m, n, h)
  \/ \E n \in Ids : FinalizeOnce(n)
  \/ \E n \in Ids : DiscardFork(n)
  \/ \E n \in Ids : CommitAncestor(n)

CarefulSpec == Init /\ [][CarefulNext]_vars

\* The same caller, but it tries to commit any finalized node.
TryCommit(n) == n \in DOMAIN index /\ index[n].finalized /\ CommitNode(n)
TryCommitSpec == Init /\ [][CarefulNext \/ \E n \in Ids : TryCommit(n)]_vars

-----------------------------------------------------------------------------
(* get_node_at_revision *)

\* The deltas the loop of get_node_at_revision can visit from c: c and its
\* ancestors.
Ancestry(c) == {m \in DOMAIN index : c \in Subtree(index, m)}

\* The walk goes one node too far.
WrongNodeAtRevision(r, c) ==
  LET low == {m \in Ancestry(c) : index[m].revision < r}
  IN  IF r = index[root].revision THEN root
      ELSE IF low = {} THEN Nil
      ELSE CHOOSE m \in low : \A k \in low : index[k].revision <= index[m].revision

\* The first of them that is not above revision r, or Nil when the loop runs
\* into the null parent.  The root is answered before the loop.
NodeAtRevision(r, c) ==
  LET low == {m \in Ancestry(c) : index[m].revision <= r}
  IN  IF r = index[root].revision THEN root
      ELSE IF low = {} THEN Nil
      ELSE CHOOSE m \in low : \A k \in low : index[k].revision <= index[m].revision

-----------------------------------------------------------------------------
(* Properties *)

Children(n) == {m \in DOMAIN index : index[m].parent = n}
FinalizedChildren(n) == {m \in Children(n) : index[m].finalized}

\* No commit of a careful caller is refused half way: the index stays one
\* tree below the root, and the head stays in it.
OneTree ==
  open => lost = {} /\ Roots(index) = {root} /\ OnHeadPath(root)

\* Every call of a careful caller runs to its end: where a finalized node ties
\* with the head the comparator finds a backend for every header it reads and
\* a parent of the head, and the discard inside a commit does not meet the head.
CallsComplete ==
  open => \A n \in DOMAIN index :
    /\ ~index[n].finalized /\ index[n].revision = index[head].revision =>
         ~ComparatorMayCrash(n)
    /\ OnHeadPath(n) /\ n # root =>
         /\ index[n].parent # Nil
         /\ head \notin Subtree(Detach(index, n), root)

\* With fifo and block_time a fork head has no finalized child: finalizing a
\* node takes its parent out of the fork heads, and discarding one child
\* does not bring a parent back that has another.
ForkHeadsAreTips ==
  Algorithm # "pob" => \A n \in forkHeads : FinalizedChildren(n) = {}

\* With fifo and block_time every finalized node without children is listed
\* as a fork head, so that no fork is forgotten when others are discarded,
\* committed or finalized.
LeafIsForkHead ==
  Algorithm # "pob" =>
    \A n \in DOMAIN index : index[n].finalized /\ Children(n) = {} => n \in forkHeads

\* A walk back from any node to a revision between the root's and its own
\* ends at one ancestor with exactly that revision: the parents the walk
\* follows have no gap and it does not leave the index.
WalkFindsRevision ==
  open => \A c \in DOMAIN index : \A r \in index[root].revision .. index[c].revision :
            LET m == NodeAtRevision(r, c)
            IN  m \in Ancestry(c) /\ index[m].revision = r

\* The head goes back to an older node only when a node was just finalized
\* that the signer of the head produced at the head's revision.
RetreatNeedsDoubleProduction ==
  [][(open /\ head \in DOMAIN index' /\ index'[head'].revision < index[head].revision) =>
       \E n \in DOMAIN index :
         /\ n # head
         /\ ~index[n].finalized /\ index'[n].finalized
         /\ index[n].revision = index[head].revision
         /\ SameSigner(n)]_vars

\* A statement of the comments in state_db.hpp that the code does not keep: the
\* comment of get_root: every node of the index descends from the root.
AllDescendRoot == open => Subtree(index, root) = DOMAIN index
=============================================================================
