---------------------------- MODULE ForkDatabase ----------------------------
(***************************************************************************)
(* The tree of state nodes that koinos::state_db::detail::database_impl    *)
(* keeps: the index of state deltas, the root, the head and the fork heads *)
(* (src/koinos/state_db/state_db.cpp).                                     *)
(*                                                                         *)
(* Simplifications:                                                        *)
(*  - The contents of the nodes are left out; StateDelta models them.      *)
(*  - Every operation is one step.  finalize, discard, clone, commit,      *)
(*    reset, open and close hold _index_mutex from their first read to     *)
(*    their last write; create_writable_node has one effect, the insertion *)
(*    into the index, which it makes under _index_mutex.                   *)
(*  - A delta is named by its id.  Ids in the index are unique, and a      *)
(*    subtree leaves the index as a whole, so an id names one delta for as *)
(*    long as anything in the index, _head, _root or _fork_heads refers to *)
(*    it.                                                                  *)
(*  - A call that throws before it has changed anything is a stuttering    *)
(*    step and has no action.                                              *)
(*  - The database is opened with a path (rocksdb): close and a crash of   *)
(*    the process leave the metadata the last commit stored.               *)
(*  - A null pointer that is dereferenced ends the process.                *)
(*                                                                         *)
(* A definition whose name starts with Wrong is the definition after it    *)
(* with a mistake that is easy to make in the code; no definition uses it. *)
(* The properties are tested by putting it in the place of the right one.  *)
(***************************************************************************)
EXTENDS Integers, FiniteSets

CONSTANTS
  Ids,          \* the node ids callers use, a set of numbers: pob compares them
  Genesis,      \* the all-zero id of a root that was never committed to
  Signers,      \* the values of block_header.signer
  Headers,      \* the block headers callers pass: timestamp and signer
  Nil,          \* the null pointer and the empty id
  Algorithm,    \* fork_resolution_algorithm
  MaxRevision   \* bound of the model: no node above this revision is created

ASSUME ConstantsAssumption ==
  /\ Ids \subseteq Nat
  /\ Genesis \in Ids
  /\ Headers \subseteq [timestamp : Nat, signer : Signers]
  /\ Nil \notin Ids
  /\ Algorithm \in {"fifo", "block_time", "pob"}
  /\ MaxRevision \in Nat

\* Callers pass block hashes, never the all-zero id.
NewIds == Ids \ {Genesis}

\* A header that was never set has timestamp 0 and an empty signer.
Header == [timestamp : Nat, signer : Signers \cup {Nil}]
EmptyHeader == [timestamp |-> 0, signer |-> Nil]

Node == [parent : Ids \cup {Nil}, revision : Nat, header : Header, finalized : BOOLEAN]

\* What rocksdb_backend::store_metadata writes.
Metadata == [id : Ids, revision : Nat, header : Header]
GenesisMetadata == [id |-> Genesis, revision |-> 0, header |-> EmptyHeader]

VARIABLES
  open,       \* is_open()
  index,      \* _index: the nodes by id
  root,       \* _root
  head,       \* _head
  forkHeads,  \* _fork_heads
  lost,       \* the nodes of the index whose _backend a commit has taken away
  persisted   \* the metadata in the database directory

vars == <<open, index, root, head, forkHeads, lost, persisted>>

-----------------------------------------------------------------------------
(* The tree *)

\* A set of nodes that contains the children of each of its members.
ChildClosed(f, S) == \A m \in DOMAIN f : f[m].parent \in S => m \in S

\* The traversal stops at the children.
WrongSubtree(f, x) == {n \in DOMAIN f : n = x \/ f[n].parent = x}

\* The node x and everything the by_parent index reaches from it.
Subtree(f, x) ==
  {n \in DOMAIN f : \A S \in SUBSET DOMAIN f : x \in S /\ ChildClosed(f, S) => n \in S}

\* The nodes that are root deltas: they have no parent.
Roots(f) == {n \in DOMAIN f : f[n].parent = Nil}

\* _parent is not reset.
WrongDetach(f, n) == f

\* state_delta::commit makes n a root delta: _parent.reset().
Detach(f, n) == [f EXCEPT ![n].parent = Nil]

Remove(f, S) == [m \in DOMAIN f \ S |-> f[m]]

MakeChild(p, h) ==
  [parent |-> p, revision |-> index[p].revision + 1, header |-> h, finalized |-> FALSE]

-----------------------------------------------------------------------------
(* Fork resolution *)

\* priority_algorithm of pob_comparator.
Priority(a, b) ==
  \/ index[a].revision > index[b].revision
  \/ /\ index[a].revision = index[b].revision
     /\ \/ index[a].header.timestamp < index[b].header.timestamp
        \/ index[a].header.timestamp = index[b].header.timestamp /\ a < b

\* What std::sort puts first.
Best(forks) == {b \in forks : \A c \in forks : ~Priority(c, b)}

SameSigner(n) == index[head].header.signer = index[n].header.signer

\* A tie of timestamps goes to the new block.
WrongEarlier(n) ==
  IF index[n].header.timestamp <= index[head].header.timestamp THEN n ELSE head

Earlier(n) == IF index[n].header.timestamp < index[head].header.timestamp THEN n ELSE head

\* A double production: head and n are blocks of one signer at one height.
DoubleProduction ==
  LET forks == forkHeads \ {head} IN
  IF forks = {} THEN {Nil}
  ELSE {IF Priority(index[head].parent, b) THEN Nil ELSE b : b \in Best(forks)}

\* Every tie is taken for a double production.
WrongComparatorForPob(n) == DoubleProduction

\* The possible results of _comp( forks, head, n ); Nil is the null pointer.
Comparator(n) ==
  CASE Algorithm = "fifo"       -> {head}
    [] Algorithm = "block_time" -> {Earlier(n)}
    [] Algorithm = "pob"        -> IF SameSigner(n) THEN DoubleProduction ELSE {Earlier(n)}

\* The comparator reads the header of a delta without a backend, or the
\* null parent of head.
ComparatorCrashes(n) ==
  /\ Algorithm # "fifo"
  /\ \/ {head, n} \cap lost # {}
     \/ Algorithm = "pob" /\ SameSigner(n) /\ index[head].parent = Nil

\* Sorting the forks reads the headers of some of them, which ones depends
\* on std::sort.
ComparatorMayCrash(n) ==
  \/ ComparatorCrashes(n)
  \/ /\ Algorithm = "pob" /\ SameSigner(n)
     /\ (forkHeads \cup {index[head].parent}) \cap lost # {}

\* n is not added.
WrongSupersedeAddsNothing(forks, n, newHead) ==
  IF index[n].parent = newHead THEN forks ELSE forks \ {index[n].parent}

\* The parent is not removed.
WrongSupersedeKeepsParent(forks, n, newHead) ==
  IF index[n].parent = newHead THEN forks ELSE forks \cup {n}

\* The parent is removed even if it has become the head.
WrongSupersedeTakesHead(forks, n, newHead) == (forks \ {index[n].parent}) \cup {n}

\* The last block of finalize_node: n takes the place of its parent, unless
\* that parent is the head newHead.
Supersede(forks, n, newHead) ==
  IF index[n].parent = newHead THEN forks
  ELSE (forks \ {index[n].parent}) \cup {n}

-----------------------------------------------------------------------------
(* Opening and closing *)

EmptyIndex == [n \in {} |-> Nil]

\* open_lockless on a backend that holds the metadata m.
OpenAt(m) ==
  /\ open' = TRUE
  /\ index' = [n \in {m.id} |-> [parent |-> Nil, revision |-> m.revision,
                                 header |-> m.header, finalized |-> TRUE]]
  /\ root' = m.id
  /\ head' = m.id
  /\ forkHeads' = {m.id}
  /\ lost' = {}
  /\ persisted' = m

\* The fork heads are not cleared.
WrongShutdown ==
  /\ open' = FALSE
  /\ index' = EmptyIndex
  /\ root' = Nil
  /\ head' = Nil
  /\ lost' = {}
  /\ UNCHANGED <<forkHeads, persisted>>

\* close_lockless, or the end of the process: only the directory remains.
Shutdown ==
  /\ open' = FALSE
  /\ index' = EmptyIndex
  /\ root' = Nil
  /\ head' = Nil
  /\ forkHeads' = {}
  /\ lost' = {}
  /\ UNCHANGED persisted

Open == ~open /\ OpenAt(persisted)

Close == open /\ Shutdown

\* reset wipes the backend of the root and opens the directory again.
Reset ==
  /\ open
  /\ IF root \in lost THEN Shutdown ELSE OpenAt(GenesisMetadata)

-----------------------------------------------------------------------------
(* Operations on nodes *)

CreateWritableNode(p, n, h) ==
  /\ open
  /\ p \in DOMAIN index
  /\ index[p].finalized
  /\ n \notin DOMAIN index
  /\ index[p].revision < MaxRevision
  /\ index' = [m \in DOMAIN index \cup {n} |-> IF m = n THEN MakeChild(p, h) ELSE index[m]]
  /\ UNCHANGED <<open, root, head, forkHeads, lost, persisted>>

\* A root delta cannot be cloned: rocksdb_backend::clone throws.
CloneNode(m, n, h) ==
  /\ open
  /\ m \in DOMAIN index
  /\ ~index[m].finalized
  /\ index[m].parent # Nil
  /\ n \notin DOMAIN index
  /\ index' = [k \in DOMAIN index \cup {n} |->
                 IF k = n THEN [index[m] EXCEPT !.header = h] ELSE index[k]]
  /\ UNCHANGED <<open, root, head, forkHeads, lost, persisted>>

\* The new block becomes head only if it extends the head.
WrongHigher(n) ==
  /\ index[n].revision > index[head].revision
  /\ head' = IF index[n].parent = head THEN n ELSE head
  /\ forkHeads' = Supersede(forkHeads, n, head')

\* n is higher than the head.
Higher(n) ==
  /\ index[n].revision > index[head].revision
  /\ head' = n
  /\ forkHeads' = Supersede(forkHeads, n, n)

\* n is lower than the head.
Lower(n) ==
  /\ index[n].revision < index[head].revision
  /\ head' = head
  /\ forkHeads' = Supersede(forkHeads, n, head)

\* n is as high as the head: the comparator decides, and where it answers the
\* null pointer the head goes back to its parent.
Tie(n) ==
  /\ index[n].revision = index[head].revision
  /\ ~ComparatorCrashes(n)
  /\ \E c \in Comparator(n) :
       \/ /\ c # Nil
          /\ head' = c
          /\ forkHeads' = Supersede(forkHeads, n, c)
       \/ /\ c = Nil
          /\ head' = index[head].parent
          /\ forkHeads' =
               Supersede((forkHeads \ {head}) \cup {index[head].parent},
                         n, index[head].parent)

\* _head and _fork_heads after n was finalized.
FinalizeHead(n) == Higher(n) \/ Lower(n) \/ Tie(n)

\* finalize_node; nothing keeps a caller from finalizing a node again.
FinalizeNode(n) ==
  /\ open
  /\ n \in DOMAIN index
  /\ index' = [index EXCEPT ![n].finalized = TRUE]
  /\ FinalizeHead(n)
  /\ UNCHANGED <<open, root, lost, persisted>>

FinalizeCrash(n) ==
  /\ open
  /\ n \in DOMAIN index
  /\ index[n].revision = index[head].revision
  /\ ComparatorMayCrash(n)
  /\ Shutdown

\* What the traversal has erased from _fork_heads before it comes to head:
\* all of the levels above head, and part of the level of head.
Visited(f, doomed) ==
  {V \in SUBSET doomed :
     /\ head \notin V
     /\ \A m \in doomed : f[m].revision < f[head].revision => m \in V
     /\ \A m \in V : f[m].revision <= f[head].revision}

\* The fork heads of the discarded nodes stay.
WrongForkHeadsKept(f, doomed, p) ==
  forkHeads \cup (IF \E m \in DOMAIN f \ doomed : f[m].parent = p THEN {} ELSE {p})

\* The parent does not become a fork head again.
WrongForkHeadsNotRestored(f, doomed, p) == forkHeads \ doomed

\* The fork heads that remain, and the parent p if no node is left below it.
ForkHeadsAfterDiscard(f, doomed, p) ==
  (forkHeads \ doomed)
    \cup (IF \E m \in DOMAIN f \ doomed : f[m].parent = p THEN {} ELSE {p})

\* discard_node_lockless( x ) on the index f, in which the nodes of noBackend
\* have lost their backend.  It throws cannot_discard when it comes to head.
DiscardLockless(f, x, noBackend) ==
  LET doomed == Subtree(f, x) IN
  \/ /\ head \notin doomed
     /\ index' = Remove(f, doomed)
     /\ forkHeads' = ForkHeadsAfterDiscard(f, doomed, f[x].parent)
     /\ lost' = noBackend \ doomed
  \/ /\ head \in doomed
     /\ index' = f
     /\ \E V \in Visited(f, doomed) : forkHeads' = forkHeads \ V
     /\ lost' = noBackend

DiscardNode(x) ==
  /\ open
  /\ x \in DOMAIN index
  /\ x # root
  /\ DiscardLockless(index, x, lost)
  /\ UNCHANGED <<open, root, head, persisted>>

\* commit_node of a node that is the root of a tree: _root is assigned, then
\* state_delta::commit throws internal_error.
CommitDetached(n) ==
  /\ index[n].parent = Nil
  /\ root' = n
  /\ UNCHANGED <<open, index, head, forkHeads, lost, persisted>>

\* The revision of the old root stays in the metadata.
WrongMetadataRevision(n) ==
  [id |-> n, revision |-> index[root].revision, header |-> index[n].header]

\* The block header is not set.
WrongMetadataHeader(n) ==
  [id |-> n, revision |-> index[n].revision, header |-> EmptyHeader]

\* The metadata state_delta::commit sets on the backend.
CommitMetadata(n) ==
  [id |-> n, revision |-> index[n].revision, header |-> index[n].header]

\* state_delta::commit writes the deltas from the root r down to n into the
\* backend of r and makes n a root; then the old _root is discarded.
CommitDelta(n, r) ==
  /\ r \notin lost
  /\ root' = n
  /\ persisted' = CommitMetadata(n)
  /\ DiscardLockless(Detach(index, n), root, lost \cup {r})
  /\ UNCHANGED <<open, head>>

CommitNode(n) ==
  /\ open
  /\ n \in DOMAIN index
  /\ n # root
  /\ \/ CommitDetached(n)
     \/ /\ index[n].parent # Nil
        /\ \E r \in Roots(index) :
             /\ n \in Subtree(index, r)
             /\ CommitDelta(n, r) \/ (r \in lost /\ Shutdown)

-----------------------------------------------------------------------------

Init ==
  /\ open = FALSE
  /\ index = EmptyIndex
  /\ root = Nil
  /\ head = Nil
  /\ forkHeads = {}
  /\ lost = {}
  /\ persisted = GenesisMetadata

Next ==
  \/ Open
  \/ Close
  \/ Reset
  \/ \E p \in Ids, n \in NewIds, h \in Headers : CreateWritableNode(p, n, h)
  \/ \E m \in Ids, n \in NewIds, h \in Headers : CloneNode(m, n, h)
  \/ \E n \in Ids : FinalizeNode(n)
  \/ \E n \in Ids : FinalizeCrash(n)
  \/ \E n \in Ids : DiscardNode(n)
  \/ \E n \in Ids : CommitNode(n)

Spec == Init /\ [][Next]_vars

-----------------------------------------------------------------------------
(* Properties *)

\* The type invariant; while the database is closed nothing is held in memory.
TypeOK ==
  /\ open \in BOOLEAN
  /\ DOMAIN index \subseteq Ids
  /\ index \in [DOMAIN index -> Node]
  /\ root \in Ids \cup {Nil}
  /\ head \in Ids \cup {Nil}
  /\ forkHeads \subseteq Ids
  /\ lost \subseteq DOMAIN index
  /\ persisted \in Metadata
  /\ ~open => /\ DOMAIN index = {}
              /\ forkHeads = {}

\* The head is a finalized node of the index and is listed as a fork head,
\* also after a discard or a commit that was refused half way and after pob
\* has moved the head back to an older node.
HeadIsForkHead ==
  open => /\ head \in DOMAIN index
          /\ index[head].finalized
          /\ head \in forkHeads

\* _fork_heads never holds a node that has left the index or that can still
\* be written to: the subtree a discard or a commit drops takes its fork
\* heads with it.
ForkHeadsLive == \A n \in forkHeads : n \in DOMAIN index /\ index[n].finalized

\* The parent of a node in the index is in the index too, is finalized, and
\* is one revision below it, so that a chain of revisions has no gap.
ParentsLive ==
  \A n \in DOMAIN index : index[n].parent # Nil =>
    /\ index[n].parent \in DOMAIN index
    /\ index[index[n].parent].finalized
    /\ index[n].revision = index[index[n].parent].revision + 1

\* The root is in the index and has no parent, and as long as no commit was
\* refused half way every node of the index descends from it.
RootReachesAll ==
  open => /\ root \in Roots(index)
          /\ lost = {} => Subtree(index, root) = DOMAIN index

\* The metadata in the directory describes the one root that still has the
\* backend: a restart resumes at a node the index held as a root.
DurableRoot ==
  \A r \in Roots(index) \ lost :
    persisted = [id |-> r, revision |-> index[r].revision, header |-> index[r].header]

\* With fifo and block_time no finalized node is higher than the head,
\* whatever was discarded, committed or finalized again.
LongestChain ==
  (open /\ Algorithm # "pob") =>
    \A n \in DOMAIN index : index[n].finalized => index[n].revision <= index[head].revision

\* With fifo and block_time the head is replaced only by a higher node, or,
\* with block_time, by a node as high with an earlier timestamp: the oldest
\* chain wins a tie.
HeadOnlyImproves ==
  [][(open /\ Algorithm # "pob" /\ head \in DOMAIN index' /\ head' # head) =>
       \/ index'[head'].revision > index'[head].revision
       \/ /\ Algorithm = "block_time"
          /\ index'[head'].revision = index'[head].revision
          /\ index'[head'].header.timestamp < index'[head].header.timestamp]_vars

\* The stored revision never goes down, but for reset.
PersistedAdvances ==
  [][persisted' # persisted =>
       \/ persisted'.revision > persisted.revision
       \/ persisted' = GenesisMetadata]_vars
=============================================================================
