----------------------------- MODULE StateDelta -----------------------------
(***************************************************************************)
(* The contents of state nodes as koinos::state_db::detail::state_delta    *)
(* keeps them (src/koinos/state_db/state_delta.cpp): a delta holds the     *)
(* objects written on it and the keys removed on it, and reads what it     *)
(* does not hold from its parent; the root delta holds everything else.    *)
(*                                                                         *)
(* Simplifications:                                                        *)
(*  - The tree operations are those of a caller ForkDatabase calls careful *)
(*    (module CarefulClient): which node may be finalized, discarded or    *)
(*    committed is the subject of those modules.                           *)
(*  - A write tests is_finalized and writes in one step.                   *)
(*  - The backend of the root is a map: neither the write batch nor the    *)
(*    files of rocksdb are in this module.                                 *)
(*  - A merkle root is the list of entries it hashes; no value is the      *)
(*    empty string, which it cannot tell from a removal.                   *)
(*  - Discarding a node ends the use of the anonymous nodes over it; they  *)
(*    hold the shared lock, so that no commit runs while there are any.    *)
(*                                                                         *)
(* As in ForkDatabase, a definition whose name starts with Wrong is the    *)
(* definition after it with a plausible mistake; no definition uses it.    *)
(***************************************************************************)
EXTENDS Integers

CONSTANTS
  Nodes,      \* ids of state nodes
  Handles,    \* the anonymous_state_node objects callers hold
  Drafts,     \* the deltas behind them
  Keys,
  Values,
  Absent,     \* no object: nullptr
  Untouched,  \* neither modified nor removed, in the refinement only
  Nil,        \* no parent
  Unset,      \* no merkle root has been computed
  ZeroRoot,   \* the merkle root in a new directory
  Genesis,    \* the first root
  MaxRevision \* bound of the model: no node above this revision is created

Store == [Keys -> Values \cup {Absent}]
Entries == [Keys -> (0 .. 2) \X (Values \cup {Absent})]

ASSUME ConstantsAssumption ==
  /\ Genesis \in Nodes
  /\ Nodes \cap Drafts = {}
  /\ Handles \cap (Nodes \cup Drafts) = {}
  /\ Nil \notin Nodes \cup Drafts \cup Handles
  /\ Absent \notin Values
  /\ Untouched \notin Values \cup {Absent}
  /\ Unset \notin Entries \cup {ZeroRoot}
  /\ MaxRevision \in Nat

VARIABLES
  delta,    \* the deltas by name
  anon      \* the anonymous nodes: _parent, and the delta _impl->_state

vars == <<delta, anon>>

Delta == [parent : Nodes \cup Drafts \cup {Nil}, revision : Nat, store : Store,
          removed : SUBSET Keys, finalized : BOOLEAN, merkle : Entries \cup {Unset, ZeroRoot}]

EmptyStore == [k \in Keys |-> Absent]

LiveNodes == DOMAIN delta \cap Nodes
Users == LiveNodes \cup DOMAIN anon

\* The delta behind a state node or an anonymous node.
StateOf(u) == IF u \in Nodes THEN u ELSE anon[u].state

-----------------------------------------------------------------------------
(* Reading *)

IsRoot(d) == delta[d].parent = Nil

\* is_modified
Modified(d, k) == delta[d].store[k] # Absent \/ k \in delta[d].removed

ParentClosed(f, S) == \A d \in S : f[d].parent # Nil => f[d].parent \in S

\* The delta d and the deltas it reads through; a parent is lower.
Lineage(f, d) ==
  LET lower  == {e \in DOMAIN f : f[e].revision < f[d].revision}
      closed == {S \in SUBSET lower : ParentClosed(f, S \cup {d})}
  IN  {d} \cup {a \in lower : \A S \in closed : a \in S}

\* find: the object of the delta comes before its removal, and both before
\* the parent.
Find(f, d, k) ==
  LET found[a \in DOMAIN f] ==
        IF f[a].store[k] # Absent THEN f[a].store[k]
        ELSE IF k \in f[a].removed \/ f[a].parent = Nil THEN Absent
        ELSE found[f[a].parent]
  IN  found[d]

ContentsOf(f, d) == [k \in Keys |-> Find(f, d, k)]

-----------------------------------------------------------------------------
(* Merkle roots and delta entries *)

\* get_delta_entries: how often a key is listed, and its object.  A key that
\* was removed and written again is listed twice.
EntriesOf(r) ==
  [k \in Keys |->
     LET held == r.store[k] # Absent
         gone == k \in r.removed
     IN  <<IF held /\ gone THEN 2 ELSE IF held \/ gone THEN 1 ELSE 0, r.store[k]>>]

\* merkle_root: computed once.
MerkleRoot(r) == IF r.merkle = Unset THEN EntriesOf(r) ELSE r.merkle

-----------------------------------------------------------------------------
(* Writing *)

Insert(f, x, y) == [z \in DOMAIN f \cup {x} |-> IF z = x THEN y ELSE f[z]]
Keep(f, S) == [z \in DOMAIN f \cap S |-> f[z]]

\* The revision is that of the parent.
WrongMakeChild(p) ==
  [parent |-> p, revision |-> delta[p].revision, store |-> EmptyStore,
   removed |-> {}, finalized |-> FALSE, merkle |-> Unset]

MakeChild(p) ==
  [parent |-> p, revision |-> delta[p].revision + 1, store |-> EmptyStore,
   removed |-> {}, finalized |-> FALSE, merkle |-> Unset]

\* state_delta::put
PutInto(r, k, v) == [r EXCEPT !.store[k] = v]

\* The removal is not recorded.
WrongEraseFrom(r, k) == [r EXCEPT !.store[k] = Absent]

\* state_delta::erase of a key that find has found
EraseFrom(r, k) == [r EXCEPT !.store[k] = Absent, !.removed = @ \cup {k}]

\* The objects first, then the removals.
WrongWriteBack(s, r) ==
  [k \in Keys |-> IF k \in r.removed THEN Absent
                  ELSE IF r.store[k] # Absent THEN r.store[k]
                  ELSE s[k]]

\* One delta of the stack state_delta::commit writes to the root backend: the
\* removals first, then the objects.
WriteBack(s, r) ==
  [k \in Keys |-> IF r.store[k] # Absent THEN r.store[k]
                  ELSE IF k \in r.removed THEN Absent
                  ELSE s[k]]

\* An object does not undo a removal of the parent.
WrongSquashInto(p, r) ==
  [p EXCEPT !.store = WriteBack(p.store, r),
            !.removed = IF p.parent = Nil THEN @ ELSE @ \cup r.removed]

\* state_delta::squash of the delta r into its parent p.
SquashInto(p, r) ==
  [p EXCEPT !.store = WriteBack(p.store, r),
            !.removed = IF p.parent = Nil THEN @
                        ELSE (@ \cup r.removed) \ {k \in Keys : r.store[k] # Absent}]

-----------------------------------------------------------------------------
(* State nodes *)

\* The genesis function may write to the root until it is finalized.
Init ==
  /\ delta = [d \in {Genesis} |-> [parent |-> Nil, revision |-> 0, store |-> EmptyStore,
                                   removed |-> {}, finalized |-> FALSE, merkle |-> ZeroRoot]]
  /\ anon = [a \in {} |-> Nil]

\* put_object of a state node or an anonymous node
Put(u, k, v) ==
  /\ u \in Users
  /\ ~delta[StateOf(u)].finalized
  /\ delta' = [delta EXCEPT ![StateOf(u)] = PutInto(@, k, v)]
  /\ UNCHANGED anon

\* remove_object
Remove(u, k) ==
  /\ u \in Users
  /\ ~delta[StateOf(u)].finalized
  /\ Find(delta, StateOf(u), k) # Absent
  /\ delta' = [delta EXCEPT ![StateOf(u)] = EraseFrom(@, k)]
  /\ UNCHANGED anon

CreateNode(p, n) ==
  /\ p \in LiveNodes
  /\ delta[p].finalized
  /\ n \notin DOMAIN delta
  /\ delta[p].revision < MaxRevision
  /\ delta' = Insert(delta, n, MakeChild(p))
  /\ UNCHANGED anon

CloneNode(m, n) ==
  /\ m \in LiveNodes
  /\ ~delta[m].finalized
  /\ ~IsRoot(m)
  /\ n \notin DOMAIN delta
  /\ delta' = Insert(delta, n, delta[m])
  /\ UNCHANGED anon

Finalize(n) ==
  /\ n \in LiveNodes
  /\ delta' = [delta EXCEPT ![n].finalized = TRUE]
  /\ UNCHANGED anon

\* merkle_root of a state node: it must be finalized.
AskMerkleRoot(n) ==
  /\ n \in LiveNodes
  /\ delta[n].finalized
  /\ delta' = [delta EXCEPT ![n].merkle = MerkleRoot(delta[n])]
  /\ UNCHANGED anon

\* The node n and every delta below it leave the index.
Below(n) == {d \in DOMAIN delta : n \in Lineage(delta, d)}

Discard(n) ==
  /\ n \in LiveNodes
  /\ ~IsRoot(n)
  /\ delta' = Keep(delta, DOMAIN delta \ Below(n))
  /\ anon' = Keep(anon, {a \in DOMAIN anon : anon[a].state \notin Below(n)})

\* The root backend after the stack of deltas from the root up to n was
\* written to it.
Written(n) ==
  LET upTo[a \in Lineage(delta, n)] ==
        IF IsRoot(a) THEN delta[a].store ELSE WriteBack(upTo[delta[a].parent], delta[a])
  IN  upTo[n]

\* The merkle root is not computed before the backend is that of the root.
WrongCommit(n) ==
  /\ DOMAIN anon = {}
  /\ n \in LiveNodes
  /\ ~IsRoot(n)
  /\ delta[n].finalized
  /\ delta' = [d \in Below(n) |->
                 IF d = n THEN [delta[n] EXCEPT !.parent = Nil, !.store = Written(n),
                                                !.removed = {}]
                 ELSE delta[d]]
  /\ UNCHANGED anon

\* commit_node holds the unique lock: no anonymous node is in use.
Commit(n) ==
  /\ DOMAIN anon = {}
  /\ n \in LiveNodes
  /\ ~IsRoot(n)
  /\ delta[n].finalized
  /\ delta' = [d \in Below(n) |->
                 IF d = n THEN [delta[n] EXCEPT !.parent = Nil, !.store = Written(n),
                                                !.removed = {}, !.merkle = MerkleRoot(delta[n])]
                 ELSE delta[d]]
  /\ UNCHANGED anon

-----------------------------------------------------------------------------
(* Anonymous nodes *)

\* create_anonymous_node of a state node or an anonymous node
CreateAnonymous(a, u, d) ==
  /\ u \in Users
  /\ a \in Handles \ DOMAIN anon
  /\ d \in Drafts \ DOMAIN delta
  /\ delta' = Insert(delta, d, MakeChild(StateOf(u)))
  /\ anon' = Insert(anon, a, [parent |-> u, state |-> d])

\* anonymous_state_node::reset: the handle goes on with a child of its delta,
\* above what it has written.
ResetTo(a, d, f) ==
  /\ d \in Drafts \ DOMAIN delta
  /\ delta' = Insert(f, d, MakeChild(anon[a].state))
  /\ anon' = [anon EXCEPT ![a].state = d]

ResetAnonymous(a, d) == a \in DOMAIN anon /\ ResetTo(a, d, delta)

\* The parent may be finalized.
WrongCommitAnonymous(a, d) ==
  /\ a \in DOMAIN anon
  /\ LET s == delta[anon[a].state]
     IN  ResetTo(a, d, [delta EXCEPT ![s.parent] = SquashInto(@, s)])

\* anonymous_state_node::commit: the delta is squashed into its parent, then
\* reset.
CommitAnonymous(a, d) ==
  /\ a \in DOMAIN anon
  /\ ~delta[StateOf(anon[a].parent)].finalized
  /\ LET s == delta[anon[a].state]
     IN  ResetTo(a, d, [delta EXCEPT ![s.parent] = SquashInto(@, s)])

\* The last reference to the handle goes: an anonymous node over it holds one.
DropAnonymous(a) ==
  /\ a \in DOMAIN anon
  /\ \A b \in DOMAIN anon : anon[b].parent # a
  /\ anon' = Keep(anon, DOMAIN anon \ {a})
  /\ delta' = Keep(delta, LiveNodes \cup
                          UNION {Lineage(delta, anon[b].state) : b \in DOMAIN anon \ {a}})

-----------------------------------------------------------------------------

Next ==
  \/ \E u \in Nodes \cup Handles, k \in Keys, v \in Values : Put(u, k, v)
  \/ \E u \in Nodes \cup Handles, k \in Keys : Remove(u, k)
  \/ \E p, n \in Nodes : CreateNode(p, n)
  \/ \E m, n \in Nodes : CloneNode(m, n)
  \/ \E n \in Nodes : Finalize(n)
  \/ \E n \in Nodes : AskMerkleRoot(n)
  \/ \E n \in Nodes : Discard(n)
  \/ \E n \in Nodes : Commit(n)
  \/ \E a \in Handles, u \in Nodes \cup Handles, d \in Drafts : CreateAnonymous(a, u, d)
  \/ \E a \in Handles, d \in Drafts : CommitAnonymous(a, d)
  \/ \E a \in Handles, d \in Drafts : ResetAnonymous(a, d)
  \/ \E a \in Handles : DropAnonymous(a)

Spec == Init /\ [][Next]_vars

-----------------------------------------------------------------------------
(* Properties *)

\* The type invariant: there is one root; any other delta reads from a delta
\* one revision below it, and a state node from a finalized state node.
TypeOK ==
  /\ DOMAIN delta \subseteq Nodes \cup Drafts
  /\ delta \in [DOMAIN delta -> Delta]
  /\ \E r \in LiveNodes : \A d \in DOMAIN delta : IsRoot(d) <=> d = r
  /\ \A d \in DOMAIN delta : ~IsRoot(d) =>
       /\ delta[d].parent \in DOMAIN delta
       /\ delta[d].revision = delta[delta[d].parent].revision + 1
       /\ d \in Nodes => delta[d].parent \in Nodes /\ delta[delta[d].parent].finalized
  /\ DOMAIN anon \subseteq Handles
  /\ anon \in [DOMAIN anon -> [parent : Users, state : DOMAIN delta \cap Drafts]]

\* An anonymous node is fresh until it, or one it lies over, is committed or
\* reset: then every delta it reads through belongs to a node or a handle.
Fresh ==
  {a \in DOMAIN anon :
     Lineage(delta, anon[a].state) \cap Drafts \subseteq {anon[b].state : b \in DOMAIN anon}}

\* What a reader of a state node or of a fresh anonymous node can tell.
Snap == INSTANCE Snapshots WITH
  Drafts  <- Handles,
  state   <- [n \in LiveNodes |-> ContentsOf(delta, n)],
  sealed  <- {n \in LiveNodes : delta[n].finalized},
  base    <- [a \in Fresh |-> anon[a].parent],
  pending <- [a \in Fresh |-> [k \in Keys |->
               IF Modified(anon[a].state, k) THEN delta[anon[a].state].store[k]
               ELSE Untouched]]

\* Reading through the chain of deltas cannot be told from each node having a
\* map of its own: a finalized node keeps its contents when its parents are
\* committed into the root and when its siblings are discarded; the commit of
\* a fresh anonymous node gives its parent exactly what the anonymous node
\* showed; and what is done with one that is no longer fresh changes no node.
ImplementsSnapshots == Snap!Spec

\* A writer reads what it wrote: after a removal the key has no object, even
\* if a parent or the node itself held one, and after a write it has the value
\* written.
ReadYourWrites ==
  [][\A u \in Users, k \in Keys :
       /\ Remove(u, k) => Find(delta, StateOf(u), k)' = Absent
       /\ \A v \in Values : Put(u, k, v) => Find(delta, StateOf(u), k)' = v]_vars

\* Squashing leaves the parent, unless it is the root, with one entry for each
\* key the anonymous node touched: an object or a removal, not both.
SquashLeavesOneEntry ==
  [][\A a \in DOMAIN anon, d \in Drafts : CommitAnonymous(a, d) =>
       LET s == anon[a].state
           p == delta'[delta[s].parent]
       IN  p.parent # Nil =>
             \A k \in Keys : Modified(s, k) => (p.store[k] # Absent) # (k \in p.removed)]_vars

\* The merkle root of a finalized node is that of the writes on it, asked
\* early, late or for the first time by the commit that turns the node's own
\* writes into the whole contents of the root; and it stays so.
MerkleRootOfWrites ==
  /\ [](\A n \in LiveNodes :
          delta[n].finalized /\ ~IsRoot(n) => MerkleRoot(delta[n]) = EntriesOf(delta[n]))
  /\ [][\A n \in LiveNodes :
          delta[n].finalized /\ n \in LiveNodes' => MerkleRoot(delta'[n]) = MerkleRoot(delta[n])]_vars

\* A statement of a comment that the code does not keep.

\* The comment of create_anonymous_node: the node it was called on is the
\* parent, so a commit, each time, gives that node what the anonymous node
\* showed.
CommitReachesParent ==
  [][\A a \in DOMAIN anon, d \in Drafts : CommitAnonymous(a, d) =>
       \A k \in Keys : Find(delta, StateOf(anon[a].parent), k)' = Find(delta, anon[a].state, k)]_vars
=============================================================================
