# A verification of koinos-state-db

This directory is a TLA+ model of the library in `src/`: a fork-aware database
that keeps one persistent state (the root) and a tree of uncommitted states
(the nodes) above it. TLC checks the modules on small instances. TLAPS proves
for every instance the invariants of the tree, of the threads that create nodes,
of the deltas, of the iteration and of the backend of the root, and that the
deltas implement nodes with contents of their own.

Paths below are relative to `src/`; `state_db.cpp` and `state_delta.cpp` are in
`src/koinos/state_db/`, `state_db.hpp` is in `include/koinos/state_db/`.

## The system

| component | state | operations | interacts with |
|---|---|---|---|
| fork database, `database_impl` in `state_db.cpp` | `_index` (deltas by id, parent, revision), `_root`, `_head`, `_fork_heads`, the comparator | open, close, reset, create_writable_node, clone_node, finalize_node, discard_node, commit_node, get_* | creates and links state deltas; commit writes them to the root backend |
| state delta, `state_delta.cpp` | parent, backend, removed keys, id, revision, finalized, merkle root | put, erase, find, squash, commit, clone, make_child, finalize, merkle_root, get_delta_entries | a chain of shared pointers down to the root delta |
| anonymous nodes, `state_db.cpp:1173-1273` | `_parent`, the delta behind the handle | create_anonymous_node, commit, reset | squash into the delta below |
| node creation and locks, `state_db.cpp:207-255, 475-572` | `_node_mutex`, `_index_mutex`, `_fork_heads_mutex`, one mutex and condition variable per delta | lock handles of callers; create_writable_node waits up to a second for its parent to be finalized | finalize_node notifies |
| merge iterator, `merge_iterator.cpp` | one iterator per delta of a chain, ordered by key and revision | ++, --, begin, end, lower_bound, find | reads backends and removed keys; get_next_object, get_prev_object |
| rocksdb backend, `backends/rocksdb/rocksdb_backend.cpp` | the database directory, a write batch, size and metadata in memory, the cache | open, close, put, get, erase, clear, start/end_write_batch, load/store_metadata | under the root delta |
| object cache, `object_cache.cpp` | map, LRU list, byte count | get, put, remove, clear | in front of rocksdb |
| map backend and iterators | a sorted map | put, get, erase, clone, iterators | under every delta but the root |

What is hard here:

- **Failure half way.** discard_node and commit_node throw after they have
  changed `_fork_heads`, `_root`, the index and the database.
- **Long sequences of legal calls.** The fork heads are maintained by local
  rules; what they are after forks were created, finalized, discarded and
  committed in any order is not visible in one function.
- **Fork resolution.** A comparator may answer with another fork or with the
  null pointer, which moves the head back.
- **Chains of deltas.** A read goes through any number of deltas, a commit
  collapses several of them into the root, a squash merges two.
- **Persistence.** What is on disk after a refused commit, a close or a crash.
- **Concurrency.** Callers share the node mutex; create_writable_node reads,
  waits and writes at three moments.
- **Iteration in both directions.** One iterator per delta, moved together over
  keys that higher deltas have written or removed.

What makes each correct: the index is a tree below the root with consecutive
revisions; head and fork heads are finalized nodes of it; the head is the best
chain; the directory describes the root; a node reads as if it were a map of
its own; a finalized node never changes; a waiting creator gets its node if the
parent is finalized in time; iteration shows the sorted contents.
`PROJECT.json` lists the single hazards with their lines.

## Modules

| module | models |
|---|---|
| `ForkDatabase` | `database_impl`: the tree, head, fork heads, root, and the stored metadata |
| `CarefulClient` | `ForkDatabase` under a caller that follows the comments and tests; get_node_at_revision |
| `Snapshots` | abstract: state nodes as maps of their own, drafts as sets of writes |
| `StateDelta` | deltas, reads through the chain, commit, squash, merkle roots, anonymous nodes; implements `Snapshots` |
| `NodeCreation` | threads that create, finalize, discard and commit nodes, lock by lock |
| `MergeIterator` | iteration over a chain of deltas, get_next_object and get_prev_object |
| `ObjectCache` | the cache of the rocksdb backend, as operators |
| `RocksdbBackend` | the root backend: directory, write batch, cache, and crashes |
| `ForkDatabase_proofs`, `CarefulClient_proofs`, `StateDelta_proofs`, `MergeIterator_proofs`, `NodeCreation_proofs`, `RocksdbBackend_proofs` | theorems about those modules |
| `StateDelta_refinement` | the theorem that `StateDelta` implements `Snapshots` |
| `Induction` | least elements and recursion along parents, for the proofs |
| `MC*` | constants of the instances TLC checks |

A definition whose name starts with `Wrong` is the definition after it with a
plausible mistake. No definition uses it; each property was tried with one of
them in the place of the right definition and TLC then finds it violated.

The modules divide the system along its interfaces. `ForkDatabase` takes every
call as one step and knows nothing of contents; `StateDelta` knows contents and
the links between deltas, and nothing of heads; `NodeCreation` takes apart the
calls that hold more than one lock; `MergeIterator` and `RocksdbBackend` look
inside what a read and a commit of `StateDelta` do. What passes between them
is repeated where it is needed: the commit of `RocksdbBackend` takes any stack
of deltas that `StateDelta` could have, `DurableRoot` of `ForkDatabase` is about
the metadata that `CommitReachesDisk` says is on disk after a commit.

### ForkDatabase

The variables are the fields of `database_impl`, with `index` mapping an id to
parent, revision, header and the finalized flag, `lost` the deltas of the index
whose `_backend` a commit has taken away (`state_delta.cpp:109-110`), and
`persisted` the metadata in the directory. The actions are the public
operations:

| action | code |
|---|---|
| `Open`, `Close`, `Reset` | `state_db.cpp:257-348` |
| `CreateWritableNode`, `CloneNode` | `475-621` |
| `FinalizeNode`: `Higher`, `Lower` or `Tie`, then `Supersede` | `623-745` and the comparators `1275-1328` |
| `FinalizeCrash` | a comparator dereferences a null pointer |
| `DiscardNode` | `747-824`, including the throw at the head after some fork heads were erased |
| `CommitNode`: `CommitDetached` or `CommitDelta` | `826-852` and `state_delta.cpp:83-148` |

Every operation is one step: all of them hold `_index_mutex` from the first
read to the last write, but create_writable_node, whose one effect on this state
is the insertion (`NodeCreation` shows it lock by lock). Calls that throw before
they change anything are stuttering steps. The order in which the traversal of
a discard visits the nodes of one level is not fixed by the model: `Visited`
allows each set of nodes it can have passed when it meets the head. Reading a
node whose backend is gone, or the parent of the root, ends the process. Where
it depends on `std::sort` whether such a node is read, both outcomes are
possible. Boost's `modify` leaves the element in place when the modifier throws.

A backend without a path (in memory) is left out; a root delta cannot be cloned
because the rocksdb backend refuses it.

### CarefulClient

The library does not ask its callers to finalize a node once, to discard only
forks or to commit only ancestors of the head. Its tests do so (`fork_tests` in
`tests/state_db_test.cpp`). Under this caller no call is refused half way, so
that stronger properties hold. `TryCommitSpec` adds one call outside of that
order.

### StateDelta and Snapshots

`delta` holds the deltas by name: the state nodes under their ids, those of
anonymous nodes under names of their own. `anon` holds the handles: `_parent`
and the current delta. `Find` is `state_delta::find`: the object of a delta
counts before its removed set, else the parent is asked. `Commit` applies
`WriteBack` to the deltas from the root up. `CommitAnonymous` squashes and then
resets, and `ResetTo` is what the code does: a child of the handle's own delta.

A merkle root is what it is a root of: `EntriesOf`, the list of
get_delta_entries. The field `merkle` is the cached value, `Unset` before the
first question and `ZeroRoot` on the root of a new database, whose stored root
is that value and not one of its writes. A key that is removed and written again
on one node stays in the removed set and is listed twice; the model keeps that,
because it shows in the merkle root.

`Snapshots` says what users rely on: a node is a copy of its parent that changes
only by writes to it, a draft is applied at once to what it lies over.
`ImplementsSnapshots` is that specification under the refinement mapping in
`StateDelta`. An anonymous node is visible in the mapping while it is *fresh*:
neither it nor one it lies over has been committed or reset. One that is not
fresh is checked to change no state node and no fresh anonymous node; what its
own commit does is the subject of the run `commit_again`.

### NodeCreation

`node` is the list of all deltas made so far, each with the owner of its cv
mutex; `index` maps an id to a delta, so that a node that is discarded and
created again is another delta under the same id. `call` holds, for each thread,
where it is between two acquisitions of locks, the delta it looked up and
whether its deadline has passed. The steps:

| actions | code |
|---|---|
| `LookUp`, `LockParent`, `LockParentTimeout`, `CheckFinalized` | `state_db.cpp:482-498` |
| `Sleep`, `WakeSpuriously`, `WakeTimeout`, `WakeUp`, `WakeUpLate` | `499-501` |
| `Insert`, `InsertTimeout` | `503-524` |
| `Find`, `SetFinalized`, `NotifyAll`, `UpdateHead` | finalize_node, `623-745` |
| `Discard`, `Commit` | `747-852` |

The shared lock that a creation, finalization or discard holds on the node mutex
is the rule that `Commit`, which has the unique one, finds no other call under
way.

### MergeIterator

`chain` is what each delta from the root to the node holds and has removed,
`pos` the iterator of each. `Resolve`, `Incremented`, `Rewound` and
`Decremented` are `resolve_conflicts`, `operator++` and the two halves of
`operator--`. The reference is `Visible`: the keys for which `Find` of
`StateDelta` would return an object. The iterators of both backends are a
position in a sorted set of keys. The loop of `resolve_conflicts` is a recursive
function of the positions.

### ObjectCache and RocksdbBackend

`ObjectCache` is the LRU list and the map of the cache. `RocksdbBackend` has
`disk`, what is in the directory: its column families, objects and metadata;
and `rdb`, what is in memory and gone after a crash. `Put` and `Erase` are the
two functions of the backend: a put goes to the batch while there is one, an
erase to the directory at once. Every call of the database that changes the
directory is taken apart into its writes: setup_database (`CreateFamily`,
`PutDefault`), genesis, `state_delta::commit` (`StartCommit`, `CommitErase`,
`CommitPut`, `PopDelta`, `StoreField`, `EndBatch`), close and `clear`
(`DropFamily`). `Crash` may come between any two.

Four history variables only record: `goal`, what the last commit found, writes,
removes and is to leave; `undone`, the keys that a commit since the last open
wrote in one delta and removed in a higher one; `unsaved`, whether objects were
changed since the last size that was put for good; and `miscounted`, whether a
crash has left a wrong size in the directory, or a commit may have: one that
undid a key, or wrote one twice that the directory does not have. The properties
need them because the code is not right for such commits (`resurrected`): erase
does not know the batch, and get knows it only by the cache. `CacheCoherent`
excepts a cached null for a key of `undone`, `SizeCounts` and `GenesisOnce` a
miscounted size, and `CommitReachesDisk` names the keys that come back.
Everything else is required of every commit.

## Runs

| run | shows | bounds |
|---|---|---|
| `fork_block_time` | the invariants of the tree, the longest chain and the changes of the head, for any caller | 4 ids, revisions to 3, 2 timestamps |
| `careful_block_time` | fork heads are the tips, no call is refused, get_node_at_revision | 5 ids, revisions to 3, 2 timestamps |
| `careful_pob` | with pob: when the head may move back, that it stays a fork head, and that every call runs to its end | 5 ids, revisions to 2, 2 signers |
| `delta_tree` | reads through chains of deltas, merkle roots | 4 nodes, revisions to 3, 1 key, 2 values |
| `delta_anonymous` | anonymous nodes, nested or side by side, and used again | 2 nodes, 2 handles, 3 deltas, 1 key, 1 value |
| `creation` | no lost wakeup, no child over a node that is not finalized or not in the index, every call returns | 2 threads, 4 ids, 3 calls |
| `merge` | iteration visits what find returns, in order, in both directions | 3 keys in 2 object spaces, chains of up to 3 deltas |
| `backend` | cache, size, genesis, batch and directory through commits and crashes | 2 keys, 2 values of different size, a cache of 5 bytes, revisions to 2, commits of up to 2 deltas |

Four ids are the root and a chain of three, or any mix of chain and fork; ids
are used again after a discard, so behaviours are longer than the tree is
large. They are enough for a fork with a tip on each side below an inner node,
for a refused discard and commit and for what follows them. Five ids, for the
careful caller, give two forks of two, or a head with two rivals and a further
fork. Two headers give every order of timestamps between a head and a rival;
the ids break the remaining ties. block_time is the resolution the runs use:
fifo is the same with the answer "the head", and the proofs cover it. One key is
enough for the contents, because no operation of `StateDelta` relates two keys;
two values tell an old object from a new one, and where only one value is used
an object, a removal and no entry are still told apart. The tree of nodes and
the anonymous nodes are explored in separate instances, because together they
do not fit in minutes.

`creation` begins with a root that has two finalized children, so that three
calls reach all races of a pair: one call makes a node that is not finalized, a
second waits for it while a third finalizes or discards it, or a thread commits
before. A third thread would only add another waiter; the proofs are for any
number of threads and calls. In `merge` three deltas over three keys put a
written, a removed and an untouched key in every order, at both ends and in the
middle; the first key is in an object space of its own, so that a neighbour can
belong to another space. The cache of `backend` holds two entries unless both
are long, so that a put evicts the other key or not, depending on both values;
the proofs are for any sizes. Two revisions give a commit after a commit, or a
commit of two deltas: enough for a key that is written and removed, removed and
written, or written twice with its entry evicted in between, beside another key.
`_size` has eight values, of which two keys need three: it wraps as the 64 bits
of the code do, and the proofs need only that it is larger than the number of
keys.

The runs that end in a violation each show that the code does not keep a
statement of a comment. They are listed under `findings` in `PROJECT.json`:

| run | statement | what happens |
|---|---|---|
| `refused_commit` | "All state nodes are guaranteed to a descendant of root." (`state_db.hpp:467`) | a commit that throws has moved the root |
| `commit_again` | "an anonymous state node with this node as its parent" (`state_db.hpp:109`) | the second commit does not reach the parent |
| `resurrected` | "this delta becomes the new root delta and state is written to the root backend" (`state_delta.cpp:93`) | a key that a lower delta of the commit writes and a higher one removes is in the directory |
| `torn_commit` | "making the entire merge atomic" (`state_delta.cpp:141`) | a crash leaves removals or metadata of the new root beside objects of the old one |

Three smaller disagreements were met and have no run. A discard that throws at
the head has already dropped fork heads, and a writable child keeps its parent
out of the fork heads after a discard, against "Fork heads are any finalized
nodes that do not have finalized children" (`state_db.hpp:431`). A key removed
and written again is in both sets of a delta, against the comment at
`state_delta.cpp:59`. A statement that pob does not keep by design has none
either: "Head is determined by longest chain" (`state_db.hpp:408`) is about the
other two resolutions.

**Fairness.** Only `NodeCreation` has fairness: the calls of the other modules
are those of a user who may stop. `FairSpec` assumes of each thread that it is
scheduled (`WF_vars(Step(t))`: a step that stays possible is taken) and that
its deadline comes (`WF_vars(Tick(t))`), which the scheduler and the clock give
the code. Nothing is assumed about who gets a mutex next, about wakeups without
a reason, or about further calls. `EveryCallReturns` follows because the one
circle of waiting, a creation that holds the cv mutex and wants the index mutex
beside a finalization that holds the index mutex and wants the cv mutex, is
broken by the deadline of the creation. The calls of a behaviour are finitely
many; with calls that never end to come, a mutex could pass by one thread for
ever, and the standard library promises no more.

## Proofs

`ForkDatabase_proofs` proves, for any sets of ids and headers, any bound on the
revisions and each of the three fork resolutions, from `ConstantsAssumption`:

- the type invariant and the invariants `HeadIsForkHead`, `ForkHeadsLive`,
  `ParentsLive`, `RootReachesAll`, `DurableRoot`, `LongestChain`;
- the action properties `HeadOnlyImproves` and `PersistedAdvances`.

None of the invariants is inductive alone. `IInv` is their conjunction with
three more facts:

- `TreeOK`: every node of the index is reached from a node without a parent,
  and parents are in the index, finalized and one revision lower. Discarding a
  subtree keeps this, because `Subtree` is the least set closed under children
  (`SubtreeClosed`, `SubtreeLeast`), and so does making a committed node a root.
- The nodes in `lost` are roots. A node loses its backend when it is the end of
  the chain a commit walks down, so no node with a parent is ever without one.
- `OneBackend`: there is at most one root with a backend. It is the node the
  metadata describes, which gives `DurableRoot` after a refused commit, and it
  makes the stored revision grow: a commit goes from that root to a node above
  it (`BelowIsHigher`).

There is one lemma per action. `LongestChain` needs the result of the comparator
in a tie (`ComparatorResult`, `FinalizeHeadResult`): with fifo and block_time it
is the head or a node as high.

`CarefulClient_proofs` proves that a careful caller does nothing that
`ForkDatabase` does not allow (`CarefulRefines`), so that the theorems above hold
for it, and then `OneTree`, `CallsComplete`, `ForkHeadsAreTips`, `LeafIsForkHead`,
`WalkFindsRevision` and `RetreatNeedsDoubleProduction`. The invariant `CInv` adds
to `IInv` that an open database has one root, which is `_root` and has a
backend, that the all-zero id is only used for a root of revision zero, and the
two statements about fork heads. The main lemma is `DetachSplits`: when a commit makes a node a
root, what the old root still reaches is everything but the subtree of that
node, so that the discard of the old root keeps the head and leaves one root.
`CommitResult` is the state after it. That a walk along the parents meets every
revision between the root's and the node's (`AncestorAt`) is shown with a
highest revision that is missed.

`StateDelta_proofs` proves, for any sets of nodes, anonymous nodes, keys and
values, the type invariant, `ReadYourWrites`, `MerkleRootOfWrites` and
`SquashLeavesOneEntry`. The invariant `IInv` is made of `TreeOK`, which is the
type invariant for the deltas, and:

- `HandlesApart`: no two anonymous nodes share a delta;
- `FreshOverParent`: the delta of a fresh anonymous node lies over that of its
  parent, which is why its commit reaches the parent;
- `OverSameNodes`: an anonymous node, fresh or not, lies over the same state
  nodes as its parent, so that a discard that takes the parent takes it too;
- `MerkleCached`: a merkle root that has been computed is that of the writes of
  a finalized node, and that of the root has been computed.

`Find` is a recursive function on `Lineage`, the least set closed under parents.
`FindUnfold` says that it is what it was written to be: a delta that has modified
the key answers, any other answers as its parent; the rest follows from that.
`WrittenIsContents` says that what a commit writes into the root, delta by delta
from below, is what the committed node showed.

`StateDelta_refinement` proves `ImplementsSnapshots` from that invariant: there is
one lemma for each action, which says which step of `Snapshots` it is under the
mapping, or that it is none. Creations and clones are those of `Snapshots`,
put_object and remove_object are `Write`, finalize is `Seal`, a discard is
`Drop`. The commit of nodes is the discard of those that
are not above the new root, because what the others read is unchanged
(`CommitReads`). The commit of a fresh anonymous node adds its writes to what it
lies over, a node (`SquashIntoNode`) or another anonymous node
(`SquashIntoDraft`); whatever is done with one that is not fresh is no step.

`MergeIterator_proofs` proves, for chains of any length and any keys and object
spaces, the type invariant, `AtNewest`, `InOrder`, `BackNeverThrows` and
`NeighboursFound`. In the invariant `MInv` the first iterator is at a key that
shows or at the end, and `Covers`: of the keys from that one on, the delta that
shows a key has not moved its iterator past it. `Covers` is what has to survive a
change of direction: after operator-- an iterator of a delta that shows nothing
before the old key is at its first key or where it was, behind everything that
is to come (`RewoundTo`). `ResolveIs` says what resolve_conflicts does: iterators
go forward only, and none past a key its delta shows. The loop ends because each
round makes the first key greater or, at the same key, the first delta a lower
one (`RoundsFall`).

`Induction` is how these proofs do without the induction theorems of the library,
whose operator parameters the provers cannot instantiate. A proof by induction
takes a least counterexample (`LeastNatural`, `LeastRank`), and a recursive
function exists, and so is what it was defined to be, because it exists up to
every rank (`ParentRecursion`): the rank is the revision for what is read along
parents, and the number of rounds left for `Resolve`. What `Min` and `Max` of the
community modules return is proved here too.

`NodeCreation_proofs` proves, for any set of threads and ids and any number of
calls, the type invariant, which says who owns each mutex, `NoLostWakeup`,
`ChildOfFinalized` and `ParentIndexed`. The inductive invariant adds `FlagRead`
to them: a thread that is about to insert has read a flag that is still set, one
that is about to sleep a flag that is still clear. It holds because the flag
changes only under the cv mutex, and both threads own it (`Owned`). From it
follow the two theorems that are about a flag read earlier: a child is made over
a finalized parent, and a thread that goes to sleep does so before the flag is
set and hence before the notification. `ParentIndexed` rests on the second
check by id in `Insert`, on discards being closed under children by id, and on
commits keeping what is below the new root.

`RocksdbBackend_proofs` proves, for any keys, values, entry sizes and cache:

- the type invariant, for commits of any number of deltas. Its main part is
  `CacheOK`: the list and the map of the cache hold the same keys, each once, and
  the bytes of their objects fit. `_cache_size` is a fold over the list; the
  lemmas up to `UsedWithout` show that it is the last of the sums of the first
  entries (`UsedIs`), and with that what a key at the front (`UsedFront`) and one
  taken from the middle (`UsedWithout`) do to it. An eviction finds an end that
  fits because no entry is larger than the cache (`EvictListed`), which
  `CacheAssumption` states; a put does not count the key twice because it
  removes it first (`CachePutInv`). `TypeInv` adds the ranges of the stored size and
  revision, which an open takes over, and that a commit has a delta to write;
- `DataOpensAgain`, for commits of any number of deltas. The invariant `DataInv`
  says how far each phase has come: in the phases with an open directory all
  column families and metadata are there, and in setup there is no object yet.
- `CacheCoherent`, `SizeCounts`, `GenesisOnce`, `BatchAllOrNothing` and
  `CommitReachesDisk`, for commits of any number of deltas. `BatchInv`
  strengthens them: what a commit writes is in the batch or still in the stack,
  and a removal of a key that the batch holds was foreseen in `undone`
  (`Batching`); a key that will be written twice is in the directory, so that get
  finds it whatever is evicted, unless the size is miscounted (`Counting`); the
  fields already put describe the backend (`Stored`), and between commits the
  size in the directory is that of its objects (`Saved`); until the batch is
  written the directory changes by removals alone (`OnlyRemoved`), and what is
  still to be written makes, of the directory under the batch, the contents
  that are wanted (`Goals`). A put and an erase change one key of that overlay
  and the size with it (`PutThere`, `EraseThere`).

Only model-checked: `EveryCallReturns`, because liveness under fairness is out of
reach of the provers used here. Every invariant and every other property of a
passing run is proved without a bound.

## Not modelled

- The byte counts put_object and remove_object return.
- Two threads writing one state node or sharing one anonymous node: the test of
  the finalized flag and the write after it are one step. The comments ask
  callers to serialize writes to a node (`state_db.hpp:199-201`).
- That the parent of a new node is the delta in the index, when it was discarded
  and its id created again in between: `NodeCreation` has the race, the comments
  leave it to the caller (`state_db.hpp:195-197`).
- A state node handle that is used after its node was discarded.
- How long the pointer lives that the backend returns from its cache.
- `object_cache::clear`, which leaves the byte count as it was: no cache is used
  after it.
- The order in which rocksdb recovers writes that were not synced. A crash of
  the machine that loses the last writes is the model's crash at an earlier
  moment.
- Exceptions of rocksdb itself and out of memory.
- The protocol buffers, hashing and logging of the libraries used.

## Plan

1. Composition: `ForkDatabase` with the contents of `StateDelta`, as far as small
   instances allow: which contents the head shows after each call.
