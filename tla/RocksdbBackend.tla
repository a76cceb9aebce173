--------------------------- MODULE RocksdbBackend ---------------------------
(***************************************************************************)
(* The backend of the root delta                                           *)
(* (src/koinos/state_db/backends/rocksdb/rocksdb_backend.cpp): a rocksdb   *)
(* directory, the write batch and the cache in front of it, and what the   *)
(* database does to it: open, genesis, reads, commits, close and reset.    *)
(* Each write to the directory is a step of its own, and the process may   *)
(* crash between any two.                                                  *)
(*                                                                         *)
(* Simplifications:                                                        *)
(*  - Id, merkle root and header of a node are told apart by its revision, *)
(*    so that the metadata is the size and four times the node.            *)
(*  - No write fails: the exceptions that report one leave the process to  *)
(*    its caller, which is a crash as far as the directory is concerned.   *)
(*  - A crash keeps what was written.  Writes are not synced, and a crash  *)
(*    of the machine may lose the last ones; rocksdb then recovers the     *)
(*    directory of an earlier moment, which is a crash at that moment.     *)
(*  - Each open has a new backend, as in open_lockless.                    *)
(*  - _size has SizeLimit values where the code has 2^64.                  *)
(***************************************************************************)
EXTENDS ObjectCache

CONSTANTS
  NoBatch,
  MaxNode,    \* bound of the model: the highest revision of a root
  MaxStack,   \* the most deltas one commit writes
  SizeLimit   \* one more than the largest _size

ASSUME BackendAssumption ==
  /\ MaxNode \in Nat
  /\ MaxStack \in Nat \ {0}
  /\ IsFiniteSet(Keys)
  /\ SizeLimit \in Nat /\ SizeLimit > Cardinality(Keys)
  /\ \A S \in SUBSET Keys : NoBatch \notin [S -> Values]

VARIABLES
  disk,    \* the directory: column families, objects and metadata
  phase,   \* what the process is doing
  rdb,     \* the rocksdb_backend: _size, the node, _cache and _write_batch
  stack,   \* the deltas state_delta::commit has still to write, lowest first
  todo,    \* the metadata still to be put
  goal,    \* history: what the last commit found, removes, writes and is to leave
  undone,  \* history: the keys that a commit since open wrote and removed again
  unsaved, \* history: objects changed since the last size that was put for good
  miscounted  \* history: a commit or a crash may have left a wrong size

history == <<undone, unsaved, miscounted>>
vars == <<disk, phase, rdb, stack, todo, goal, history>>

Families == {"objects", "metadata"}
Fields == <<"size", "revision", "id", "merkle_root", "block_header">>
Contents == [Keys -> Values \cup {Absent}]
Delta == [removed : SUBSET Keys, object : Contents]

NoObjects == [k \in Keys |-> Absent]
NoMetadata == [f \in {} |-> 0]
Empty == [families |-> {}, objects |-> NoObjects, metadata |-> NoMetadata]
Fresh == [size |-> 0, node |-> 0, cache |-> EmptyCache, batch |-> NoBatch]

\* The history of a root that is not being committed over.
Unchanging(c, n) == [before |-> c, removed |-> {}, written |-> {}, after |-> c, node |-> n]

Count(c) == Cardinality({k \in Keys : c[k] # Absent})

IsOpen == phase \in {"genesis", "ready", "commit", "store", "closing"}
Batched == rdb.batch # NoBatch

\* The objects of the directory under those of the batch.
Overlay ==
  [k \in Keys |-> IF Batched /\ k \in DOMAIN rdb.batch THEN rdb.batch[k] ELSE disk.objects[k]]

-----------------------------------------------------------------------------
(* get, put and erase of an open backend *)

\* What get returns: the batch is not asked.
Got(k) == IF IsCached(rdb.cache, k) THEN rdb.cache.object[k] ELSE disk.objects[k]

\* The cache after get: the answer of the database is cached, also none.
AfterGet(k) ==
  IF IsCached(rdb.cache, k) THEN CacheGet(rdb.cache, k)
  ELSE CachePut(rdb.cache, k, disk.objects[k])

\* A put does not wait for the batch.
WrongPut(k, v) ==
  /\ rdb' = [rdb EXCEPT
       !.size  = IF Got(k) = Absent THEN (@ + 1) % SizeLimit ELSE @,
       !.cache = CachePut(AfterGet(k), k, v)]
  /\ disk' = [disk EXCEPT !.objects[k] = v]

Put(k, v) ==
  /\ rdb' = [rdb EXCEPT
       !.size  = IF Got(k) = Absent THEN (@ + 1) % SizeLimit ELSE @,
       !.cache = CachePut(AfterGet(k), k, v),
       !.batch = IF Batched THEN Store(@, k, v) ELSE @]
  /\ disk' = IF Batched THEN disk ELSE [disk EXCEPT !.objects[k] = v]

\* The cache keeps what it had.
WrongErase(k) ==
  /\ rdb' = [rdb EXCEPT
       !.size  = IF Got(k) # Absent THEN (@ - 1) % SizeLimit ELSE @,
       !.cache = AfterGet(k)]
  /\ disk' = [disk EXCEPT !.objects[k] = Absent]

\* The key goes from the database at once, batch or no batch.
Erase(k) ==
  /\ rdb' = [rdb EXCEPT
       !.size  = IF Got(k) # Absent THEN (@ - 1) % SizeLimit ELSE @,
       !.cache = CachePut(AfterGet(k), k, Absent)]
  /\ disk' = [disk EXCEPT !.objects[k] = Absent]

-----------------------------------------------------------------------------
(* Opening *)

Init ==
  /\ disk = Empty
  /\ phase = "closed"
  /\ rdb = Fresh
  /\ stack = <<>>
  /\ todo = <<>>
  /\ goal = Unchanging(NoObjects, 0)
  /\ undone = {}
  /\ unsaved = FALSE
  /\ miscounted = FALSE

\* open of a directory with all column families; load_metadata throws, and
\* the directory stays closed, if a value is missing.  The genesis function
\* runs if the root has revision zero and no objects.
Open ==
  /\ phase = "closed"
  /\ disk.families = Families
  /\ DOMAIN disk.metadata = Range(Fields)
  /\ rdb' = [Fresh EXCEPT !.size = disk.metadata["size"], !.node = disk.metadata["revision"]]
  /\ phase' = IF rdb'.node = 0 /\ rdb'.size = 0 THEN "genesis" ELSE "ready"
  /\ goal' = Unchanging(disk.objects, rdb'.node)
  /\ UNCHANGED <<disk, stack, todo, history>>

\* open of another directory calls setup_database, which opens the default
\* column family alone: rocksdb refuses if there is another.
Setup ==
  /\ phase = "closed"
  /\ disk.families = {}
  /\ phase' = "setup"
  /\ todo' = Fields
  /\ UNCHANGED <<disk, rdb, stack, goal, history>>

\* CreateColumnFamilies, in this order
CreateFamily ==
  /\ phase = "setup"
  /\ \E f \in Families \ disk.families :
       /\ f = "metadata" => "objects" \in disk.families
       /\ disk' = [disk EXCEPT !.families = @ \cup {f}]
  /\ UNCHANGED <<phase, rdb, stack, todo, goal, history>>

\* The puts of setup_database, which then closes the directory for open.
PutDefault ==
  /\ phase = "setup"
  /\ disk.families = Families
  /\ disk' = [disk EXCEPT !.metadata = Store(@, Head(todo), 0)]
  /\ todo' = Tail(todo)
  /\ phase' = IF todo' = <<>> THEN "closed" ELSE phase
  /\ UNCHANGED <<rdb, stack, goal, history>>

\* The genesis function of the caller writes to the root.
GenesisPut(k, v) ==
  /\ phase = "genesis"
  /\ Put(k, v)
  /\ goal' = Unchanging(disk'.objects, 0)
  /\ unsaved' = TRUE
  /\ UNCHANGED <<phase, stack, todo, undone, miscounted>>

GenesisErase(k) ==
  /\ phase = "genesis"
  /\ Got(k) # Absent
  /\ Erase(k)
  /\ goal' = Unchanging(disk'.objects, 0)
  /\ unsaved' = TRUE
  /\ UNCHANGED <<phase, stack, todo, undone, miscounted>>

FinishGenesis ==
  /\ phase = "genesis"
  /\ phase' = "ready"
  /\ UNCHANGED <<disk, rdb, stack, todo, goal, history>>

-----------------------------------------------------------------------------
(* Reading *)

Get(k) ==
  /\ phase \in {"genesis", "ready"}
  /\ rdb' = [rdb EXCEPT !.cache = AfterGet(k)]
  /\ UNCHANGED <<disk, phase, stack, todo, goal, history>>

\* update_cache_value of an iterator at an object of the directory: a null in
\* the cache throws, no entry is filled from the iterator.
Iterate(k) ==
  /\ phase \in {"genesis", "ready"}
  /\ disk.objects[k] # Absent
  /\ rdb' = [rdb EXCEPT !.cache =
       IF IsCached(@, k) THEN CacheGet(@, k) ELSE CachePut(@, k, disk.objects[k])]
  /\ UNCHANGED <<disk, phase, stack, todo, goal, history>>

-----------------------------------------------------------------------------
(* state_delta::commit *)

\* The deltas of s that write k, and those that remove it.
Writers(s, k) == {i \in 1 .. Len(s) : s[i].object[k] # Absent}
Removers(s, k) == {i \in 1 .. Len(s) : k \in s[i].removed}

\* What the deltas of s make of the contents c: the highest that touches a key
\* decides.
Applied(c, s) ==
  [k \in Keys |-> LET deciding == Writers(s, k) \cup Removers(s, k)
                 IN  IF deciding = {} THEN c[k] ELSE s[Max(deciding)].object[k]]

\* The keys that a delta of s writes and a higher one removes.
Undone(s) == {k \in Keys : \E i \in Writers(s, k), j \in Removers(s, k) : i < j}

\* The keys that two deltas of s write and that the directory may not have.
Recounted(c, s) ==
  {k \in Keys : /\ c[k] = Absent \/ Removers(s, k) # {}
                /\ \E i, j \in Writers(s, k) : i < j}

StartCommit(s) ==
  /\ phase = "ready"
  /\ rdb.node + Len(s) <= MaxNode
  /\ rdb' = [rdb EXCEPT !.batch = [k \in {} |-> Absent]]
  /\ stack' = s
  /\ goal' = [before  |-> disk.objects,
              removed |-> {k \in Keys : Removers(s, k) # {}},
              written |-> {k \in Keys : Writers(s, k) # {}},
              after   |-> Applied(disk.objects, s),
              node    |-> rdb.node + Len(s)]
  /\ undone' = undone \cup Undone(s)
  /\ unsaved' = TRUE
  /\ miscounted' = (miscounted \/ Undone(s) # {} \/ Recounted(disk.objects, s) # {})
  /\ phase' = "commit"
  /\ UNCHANGED <<disk, todo>>

CommitErase(k) ==
  /\ phase = "commit" /\ stack # <<>>
  /\ k \in stack[1].removed
  /\ Erase(k)
  /\ stack' = [stack EXCEPT ![1].removed = @ \ {k}]
  /\ UNCHANGED <<phase, todo, goal, history>>

\* The removals are not waited for.
WrongCommitPut(k) ==
  /\ phase = "commit" /\ stack # <<>>
  /\ stack[1].object[k] # Absent
  /\ Put(k, stack[1].object[k])
  /\ stack' = [stack EXCEPT ![1].object[k] = Absent]
  /\ UNCHANGED <<phase, todo, goal, history>>

CommitPut(k) ==
  /\ phase = "commit" /\ stack # <<>>
  /\ stack[1].removed = {}
  /\ stack[1].object[k] # Absent
  /\ Put(k, stack[1].object[k])
  /\ stack' = [stack EXCEPT ![1].object[k] = Absent]
  /\ UNCHANGED <<phase, todo, goal, history>>

\* The delta is written; after the last one the metadata follows.
PopDelta ==
  /\ phase = "commit"
  /\ stack[1] = [removed |-> {}, object |-> NoObjects]
  /\ stack' = Tail(stack)
  /\ IF stack' = <<>>
     THEN phase' = "store" /\ todo' = Fields /\ rdb' = [rdb EXCEPT !.node = goal.node]
     ELSE UNCHANGED <<phase, todo, rdb>>
  /\ UNCHANGED <<disk, goal, history>>

\* A put of store_metadata, also when the backend is closed.
StoreField ==
  /\ phase \in {"store", "closing"} /\ todo # <<>>
  /\ disk' = [disk EXCEPT !.metadata[Head(todo)] =
                IF Head(todo) = "size" THEN rdb.size ELSE rdb.node]
  /\ todo' = Tail(todo)
  /\ UNCHANGED <<phase, rdb, stack, goal, history>>

\* end_write_batch
EndBatch ==
  /\ phase = "store" /\ todo = <<>>
  /\ disk' = [disk EXCEPT !.objects = Overlay]
  /\ rdb' = [rdb EXCEPT !.batch = NoBatch]
  /\ phase' = "ready"
  /\ unsaved' = FALSE
  /\ UNCHANGED <<stack, todo, goal, undone, miscounted>>

-----------------------------------------------------------------------------
(* Closing *)

\* The metadata is left to the commits.
WrongClose ==
  /\ phase = "ready"
  /\ phase' = "closing"
  /\ todo' = <<>>
  /\ UNCHANGED <<disk, rdb, stack, goal, history>>

Close ==
  /\ phase = "ready"
  /\ phase' = "closing"
  /\ todo' = Fields
  /\ UNCHANGED <<disk, rdb, stack, goal, history>>

Closed ==
  /\ phase = "closing" /\ todo = <<>>
  /\ phase' = "closed"
  /\ rdb' = Fresh
  /\ undone' = {}
  /\ unsaved' = FALSE
  /\ UNCHANGED <<disk, stack, todo, goal, miscounted>>

\* database::reset clears the backend of the root and opens the directory
\* again.
Reset ==
  /\ phase = "ready"
  /\ phase' = "clearing"
  /\ rdb' = Fresh
  /\ undone' = {}
  /\ UNCHANGED <<disk, stack, todo, goal, unsaved, miscounted>>

\* The metadata goes first.
WrongDropFamily ==
  /\ phase = "clearing"
  /\ disk' = IF "metadata" \in disk.families
             THEN [disk EXCEPT !.families = {"objects"}, !.metadata = NoMetadata]
             ELSE Empty
  /\ phase' = IF disk' = Empty THEN "closed" ELSE phase
  /\ goal' = Unchanging(NoObjects, 0)
  /\ unsaved' = FALSE
  /\ miscounted' = FALSE
  /\ UNCHANGED <<rdb, stack, todo, undone>>

\* clear drops the column families in the order of their handles.
DropFamily ==
  /\ phase = "clearing"
  /\ disk' = IF "objects" \in disk.families
             THEN [disk EXCEPT !.families = {"metadata"}, !.objects = NoObjects]
             ELSE Empty
  /\ phase' = IF disk' = Empty THEN "closed" ELSE phase
  /\ goal' = Unchanging(NoObjects, 0)
  /\ unsaved' = FALSE
  /\ miscounted' = FALSE
  /\ UNCHANGED <<rdb, stack, todo, undone>>

\* The process ends wherever it is; the directory is what is left.
Crash ==
  /\ phase # "closed"
  /\ phase' = "closed"
  /\ rdb' = Fresh
  /\ stack' = <<>>
  /\ todo' = <<>>
  /\ undone' = {}
  /\ unsaved' = FALSE
  /\ miscounted' = (miscounted \/ (unsaved /\ disk.metadata["size"] # Count(disk.objects)))
  /\ UNCHANGED <<disk, goal>>

-----------------------------------------------------------------------------

Stacks == UNION {[1 .. n -> Delta] : n \in 1 .. MaxStack}

Step ==
  \/ Open
  \/ Setup
  \/ CreateFamily
  \/ PutDefault
  \/ \E k \in Keys, v \in Values : GenesisPut(k, v)
  \/ \E k \in Keys : GenesisErase(k)
  \/ FinishGenesis
  \/ \E k \in Keys : Get(k)
  \/ \E k \in Keys : Iterate(k)
  \/ \E s \in Stacks : StartCommit(s)
  \/ \E k \in Keys : CommitErase(k)
  \/ \E k \in Keys : CommitPut(k)
  \/ PopDelta
  \/ StoreField
  \/ EndBatch
  \/ Close
  \/ Closed
  \/ Reset
  \/ DropFamily

Next == Step \/ Crash

\* A process that never crashes.
SmoothSpec == Init /\ [][Step]_vars

Spec == Init /\ [][Next]_vars

-----------------------------------------------------------------------------
(* Properties *)

TypeOK ==
  /\ disk.families \subseteq Families
  /\ disk.objects \in Contents
  /\ DOMAIN disk.metadata \subseteq Range(Fields)
  /\ \A f \in DOMAIN disk.metadata : disk.metadata[f] \in Nat
  /\ phase \in {"closed", "setup", "genesis", "ready", "commit", "store", "closing", "clearing"}
  /\ rdb.size \in 0 .. SizeLimit - 1
  /\ rdb.node \in 0 .. MaxNode
  /\ CacheOK(rdb.cache)
  /\ Batched => DOMAIN rdb.batch \subseteq Keys /\ \A k \in DOMAIN rdb.batch : rdb.batch[k] \in Values
  /\ stack \in Seq(Delta) /\ Len(stack) <= MaxStack
  /\ todo \in Seq(Range(Fields))
  /\ goal \in [before : Contents, removed : SUBSET Keys, written : SUBSET Keys,
              after : Contents, node : 0 .. MaxNode]
  /\ undone \in SUBSET Keys
  /\ unsaved \in BOOLEAN /\ miscounted \in BOOLEAN

\* What get and the iterators take from the cache is what the directory and
\* the batch over it hold: through evictions, cached nulls, and the removals
\* and writes of a commit that reach the directory at different times.  The
\* one exception is a key that one commit writes and removes again: erase does
\* not know the batch, and the cache may hold a null for it until the backend
\* is closed.  No iterator comes to any other null.
CacheCoherent ==
  \A k \in Keys : IsCached(rdb.cache, k) =>
    \/ rdb.cache.object[k] = Overlay[k]
    \/ k \in undone /\ rdb.cache.object[k] = Absent

\* _size, which decides whether the genesis function runs again and whether
\* the merge iterator passes a delta over, is the number of objects, until a
\* crash leaves a wrong one in the directory, or a commit writes a key and
\* removes it again or writes one twice that the directory does not have.
SizeCounts == IsOpen /\ ~miscounted => rdb.size = Count(Overlay)

\* The genesis function runs over no object, if no commit and no crash before
\* the size was put has left a wrong one.
GenesisOnce ==
  [][Open /\ phase' = "genesis" /\ ~miscounted => disk.objects = NoObjects]_vars

\* The keys that the last commit writes and that should be gone after it.
Resurrected == {k \in goal.written : goal.after[k] = Absent}

\* The objects are what the last commit is to leave, and those of Resurrected.
IsLeft(objects) ==
  \A k \in Keys : IF k \in Resurrected THEN objects[k] # Absent
                 ELSE objects[k] = goal.after[k]

\* Until the batch is written, and after a crash that came before it, the
\* directory holds nothing that the commit writes: an object is as it was, or
\* gone if the commit removes it.  Afterwards it holds all of it.
BatchAllOrNothing ==
  \/ \A k \in Keys :
       disk.objects[k] # goal.before[k] => disk.objects[k] = Absent /\ k \in goal.removed
  \/ IsLeft(disk.objects)

\* A directory that holds an object opens again, whenever the process crashes
\* in setup_database, commit, close or clear.
DataOpensAgain ==
  disk.objects # NoObjects =>
    disk.families = Families /\ DOMAIN disk.metadata = Range(Fields)

\* The step that writes the batch leaves the contents the committed node
\* showed, described by the metadata of that node.  It brings back exactly the
\* keys that the commit writes and then removes for good, and the size is that
\* of the contents wherever SizeCounts answers for it.
CommitReachesDisk ==
  [][EndBatch => /\ IsLeft(disk'.objects)
                 /\ ~miscounted => disk'.metadata["size"] = Count(goal.after)
                 /\ \A f \in Range(Fields) \ {"size"} : disk'.metadata[f] = goal.node]_vars

\* Statements of comments that the code does not keep.

\* The comment of state_delta::commit: the delta becomes the new root delta,
\* so the directory holds what reading the node showed.
CommitKeepsContents == phase = "ready" => disk.objects = goal.after

\* The same comment: state and metadata are written in one batch, which makes
\* the merge atomic.  A process that opens the directory finds one root or
\* the other.
CommitIsAtomic ==
  phase = "closed" /\ DOMAIN disk.metadata = Range(Fields) =>
    disk.objects = IF disk.metadata["revision"] = goal.node THEN goal.after ELSE goal.before
=============================================================================
