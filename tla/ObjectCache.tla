----------------------------- MODULE ObjectCache -----------------------------
(***************************************************************************)
(* The cache in front of the rocksdb database                              *)
(* (src/koinos/state_db/backends/rocksdb/object_cache.cpp) as operators on *)
(* a value: the keys in the order of their last use, the most recent       *)
(* first, and the object cached for each.  Absent is a cached null         *)
(* pointer: the database is known to have no object at the key.            *)
(*                                                                         *)
(* The field _cache_size is the sum of the entry sizes and is not kept: it *)
(* parts from the sum only in clear, which sets neither, and the backend   *)
(* of a cleared cache is dropped.                                          *)
(***************************************************************************)
EXTENDS SequencesExt

CONSTANTS
  Keys,
  Values,
  Absent,     \* the null pointer
  EntrySize,  \* max(size of key and object, 2), by object
  CacheSize   \* _cache_max_size

\* An entry that is larger than the cache has put take the back of an empty
\* list.
ASSUME CacheAssumption ==
  /\ Absent \notin Values
  /\ CacheSize \in Nat
  /\ EntrySize \in [Values \cup {Absent} -> 2 .. CacheSize]

\* f with y at x
Store(f, x, y) == [z \in DOMAIN f \cup {x} |-> IF z = x THEN y ELSE f[z]]

EmptyCache == [lru |-> <<>>, object |-> [k \in {} |-> Absent]]

IsCached(c, k) == k \in DOMAIN c.object

\* _cache_size
UsedBy(c, lru) == FoldLeft(LAMBDA sum, k : sum + EntrySize[c.object[k]], 0, lru)

Touched(lru, k) == <<k>> \o RemoveFirst(lru, k)

\* get: a hit comes to the front.
CacheGet(c, k) == IF IsCached(c, k) THEN [c EXCEPT !.lru = Touched(@, k)] ELSE c

CacheRemove(c, k) ==
  [lru |-> RemoveFirst(c.lru, k), object |-> Restrict(c.object, DOMAIN c.object \ {k})]

\* The entries at the back go until size more bytes fit.
Evict(c, size) ==
  LET fitting == {n \in 0 .. Len(c.lru) : UsedBy(c, SubSeq(c.lru, 1, n)) + size <= CacheSize}
      kept    == SubSeq(c.lru, 1, Max(fitting))
  IN  [lru |-> kept, object |-> Restrict(c.object, DOMAIN c.object \cap Range(kept))]

\* The entry that was there is not removed.
WrongCachePut(c, k, v) ==
  LET e == Evict(c, EntrySize[v])
  IN  [lru |-> <<k>> \o e.lru, object |-> Store(e.object, k, v)]

\* put
CachePut(c, k, v) ==
  LET e == Evict(CacheRemove(c, k), EntrySize[v])
  IN  [lru |-> <<k>> \o e.lru, object |-> Store(e.object, k, v)]

\* The list and the map hold the same keys, each once, and they fit.
CacheOK(c) ==
  /\ c.object \in [DOMAIN c.object -> Values \cup {Absent}]
  /\ DOMAIN c.object \subseteq Keys
  /\ Range(c.lru) = DOMAIN c.object
  /\ Len(c.lru) = Cardinality(DOMAIN c.object)
  /\ UsedBy(c, c.lru) <= CacheSize
==============================================================================
