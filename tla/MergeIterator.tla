---------------------------- MODULE MergeIterator ----------------------------
(***************************************************************************)
(* Iteration over the objects a state node shows                           *)
(* (src/koinos/state_db/merge_iterator.cpp): one iterator for each delta   *)
(* from the root to the node, kept in order by a multi index, and moved    *)
(* together so that the first of them is at an object no higher delta has  *)
(* modified.                                                               *)
(*                                                                         *)
(* Simplifications:                                                        *)
(*  - Keys are numbers in the order of the serialized database keys; those *)
(*    of one object space are next to each other.                          *)
(*  - A delta is what its backend holds and what it has removed; a key in  *)
(*    both is only held, is_modified cannot tell.  A delta is known by its *)
(*    place in the chain, which grows with the revision.                   *)
(*  - An iterator is the key it is at, or End; the loops that move one     *)
(*    iterator are written as where they stop.                             *)
(*  - The deltas do not change during an iteration: the caller that        *)
(*    iterates and writes is one thread, and each call has new iterators.  *)
(***************************************************************************)
EXTENDS Integers, Sequences, FiniteSetsExt

CONSTANTS
  KeyCount,
  Height,   \* bound of the model: the most deltas from the root to the node
  SpaceOf   \* the object space of a key

Keys == 1 .. KeyCount
End == KeyCount + 1

ASSUME ConstantsAssumption ==
  /\ KeyCount \in Nat \ {0}
  /\ Height \in Nat \ {0}
  /\ DOMAIN SpaceOf = Keys
  /\ \A i, j, k \in Keys : i < j /\ j < k /\ SpaceOf[i] = SpaceOf[k] => SpaceOf[j] = SpaceOf[i]

VARIABLES
  chain,  \* _delta_deque: the deltas, the root first
  pos     \* _itr_revision_index: the iterator of each delta

vars == <<chain, pos>>

Delta == {d \in [held : SUBSET Keys, removed : SUBSET Keys] : d.held \cap d.removed = {}}

Deltas == DOMAIN chain
Held(d) == chain[d].held

Modified(d, k) == k \in chain[d].held \cup chain[d].removed

\* Only the next delta is asked.
WrongDirty(d, k) == d + 1 \in Deltas /\ Modified(d + 1, k)

\* is_dirty: a higher delta has the key or has removed it.
Dirty(d, k) == \E e \in Deltas : e > d /\ Modified(e, k)

-----------------------------------------------------------------------------
(* The iterators of the deltas: the map and rocksdb alike *)

BackendBegin(d) == Min(Held(d) \cup {End})
BackendLowerBound(d, k) == Min({j \in Held(d) : j >= k} \cup {End})

\* The next key, whether the delta has it or not.
WrongAfter(d, k) == k + 1

After(d, k) == BackendLowerBound(d, k + 1)

Positions == [Deltas -> Keys \cup {End}]

IsEnd(p) == \A d \in Deltas : p[d] = End

\* The first by key, then by revision; with none valid it is the head's.
Foremost(p) ==
  LET least == {d \in Deltas : \A e \in Deltas : p[d] <= p[e]}
  IN  Max(least)

KeyAt(p) == p[Foremost(p)]

\* resolve_conflicts: the first iterator is moved on while a higher delta has
\* modified its key.
Resolve(iterators) ==
  LET resolved[p \in Positions] ==
        LET f == Foremost(p)
        IN  IF p[f] # End /\ Dirty(f, p[f]) THEN resolved[[p EXCEPT ![f] = After(f, @)]] ELSE p
  IN  resolved[iterators]

-----------------------------------------------------------------------------
(* Where an iterator is made, operator== and operator++ *)

Begin == Resolve([d \in Deltas |-> BackendBegin(d)])
AtEnd == Resolve([d \in Deltas |-> End])
LowerBound(k) == Resolve([d \in Deltas |-> BackendLowerBound(d, k)])

Equal(p, q) ==
  \/ KeyAt(p) = End /\ KeyAt(q) = End
  \/ KeyAt(p) = KeyAt(q) /\ Foremost(p) = Foremost(q)

Incremented(p) ==
  LET f == Foremost(p)
  IN  Resolve([p EXCEPT ![f] = After(f, @)])

-----------------------------------------------------------------------------
(* operator-- *)

\* From the end an iterator goes back once; else to the greatest key below
\* the head's key, or to the first one if there is none.
BackBelow(d, k, h) ==
  LET below == {j \in Held(d) : j < h}
  IN  IF k < h THEN k
      ELSE IF below # {} THEN Max(below)
      ELSE BackendBegin(d)

\* Then further, to a key no higher delta has modified or to the first one.
BackToClean(d, k) ==
  LET clean == {j \in Held(d) : j <= k /\ ~Dirty(d, j)}
  IN  IF clean # {} THEN Max(clean) ELSE BackendBegin(d)

\* Dirty keys are not passed.
WrongRewound(p) ==
  LET h == KeyAt(p)
  IN  [d \in Deltas |-> IF Held(d) = {} THEN p[d] ELSE BackBelow(d, p[d], h)]

Rewound(p) ==
  LET h == KeyAt(p)
  IN  [d \in Deltas |->
         IF Held(d) = {} THEN p[d] ELSE BackToClean(d, BackBelow(d, p[d], h))]

\* The greatest key of a rewound iterator that is visible and below the
\* head's: least_itr stops there.  Iterators at the end sort last.
LeastCandidates(p, h) ==
  {d \in Deltas : p[d] # End /\ ~Dirty(d, p[d]) /\ p[d] < h}

\* least_itr is at an iterator without a key: key() throws.
DecrementThrows(p) ==
  LET q == Rewound(p)
  IN  /\ Len(chain) > 1
      /\ LeastCandidates(q, KeyAt(p)) = {}
      /\ \E d \in Deltas : q[d] = End

Decremented(p) ==
  LET q    == Rewound(p)
      goal == LeastCandidates(q, KeyAt(p))
      back == IF goal = {} THEN q
              ELSE LET k == Max({q[d] : d \in goal})
                   IN  [d \in Deltas |-> IF q[d] < k THEN BackendLowerBound(d, k) ELSE q[d]]
  IN  IF Len(chain) > 1 THEN Resolve(back) ELSE q

-----------------------------------------------------------------------------
(* get_next_object and get_prev_object of state_node_impl *)

Nothing == <<>>

Found(p, k) ==
  IF KeyAt(p) # End /\ SpaceOf[KeyAt(p)] = SpaceOf[k] THEN <<KeyAt(p), Foremost(p)>> ELSE Nothing

\* The space is not compared.
WrongNextObject(k) ==
  LET p == LowerBound(k)
      q == IF KeyAt(p) = k THEN Incremented(p) ELSE p
  IN  IF Equal(q, AtEnd) THEN Nothing ELSE <<KeyAt(q), Foremost(q)>>

NextObject(k) ==
  LET p == LowerBound(k)
      q == IF ~Equal(p, AtEnd) /\ KeyAt(p) = k THEN Incremented(p) ELSE p
  IN  IF Equal(q, AtEnd) THEN Nothing ELSE Found(q, k)

PrevObject(k) ==
  LET p == LowerBound(k)
  IN  IF Equal(p, Begin) THEN Nothing ELSE Found(Decremented(p), k)

-----------------------------------------------------------------------------

Init ==
  /\ chain \in UNION {[1 .. n -> Delta] : n \in 1 .. Height}
  /\ chain[1].removed = {}
  /\ pos \in {Begin, AtEnd} \cup {LowerBound(k) : k \in Keys}

Increment ==
  /\ ~IsEnd(pos)
  /\ pos' = Incremented(pos)
  /\ UNCHANGED chain

Decrement ==
  /\ ~Equal(pos, Begin)
  /\ ~DecrementThrows(pos)
  /\ pos' = Decremented(pos)
  /\ UNCHANGED chain

Next == Increment \/ Decrement

Spec == Init /\ [][Next]_vars

-----------------------------------------------------------------------------
(* Properties *)

TypeOK ==
  /\ chain \in Seq(Delta)
  /\ pos \in [Deltas -> Keys \cup {End}]
  /\ \A d \in Deltas : pos[d] \in Held(d) \cup {End}

\* The delta that decides over the key: the highest that has modified it.
Decides(k) == Max({d \in Deltas : Modified(d, k)} \cup {1})

\* The keys find returns an object for.
Visible == {k \in Keys : k \in Held(Decides(k))}

Successor(k) == Min({j \in Visible : j > k} \cup {End})
Predecessor(k) == Max({j \in Visible : j < k})

\* An iterator is at an object find would return, of the delta find would
\* return it from, or at the end; and only then is it equal to end.
AtNewest ==
  IF KeyAt(pos) = End THEN IsEnd(pos) /\ Equal(pos, AtEnd)
  ELSE KeyAt(pos) \in Visible /\ Foremost(pos) = Decides(KeyAt(pos))

\* Going back from anywhere but the first object does not throw.
BackNeverThrows == KeyAt(pos) # Successor(0) => ~DecrementThrows(pos)

\* Whatever way the iterators came, forwards, backwards and by turns, the
\* next step forward is to the next visible key and the next step back to the
\* one before: none is left out, given twice or out of order.
InOrder ==
  [][/\ Increment => KeyAt(pos') = Successor(KeyAt(pos))
     /\ Decrement => KeyAt(pos') = Predecessor(KeyAt(pos))]_vars

\* get_next_object and get_prev_object return the nearest visible object of
\* the key's own space and nothing else, whether or not the key has one.
NeighboursFound ==
  \A k \in Keys :
    LET own    == {j \in Visible : SpaceOf[j] = SpaceOf[k]}
        answer(S, pick(_)) == IF S = {} THEN Nothing ELSE <<pick(S), Decides(pick(S))>>
    IN  /\ NextObject(k) = answer({j \in own : j > k}, Min)
        /\ PrevObject(k) = answer({j \in own : j < k}, Max)
==============================================================================
