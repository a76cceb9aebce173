---------------------------- MODULE NodeCreation ----------------------------
(***************************************************************************)
(* Threads that call create_writable_node, finalize_node, discard_node and *)
(* commit_node of one database at once                                     *)
(* (src/koinos/state_db/state_db.cpp), step by step between the            *)
(* acquisitions of the locks: the index mutex, the cv mutex of a state     *)
(* delta with its condition variable, and the deadline of a creation.      *)
(*                                                                         *)
(* Simplifications:                                                        *)
(*  - What a thread does between taking and releasing the index mutex is   *)
(*    one step, unless it takes another lock in between.                   *)
(*  - The comparator is fifo, and fork heads are left out: what they are   *)
(*    and when a call is refused is the subject of ForkDatabase.           *)
(*  - The unique lock of a commit keeps every other call out, so that it   *)
(*    is one step of a database nobody else is in.  Only a commit that     *)
(*    does not discard the head is modelled.                               *)
(*  - The wait may end without a notification, as those of a condition     *)
(*    variable may.                                                        *)
(*                                                                         *)
(* A delta is its number in the order of creation: discarding a node and   *)
(* creating one with the same id makes two deltas.                         *)
(***************************************************************************)
EXTENDS Integers, Sequences

CONSTANTS
  Threads,
  Ids,
  Genesis,   \* the id of the first root
  Winner,    \* of the head, a child of the root
  Loser,     \* and of another child
  Free,      \* a mutex without owner
  MaxCalls   \* bound of the model: the calls of a behaviour

ASSUME ConstantsAssumption ==
  /\ Genesis \in Ids /\ Winner \in Ids \ {Genesis} /\ Loser \in Ids \ {Genesis, Winner}
  /\ Free \notin Threads
  /\ MaxCalls \in Nat

VARIABLES
  node,    \* the state deltas, with the owner of their cv mutex
  index,   \* _index: the delta of an id
  root,    \* _root
  head,    \* _head
  mutex,   \* _index_mutex: its owner
  call,    \* the call of each thread: where it is, the ids, the delta it looked up,
           \* and whether its deadline has passed
  calls    \* how many calls were made

vars == <<node, index, root, head, mutex, call, calls>>

Nothing == 0

\* Waiting for the cv mutex again.
Waking == {"notified", "timed out"}
Creating == {"lookup", "lock", "check", "sleep", "wait", "insert"} \cup Waking
Finalizing == {"find", "flag", "notify", "heads"}
Places == {"idle", "discard"} \cup Creating \cup Finalizing

Node == [id : Ids, parent : Nat, revision : Nat, finalized : BOOLEAN, cv : Threads \cup {Free}]
Call == [at : Places, id : Ids, new : Ids, delta : Nat, late : BOOLEAN]

Idle == [at |-> "idle", id |-> Genesis, new |-> Genesis, delta |-> Nothing, late |-> FALSE]

GoTo(t, place) == call' = [call EXCEPT ![t].at = place]
Return(t) == call' = [call EXCEPT ![t] = Idle]

Made(id, parent, revision, finalized) ==
  [id |-> id, parent |-> parent, revision |-> revision, finalized |-> finalized, cv |-> Free]

\* The database after a fork: a root with two finalized children.
Init ==
  /\ node = <<Made(Genesis, Nothing, 0, TRUE), Made(Winner, 1, 1, TRUE), Made(Loser, 1, 1, TRUE)>>
  /\ index = [i \in {Genesis, Winner, Loser} |->
                IF i = Genesis THEN 1 ELSE IF i = Winner THEN 2 ELSE 3]
  /\ root = 1
  /\ head = 2
  /\ mutex = Free
  /\ call = [t \in Threads |-> Idle]
  /\ calls = 0

\* A call is made under the shared lock of its thread; its deadline is ahead.
Start(t, place, id, new) ==
  /\ call[t].at = "idle"
  /\ calls < MaxCalls
  /\ calls' = calls + 1
  /\ call' = [call EXCEPT ![t] = [at |-> place, id |-> id, new |-> new, delta |-> Nothing,
                                  late |-> FALSE]]
  /\ UNCHANGED <<node, index, root, head, mutex>>

\* The second from the start of create_writable_node is over.
Tick(t) ==
  /\ call[t].at \in Creating
  /\ ~call[t].late
  /\ call' = [call EXCEPT ![t].late = TRUE]
  /\ UNCHANGED <<node, index, root, head, mutex, calls>>

-----------------------------------------------------------------------------
(* create_writable_node *)

\* get_node
LookUp(t) ==
  /\ call[t].at = "lookup"
  /\ mutex = Free
  /\ IF call[t].id \in DOMAIN index
     THEN call' = [call EXCEPT ![t].at = "lock", ![t].delta = index[call[t].id]]
     ELSE Return(t)
  /\ UNCHANGED <<node, index, root, head, mutex, calls>>

\* The cv mutex of the parent, until the deadline.
LockParent(t) ==
  /\ call[t].at = "lock"
  /\ node[call[t].delta].cv = Free
  /\ node' = [node EXCEPT ![call[t].delta].cv = t]
  /\ GoTo(t, "check")
  /\ UNCHANGED <<index, root, head, mutex, calls>>

LockParentTimeout(t) ==
  /\ call[t].at = "lock"
  /\ call[t].late
  /\ Return(t)
  /\ UNCHANGED <<node, index, root, head, mutex, calls>>

CheckFinalized(t) ==
  /\ call[t].at = "check"
  /\ GoTo(t, IF node[call[t].delta].finalized THEN "insert" ELSE "sleep")
  /\ UNCHANGED <<node, index, root, head, mutex, calls>>

\* The thread waits with the cv mutex.
WrongSleep(t) ==
  /\ call[t].at = "sleep"
  /\ GoTo(t, "wait")
  /\ UNCHANGED <<node, index, root, head, mutex, calls>>

\* wait_until releases the cv mutex and waits.
Sleep(t) ==
  /\ call[t].at = "sleep"
  /\ node' = [node EXCEPT ![call[t].delta].cv = Free]
  /\ GoTo(t, "wait")
  /\ UNCHANGED <<index, root, head, mutex, calls>>

\* A wakeup without a notification.
WakeSpuriously(t) ==
  /\ call[t].at = "wait"
  /\ GoTo(t, "notified")
  /\ UNCHANGED <<node, index, root, head, mutex, calls>>

\* The deadline is over when the thread wakes, also if it was notified.
WakeTimeout(t) ==
  /\ call[t].at \in {"wait", "notified"}
  /\ call[t].late
  /\ GoTo(t, "timed out")
  /\ UNCHANGED <<node, index, root, head, mutex, calls>>

\* A notified thread takes the node to be finalized.
WrongWakeUp(t) ==
  /\ call[t].at = "notified"
  /\ node[call[t].delta].cv = Free
  /\ node' = [node EXCEPT ![call[t].delta].cv = t]
  /\ GoTo(t, "insert")
  /\ UNCHANGED <<index, root, head, mutex, calls>>

\* wait_until returns with the cv mutex, for which it waits without deadline.
\* is_finalized is read again; the wait is not repeated.
WakeUp(t) ==
  /\ call[t].at = "notified"
  /\ node[call[t].delta].cv = Free
  /\ IF node[call[t].delta].finalized
     THEN node' = [node EXCEPT ![call[t].delta].cv = t] /\ GoTo(t, "insert")
     ELSE Return(t) /\ UNCHANGED node
  /\ UNCHANGED <<index, root, head, mutex, calls>>

\* After a timeout the flag is not read again.
WakeUpLate(t) ==
  /\ call[t].at = "timed out"
  /\ node[call[t].delta].cv = Free
  /\ Return(t)
  /\ UNCHANGED <<node, index, root, head, mutex, calls>>

Child(t) ==
  Made(call[t].new, call[t].delta, node[call[t].delta].revision + 1, FALSE)

Released(t) == [node EXCEPT ![call[t].delta].cv = Free]

\* Whether the parent is still there is not asked.
WrongInsert(t) ==
  /\ call[t].at = "insert"
  /\ mutex = Free
  /\ IF call[t].new \notin DOMAIN index
     THEN /\ node' = Append(Released(t), Child(t))
          /\ index' = [i \in DOMAIN index \cup {call[t].new} |->
                         IF i = call[t].new THEN Len(node) + 1 ELSE index[i]]
     ELSE node' = Released(t) /\ UNCHANGED index
  /\ Return(t)
  /\ UNCHANGED <<root, head, mutex, calls>>

\* The parent id must be in the index, and the new id must not.  The cv mutex
\* of the parent is held up to here.
Insert(t) ==
  /\ call[t].at = "insert"
  /\ mutex = Free
  /\ IF call[t].id \in DOMAIN index /\ call[t].new \notin DOMAIN index
     THEN /\ node' = Append(Released(t), Child(t))
          /\ index' = [i \in DOMAIN index \cup {call[t].new} |->
                         IF i = call[t].new THEN Len(node) + 1 ELSE index[i]]
     ELSE node' = Released(t) /\ UNCHANGED index
  /\ Return(t)
  /\ UNCHANGED <<root, head, mutex, calls>>

\* The index mutex is waited for without deadline.
WrongInsertTimeout(t) == FALSE /\ UNCHANGED vars

InsertTimeout(t) ==
  /\ call[t].at = "insert"
  /\ call[t].late
  /\ node' = Released(t)
  /\ Return(t)
  /\ UNCHANGED <<index, root, head, mutex, calls>>

-----------------------------------------------------------------------------
(* finalize_node *)

\* The index mutex is kept until the end; an unknown id throws.
Find(t) ==
  /\ call[t].at = "find"
  /\ mutex = Free
  /\ IF call[t].id \in DOMAIN index
     THEN /\ call' = [call EXCEPT ![t].at = "flag", ![t].delta = index[call[t].id]]
          /\ mutex' = t
     ELSE Return(t) /\ UNCHANGED mutex
  /\ UNCHANGED <<node, index, root, head, calls>>

\* The cv mutex is not taken.
WrongSetFinalized(t) ==
  /\ call[t].at = "flag"
  /\ node' = [node EXCEPT ![call[t].delta].finalized = TRUE]
  /\ GoTo(t, "notify")
  /\ UNCHANGED <<index, root, head, mutex, calls>>

\* Under the cv mutex, for which the thread waits without deadline.
SetFinalized(t) ==
  /\ call[t].at = "flag"
  /\ node[call[t].delta].cv = Free
  /\ node' = [node EXCEPT ![call[t].delta].finalized = TRUE]
  /\ GoTo(t, "notify")
  /\ UNCHANGED <<index, root, head, mutex, calls>>

NotifyAll(t) ==
  /\ call[t].at = "notify"
  /\ call' = [u \in Threads |->
                IF u = t THEN [call[t] EXCEPT !.at = "heads"]
                ELSE IF call[u].at = "wait" /\ call[u].delta = call[t].delta
                     THEN [call[u] EXCEPT !.at = "notified"]
                ELSE call[u]]
  /\ UNCHANGED <<node, index, root, head, mutex, calls>>

\* The head moves on to a higher node, and the index mutex is released.
UpdateHead(t) ==
  /\ call[t].at = "heads"
  /\ head' = IF node[call[t].delta].revision > node[head].revision THEN call[t].delta ELSE head
  /\ mutex' = Free
  /\ Return(t)
  /\ UNCHANGED <<node, index, root, calls>>

-----------------------------------------------------------------------------
(* discard_node and commit_node *)

HasParent(d) == node[d].parent # Nothing
ParentId(d) == node[node[d].parent].id

\* The ids of the index from i down, along the ids of the parents.
ChildClosed(S) ==
  \A j \in DOMAIN index : HasParent(index[j]) /\ ParentId(index[j]) \in S => j \in S
Below(i) == {j \in DOMAIN index : \A S \in SUBSET DOMAIN index : i \in S /\ ChildClosed(S) => j \in S}

Keep(S) == [i \in S |-> index[i]]

\* The root and the head are not discarded: the call throws.
Discard(t) ==
  /\ call[t].at = "discard"
  /\ mutex = Free
  /\ LET gone == Below(call[t].id)
     IN  index' = IF call[t].id \notin DOMAIN index \/ gone \cap {node[root].id, node[head].id} # {}
                  THEN index
                  ELSE Keep(DOMAIN index \ gone)
  /\ Return(t)
  /\ UNCHANGED <<node, root, head, mutex, calls>>

Commit(i) ==
  /\ \A t \in Threads : call[t].at = "idle"
  /\ calls < MaxCalls
  /\ i \in DOMAIN index
  /\ index[i] # root
  /\ node[head].id \in Below(i)
  /\ root' = index[i]
  /\ node' = [node EXCEPT ![index[i]].parent = Nothing]
  /\ index' = Keep(Below(i))
  /\ calls' = calls + 1
  /\ UNCHANGED <<head, mutex, call>>

-----------------------------------------------------------------------------

CreateStep(t) ==
  \/ LookUp(t) \/ LockParent(t) \/ LockParentTimeout(t) \/ CheckFinalized(t) \/ Sleep(t)
  \/ WakeTimeout(t) \/ WakeUp(t) \/ WakeUpLate(t) \/ Insert(t) \/ InsertTimeout(t)

FinalizeStep(t) == Find(t) \/ SetFinalized(t) \/ NotifyAll(t) \/ UpdateHead(t)

Step(t) == CreateStep(t) \/ FinalizeStep(t) \/ Discard(t)

Next ==
  \/ \E t \in Threads, p, n \in Ids : Start(t, "lookup", p, n)
  \/ \E t \in Threads, n \in Ids : Start(t, "find", n, n)
  \/ \E t \in Threads, n \in Ids : Start(t, "discard", n, n)
  \/ \E i \in Ids : Commit(i)
  \/ \E t \in Threads : Tick(t) \/ WakeSpuriously(t)
  \/ \E t \in Threads : Step(t)

Spec == Init /\ [][Next]_vars

\* Every thread is scheduled and its deadline comes.  Nothing is assumed about
\* who gets a mutex next: the calls of a behaviour are finitely many.
FairSpec == Spec /\ \A t \in Threads : WF_vars(Step(t)) /\ WF_vars(Tick(t))

-----------------------------------------------------------------------------
(* Properties *)

\* The threads that hold the cv mutex of the delta they looked up, and those
\* that hold the index mutex.
HoldsParent(t) == call[t].at \in {"check", "sleep", "insert"}
HoldsIndex(t) == call[t].at \in {"flag", "notify", "heads"}

Typed ==
  /\ node \in Seq(Node)
  /\ index \in [DOMAIN index -> DOMAIN node]
  /\ root \in DOMAIN node
  /\ head \in DOMAIN node
  /\ mutex \in Threads \cup {Free}
  /\ call \in [Threads -> Call]
  /\ calls \in 0 .. MaxCalls

\* A delta is indexed by its id; parents were made before; a call goes on
\* with the delta that had the id it was made with.
Linked ==
  /\ \A i \in DOMAIN index : node[index[i]].id = i
  /\ \A d \in DOMAIN node : HasParent(d) => node[d].parent \in DOMAIN node
  /\ \A t \in Threads :
       call[t].at \notin {"idle", "lookup", "find", "discard"} =>
         call[t].delta \in DOMAIN node /\ node[call[t].delta].id = call[t].id

\* A mutex has the owner that is where it should have it.
Owned ==
  /\ \A t \in Threads : mutex = t <=> HoldsIndex(t)
  /\ \A t \in Threads, d \in DOMAIN node : node[d].cv = t <=> HoldsParent(t) /\ call[t].delta = d

TypeOK == Typed /\ Linked /\ Owned

\* No wakeup is lost: while a thread waits for a node that is finalized, the
\* thread that finalized it is still to notify.  The flag is read and set
\* under the cv mutex for this.
NoLostWakeup ==
  \A t \in Threads :
    call[t].at = "wait" /\ node[call[t].delta].finalized =>
      \E u \in Threads : call[u].at = "notify" /\ call[u].delta = call[t].delta

\* A node is created only over a finalized one, whatever woke its creator.
ChildOfFinalized ==
  \A d \in DOMAIN node : HasParent(d) => node[node[d].parent].finalized

\* The parent id of every node of the index but the root is in the index,
\* though a creation reads the parent and inserts the child under different
\* holds of the index mutex, and the parent may be discarded in between.
ParentIndexed ==
  \A i \in DOMAIN index : index[i] # root => HasParent(index[i]) /\ ParentId(index[i]) \in DOMAIN index

\* Every call returns, also when a creation holds the cv mutex and wants the
\* index mutex while a finalization holds the index mutex and wants the cv
\* mutex: the deadline of the creation ends it.
EveryCallReturns == \A t \in Threads : call[t].at # "idle" ~> call[t].at = "idle"
=============================================================================
