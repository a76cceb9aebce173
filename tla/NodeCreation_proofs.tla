------------------------- MODULE NodeCreation_proofs -------------------------
(***************************************************************************)
(* The invariants of NodeCreation for any set of threads and ids and any   *)
(* number of calls.  NoLostWakeup and ChildOfFinalized depend on what a    *)
(* creating thread has read: FlagRead says that it still holds, for the cv *)
(* mutex is not released in between.                                       *)
(***************************************************************************)
EXTENDS NodeCreation, TLAPS

\* What the thread read under the cv mutex is still so.
FlagRead ==
  \A t \in Threads :
    /\ call[t].at = "insert" => node[call[t].delta].finalized
    /\ call[t].at = "sleep" => ~node[call[t].delta].finalized

\* The part of the invariant that is about the deltas alone.
Tree ==
  /\ \A i \in DOMAIN index : node[index[i]].id = i
  /\ \A d \in DOMAIN node : HasParent(d) => node[d].parent \in DOMAIN node
  /\ ChildOfFinalized
  /\ ParentIndexed

\* A call goes on with the delta it looked up.
Looked ==
  \A t \in Threads :
    call[t].at \notin {"idle", "lookup", "find", "discard"} =>
      call[t].delta \in DOMAIN node /\ node[call[t].delta].id = call[t].id

IInv == Typed /\ Tree /\ Looked /\ Owned /\ FlagRead /\ NoLostWakeup

-----------------------------------------------------------------------------
(* The sequence of deltas *)

\* The places of a sequence of deltas.
LEMMA NodeDomain ==
  ASSUME NEW s \in Seq(Node)
  PROVE  /\ DOMAIN s = 1 .. Len(s)
         /\ Len(s) \in Nat
         /\ \A d \in DOMAIN s : s[d] \in Node /\ d \in Nat
         /\ Nothing \notin DOMAIN s
BY DEF Nothing

\* A delta in the place of another.
LEMMA ReplaceNode ==
  ASSUME NEW s \in Seq(Node), NEW d \in DOMAIN s, NEW c \in Node
  PROVE  LET r == [s EXCEPT ![d] = c]
         IN  /\ r \in Seq(Node)
             /\ DOMAIN r = DOMAIN s
             /\ \A e \in DOMAIN s : r[e] = IF e = d THEN c ELSE s[e]
<1> DEFINE r == [s EXCEPT ![d] = c]
<1>1. DOMAIN r = 1 .. Len(s) /\ Len(s) \in Nat
  BY NodeDomain
<1>2. \A e \in DOMAIN s : r[e] = IF e = d THEN c ELSE s[e]
  OBVIOUS
<1>3. r \in [1 .. Len(s) -> Node]
  BY <1>1, <1>2, NodeDomain
<1>4. r \in Seq(Node)
  BY <1>1, <1>3
<1> QED
  BY <1>1, <1>2, <1>4

\* A new owner of a cv mutex changes nothing else.
LEMMA SetOwner ==
  ASSUME NEW s \in Seq(Node), NEW d \in DOMAIN s, NEW x \in Threads \cup {Free}
  PROVE  LET r == [s EXCEPT ![d].cv = x]
         IN  /\ r \in Seq(Node)
             /\ DOMAIN r = DOMAIN s
             /\ \A e \in DOMAIN s :
                  /\ r[e].id = s[e].id
                  /\ r[e].parent = s[e].parent
                  /\ r[e].finalized = s[e].finalized
                  /\ r[e].cv = IF e = d THEN x ELSE s[e].cv
<1> DEFINE r == [s EXCEPT ![d].cv = x]
           c == [s[d] EXCEPT !.cv = x]
<1>1. s[d] \in Node
  BY NodeDomain
<1>2. c \in Node
  BY <1>1 DEF Node
<1>3. /\ c.id = s[d].id /\ c.parent = s[d].parent
      /\ c.finalized = s[d].finalized /\ c.cv = x
  BY <1>1 DEF Node
<1>4. r = [s EXCEPT ![d] = c]
  OBVIOUS
<1>5. r \in Seq(Node) /\ DOMAIN r = DOMAIN s /\ \A e \in DOMAIN s : r[e] = IF e = d THEN c ELSE s[e]
  BY <1>2, <1>4, ReplaceNode
<1> HIDE DEF c, r
<1>6. r[d] = c /\ \A e \in DOMAIN s : e # d => r[e] = s[e]
  BY <1>5
<1> QED
  BY <1>3, <1>5, <1>6 DEF r

\* Finalizing changes nothing else.
LEMMA SetFlag ==
  ASSUME NEW s \in Seq(Node), NEW d \in DOMAIN s
  PROVE  LET r == [s EXCEPT ![d].finalized = TRUE]
         IN  /\ r \in Seq(Node)
             /\ DOMAIN r = DOMAIN s
             /\ \A e \in DOMAIN s :
                  /\ r[e].id = s[e].id
                  /\ r[e].parent = s[e].parent
                  /\ r[e].cv = s[e].cv
                  /\ e = d => r[e].finalized
                  /\ e # d => r[e] = s[e]
<1> DEFINE r == [s EXCEPT ![d].finalized = TRUE]
           c == [s[d] EXCEPT !.finalized = TRUE]
<1>1. s[d] \in Node
  BY NodeDomain
<1>2. c \in Node
  BY <1>1 DEF Node
<1>3. c.id = s[d].id /\ c.parent = s[d].parent /\ c.finalized /\ c.cv = s[d].cv
  BY <1>1 DEF Node
<1>4. r = [s EXCEPT ![d] = c]
  OBVIOUS
<1>5. r \in Seq(Node) /\ DOMAIN r = DOMAIN s /\ \A e \in DOMAIN s : r[e] = IF e = d THEN c ELSE s[e]
  BY <1>2, <1>4, ReplaceNode
<1> HIDE DEF c, r
<1>6. r[d] = c /\ \A e \in DOMAIN s : e # d => r[e] = s[e]
  BY <1>5
<1> QED
  BY <1>3, <1>5, <1>6 DEF r

\* Nor does taking the parent away.
LEMMA CutParent ==
  ASSUME NEW s \in Seq(Node), NEW d \in DOMAIN s
  PROVE  LET r == [s EXCEPT ![d].parent = Nothing]
         IN  /\ r \in Seq(Node)
             /\ DOMAIN r = DOMAIN s
             /\ \A e \in DOMAIN s :
                  /\ r[e].id = s[e].id
                  /\ r[e].parent = IF e = d THEN Nothing ELSE s[e].parent
                  /\ r[e].cv = s[e].cv
                  /\ r[e].finalized = s[e].finalized
<1> DEFINE r == [s EXCEPT ![d].parent = Nothing]
           c == [s[d] EXCEPT !.parent = Nothing]
<1>1. s[d] \in Node
  BY NodeDomain
<1>2. c \in Node
  BY <1>1 DEF Node, Nothing
<1>3. c.id = s[d].id /\ c.parent = Nothing /\ c.finalized = s[d].finalized /\ c.cv = s[d].cv
  BY <1>1 DEF Node
<1>4. r = [s EXCEPT ![d] = c]
  OBVIOUS
<1>5. r \in Seq(Node) /\ DOMAIN r = DOMAIN s /\ \A e \in DOMAIN s : r[e] = IF e = d THEN c ELSE s[e]
  BY <1>2, <1>4, ReplaceNode
<1> HIDE DEF c, r
<1>6. r[d] = c /\ \A e \in DOMAIN s : e # d => r[e] = s[e]
  BY <1>5
<1> QED
  BY <1>3, <1>5, <1>6 DEF r

\* A delta more at the end.
LEMMA AppendNode ==
  ASSUME NEW s \in Seq(Node), NEW c \in Node
  PROVE  LET r == Append(s, c)
         IN  /\ r \in Seq(Node)
             /\ DOMAIN r = DOMAIN s \cup {Len(s) + 1}
             /\ Len(s) + 1 \notin DOMAIN s
             /\ r[Len(s) + 1] = c
             /\ \A e \in DOMAIN s : r[e] = s[e]
<1> DEFINE r == Append(s, c)
<1>1. r \in Seq(Node) /\ Len(r) = Len(s) + 1 /\ r[Len(s) + 1] = c
  OBVIOUS
<1>2. \A e \in 1 .. Len(s) : r[e] = s[e]
  OBVIOUS
<1>3. DOMAIN r = 1 .. Len(s) + 1 /\ DOMAIN s = 1 .. Len(s) /\ Len(s) \in Nat
  BY <1>1, NodeDomain
<1> QED
  BY <1>1, <1>2, <1>3

-----------------------------------------------------------------------------
(* The calls *)

\* Moving a call to another place.
LEMMA GoToCall ==
  ASSUME call \in [Threads -> Call], NEW t \in Threads, NEW place \in Places, GoTo(t, place)
  PROVE  /\ call' \in [Threads -> Call]
         /\ call'[t].at = place
         /\ call'[t].id = call[t].id
         /\ call'[t].delta = call[t].delta
         /\ \A u \in Threads : u # t => call'[u] = call[u]
BY DEF GoTo, Call

\* A call that returned.
LEMMA ReturnCall ==
  ASSUME call \in [Threads -> Call], NEW t \in Threads, Return(t)
  PROVE  /\ call' \in [Threads -> Call]
         /\ call'[t].at = "idle"
         /\ \A u \in Threads : u # t => call'[u] = call[u]
BY ConstantsAssumption DEF Return, Idle, Call, Places, Nothing

\* The tree stays when no delta changes but for flags that are set and owners.
LEMMA TreeFrame ==
  ASSUME Typed, Tree, index' = index, root' = root,
         DOMAIN node' = DOMAIN node,
         \A d \in DOMAIN node :
           /\ node'[d].id = node[d].id
           /\ node'[d].parent = node[d].parent
           /\ node[d].finalized => node'[d].finalized
  PROVE  Tree'
<1>1. \A i \in DOMAIN index : index[i] \in DOMAIN node
  BY DEF Typed
<1>2. \A d \in DOMAIN node : HasParent(d)' <=> HasParent(d)
  BY DEF HasParent
<1>3. \A d \in DOMAIN node : HasParent(d) => ParentId(d)' = ParentId(d) /\ node[d].parent \in DOMAIN node
  BY DEF ParentId, Tree
<1>4. \A i \in DOMAIN index' : node'[index'[i]].id = i
  BY <1>1 DEF Tree
<1>5. \A d \in DOMAIN node' : HasParent(d)' => node'[d].parent \in DOMAIN node'
  BY <1>2 DEF Tree
<1>6. ChildOfFinalized'
  BY <1>2, <1>3 DEF Tree, ChildOfFinalized
<1>7. ParentIndexed'
  BY <1>1, <1>2, <1>3 DEF Tree, ParentIndexed
<1> QED
  BY <1>4, <1>5, <1>6, <1>7 DEF Tree

-----------------------------------------------------------------------------
(* The steps of a creation *)

LEMMA StartStep ==
  ASSUME IInv, NEW t \in Threads, NEW place \in {"lookup", "find", "discard"},
         NEW i \in Ids, NEW n \in Ids, Start(t, place, i, n)
  PROVE  IInv'
<1> USE DEF IInv, Start
<1>1. /\ call' \in [Threads -> Call]
      /\ call'[t].at = place
      /\ \A u \in Threads : u # t => call'[u] = call[u]
  BY DEF Typed, Call, Places, Creating, Finalizing, Waking, Nothing
<1>2. Typed'
  BY <1>1, ConstantsAssumption DEF Typed
<1>3. Tree'
  BY TreeFrame
<1>4. Looked' /\ FlagRead' /\ NoLostWakeup'
  BY <1>1 DEF Looked, FlagRead, NoLostWakeup
<1>5. Owned'
  BY <1>1 DEF Owned, HoldsParent, HoldsIndex
<1> QED
  BY <1>2, <1>3, <1>4, <1>5

LEMMA TickStep ==
  ASSUME IInv, NEW t \in Threads, Tick(t)
  PROVE  IInv'
<1> USE DEF IInv, Tick
<1>1. /\ call' \in [Threads -> Call]
      /\ call'[t].at = call[t].at /\ call'[t].id = call[t].id /\ call'[t].delta = call[t].delta
      /\ \A u \in Threads : u # t => call'[u] = call[u]
  BY DEF Typed, Call
<1>2. Typed'
  BY <1>1 DEF Typed
<1>3. Tree'
  BY TreeFrame
<1>4. Looked' /\ FlagRead' /\ NoLostWakeup'
  BY <1>1 DEF Looked, FlagRead, NoLostWakeup
<1>5. Owned'
  BY <1>1 DEF Owned, HoldsParent, HoldsIndex
<1> QED
  BY <1>2, <1>3, <1>4, <1>5

\* A thread that holds no mutex goes on to a place where it holds none, and
\* that is neither a wait nor a notification.
LEMMA FreeStep ==
  ASSUME IInv, NEW t \in Threads, NEW place \in Places, GoTo(t, place),
         UNCHANGED <<node, index, root, head, mutex, calls>>,
         place \notin {"check", "sleep", "insert", "flag", "notify", "heads", "wait"},
         ~HoldsParent(t), ~HoldsIndex(t),
         call[t].at \notin {"idle", "lookup", "find", "discard"}
  PROVE  IInv'
<1> USE DEF IInv
<1>1. /\ call' \in [Threads -> Call]
      /\ call'[t].at = place
      /\ call'[t].id = call[t].id
      /\ call'[t].delta = call[t].delta
      /\ \A u \in Threads : u # t => call'[u] = call[u]
  BY GoToCall DEF Typed
<1>2. Typed'
  BY <1>1 DEF Typed
<1>3. Tree'
  BY TreeFrame
<1>4. Looked' /\ FlagRead'
  BY <1>1 DEF Looked, FlagRead
<1>5. Owned'
  BY <1>1 DEF Owned, HoldsParent, HoldsIndex
<1>6. NoLostWakeup'
  BY <1>1 DEF NoLostWakeup, HoldsIndex
<1> QED
  BY <1>2, <1>3, <1>4, <1>5, <1>6

\* A thread that holds no mutex returns.
LEMMA FreeReturn ==
  ASSUME IInv, NEW t \in Threads, Return(t),
         UNCHANGED <<node, index, root, head, mutex, calls>>,
         ~HoldsParent(t), ~HoldsIndex(t)
  PROVE  IInv'
<1> USE DEF IInv
<1>1. /\ call' \in [Threads -> Call]
      /\ call'[t].at = "idle"
      /\ \A u \in Threads : u # t => call'[u] = call[u]
  BY ReturnCall DEF Typed
<1>2. Typed'
  BY <1>1 DEF Typed
<1>3. Tree'
  BY TreeFrame
<1>4. Looked' /\ FlagRead'
  BY <1>1 DEF Looked, FlagRead
<1>5. Owned'
  BY <1>1 DEF Owned, HoldsParent, HoldsIndex
<1>6. NoLostWakeup'
  BY <1>1 DEF NoLostWakeup, HoldsIndex
<1> QED
  BY <1>2, <1>3, <1>4, <1>5, <1>6

LEMMA LookUpStep ==
  ASSUME IInv, NEW t \in Threads, LookUp(t)
  PROVE  IInv'
<1> USE DEF IInv, LookUp
<1>1. CASE call[t].id \notin DOMAIN index
  BY <1>1, FreeReturn DEF HoldsParent, HoldsIndex
<1>2. CASE call[t].id \in DOMAIN index
  <2>1. index[call[t].id] \in DOMAIN node /\ index[call[t].id] \in Nat
    BY <1>2, NodeDomain DEF Typed
  <2>2. /\ call' \in [Threads -> Call]
        /\ call'[t].at = "lock" /\ call'[t].id = call[t].id
        /\ call'[t].delta = index[call[t].id]
        /\ \A u \in Threads : u # t => call'[u] = call[u]
    <3>1. call' = [call EXCEPT ![t].at = "lock", ![t].delta = index[call[t].id]]
      BY <1>2
    <3>2. call \in [Threads -> Call] /\ "lock" \in Places
      BY DEF Typed, Places, Creating
    <3> QED
      BY ONLY <2>1, <3>1, <3>2, t \in Threads DEF Call
  <2>3. Typed'
    BY <2>2 DEF Typed
  <2>4. Tree'
    BY TreeFrame
  <2>5. Looked' /\ FlagRead' /\ NoLostWakeup'
    BY <1>2, <2>1, <2>2 DEF Looked, FlagRead, NoLostWakeup, Tree
  <2>6. Owned'
    BY <2>2 DEF Owned, HoldsParent, HoldsIndex
  <2> QED
    BY <2>3, <2>4, <2>5, <2>6
<1> QED
  BY <1>1, <1>2

\* The cv mutex of the delta a thread looked up gets another owner.
GiveCv(t, x) == [node EXCEPT ![call[t].delta].cv = x]

LEMMA OwnerChange ==
  ASSUME Typed, Tree, NEW t \in Threads, call[t].delta \in DOMAIN node,
         NEW x \in Threads \cup {Free}, node' = GiveCv(t, x),
         UNCHANGED <<index, root, head, mutex, calls>>,
         call' \in [Threads -> Call]
  PROVE  /\ Typed'
         /\ Tree'
         /\ DOMAIN node' = DOMAIN node
         /\ \A e \in DOMAIN node :
              /\ node'[e].id = node[e].id
              /\ node'[e].finalized = node[e].finalized
              /\ node'[e].cv = IF e = call[t].delta THEN x ELSE node[e].cv
<1>1. /\ GiveCv(t, x) \in Seq(Node)
      /\ DOMAIN GiveCv(t, x) = DOMAIN node
      /\ \A e \in DOMAIN node :
           /\ GiveCv(t, x)[e].id = node[e].id
           /\ GiveCv(t, x)[e].parent = node[e].parent
           /\ GiveCv(t, x)[e].finalized = node[e].finalized
           /\ GiveCv(t, x)[e].cv = IF e = call[t].delta THEN x ELSE node[e].cv
  <2>1. node \in Seq(Node)
    BY DEF Typed
  <2> QED
    BY ONLY <2>1, call[t].delta \in DOMAIN node, x \in Threads \cup {Free}, SetOwner DEF GiveCv
<1>2. Typed'
  BY <1>1 DEF Typed
<1>3. Tree'
  BY <1>1, TreeFrame
<1> QED
  BY <1>1, <1>2, <1>3

LEMMA LockParentStep ==
  ASSUME IInv, NEW t \in Threads, LockParent(t)
  PROVE  IInv'
<1> USE DEF IInv
<1>1. /\ call[t].at = "lock"
      /\ node[call[t].delta].cv = Free
      /\ node' = GiveCv(t, t)
      /\ GoTo(t, "check")
      /\ UNCHANGED <<index, root, head, mutex, calls>>
  BY DEF LockParent, GiveCv
<1>2. /\ call' \in [Threads -> Call]
      /\ call'[t].at = "check"
      /\ call'[t].id = call[t].id
      /\ call'[t].delta = call[t].delta
      /\ \A u \in Threads : u # t => call'[u] = call[u]
  BY <1>1, GoToCall DEF Typed, Places, Creating
<1>3. call[t].delta \in DOMAIN node
  BY <1>1 DEF Looked
<1>4. /\ Typed'
      /\ Tree'
      /\ DOMAIN node' = DOMAIN node
      /\ \A e \in DOMAIN node :
           /\ node'[e].id = node[e].id
           /\ node'[e].finalized = node[e].finalized
           /\ node'[e].cv = IF e = call[t].delta THEN t ELSE node[e].cv
  BY <1>1, <1>2, <1>3, OwnerChange
<1>5. Looked' /\ FlagRead'
  BY <1>1, <1>2, <1>3, <1>4 DEF Looked, FlagRead
<1>6. NoLostWakeup'
  BY <1>1, <1>2, <1>4 DEF NoLostWakeup, Looked
<1>7. Owned'
  BY <1>1, <1>2, <1>3, <1>4, ConstantsAssumption DEF Owned, HoldsParent, HoldsIndex
<1> QED
  BY <1>4, <1>5, <1>6, <1>7

LEMMA CheckFinalizedStep ==
  ASSUME IInv, NEW t \in Threads, CheckFinalized(t)
  PROVE  IInv'
<1> USE DEF IInv, CheckFinalized
<1> DEFINE place == IF node[call[t].delta].finalized THEN "insert" ELSE "sleep"
<1>1. /\ call' \in [Threads -> Call]
      /\ call'[t].at = place
      /\ call'[t].id = call[t].id
      /\ call'[t].delta = call[t].delta
      /\ \A u \in Threads : u # t => call'[u] = call[u]
  <2>1. place \in Places
    BY DEF Places, Creating
  <2> HIDE DEF place
  <2>2. GoTo(t, place)
    BY DEF place
  <2> QED
    BY <2>1, <2>2, GoToCall DEF Typed
<1>2. Typed'
  BY <1>1 DEF Typed
<1>3. Tree'
  BY TreeFrame
<1>4. Looked' /\ FlagRead'
  BY <1>1 DEF Looked, FlagRead
<1>5. Owned'
  BY <1>1 DEF Owned, HoldsParent, HoldsIndex
<1>6. NoLostWakeup'
  BY <1>1 DEF NoLostWakeup
<1> QED
  BY <1>2, <1>3, <1>4, <1>5, <1>6

\* A wait begins with the flag still unset, for the cv mutex is held.
LEMMA SleepStep ==
  ASSUME IInv, NEW t \in Threads, Sleep(t)
  PROVE  IInv'
<1> USE DEF IInv
<1>1. /\ call[t].at = "sleep"
      /\ node' = GiveCv(t, Free)
      /\ GoTo(t, "wait")
      /\ UNCHANGED <<index, root, head, mutex, calls>>
  BY DEF Sleep, GiveCv
<1>2. /\ call' \in [Threads -> Call]
      /\ call'[t].at = "wait"
      /\ call'[t].id = call[t].id
      /\ call'[t].delta = call[t].delta
      /\ \A u \in Threads : u # t => call'[u] = call[u]
  BY <1>1, GoToCall DEF Typed, Places, Creating
<1>3. call[t].delta \in DOMAIN node
  BY <1>1 DEF Looked
<1>4. /\ Typed'
      /\ Tree'
      /\ DOMAIN node' = DOMAIN node
      /\ \A e \in DOMAIN node :
           /\ node'[e].id = node[e].id
           /\ node'[e].finalized = node[e].finalized
           /\ node'[e].cv = IF e = call[t].delta THEN Free ELSE node[e].cv
  BY <1>1, <1>2, <1>3, OwnerChange
<1>5. Looked' /\ FlagRead'
  BY <1>1, <1>2, <1>3, <1>4 DEF Looked, FlagRead
<1>6. NoLostWakeup'
  BY <1>1, <1>2, <1>3, <1>4 DEF NoLostWakeup, Looked, FlagRead
<1>7. Owned'
  BY <1>1, <1>2, <1>3, <1>4, ConstantsAssumption DEF Owned, HoldsParent, HoldsIndex
<1> QED
  BY <1>4, <1>5, <1>6, <1>7

LEMMA WakeUpStep ==
  ASSUME IInv, NEW t \in Threads, WakeUp(t)
  PROVE  IInv'
<1> USE DEF IInv
<1>1. CASE ~node[call[t].delta].finalized
  BY <1>1, FreeReturn DEF WakeUp, HoldsParent, HoldsIndex
<1>2. CASE node[call[t].delta].finalized
  <2>1. /\ call[t].at = "notified"
        /\ node[call[t].delta].cv = Free
        /\ node' = GiveCv(t, t)
        /\ GoTo(t, "insert")
        /\ UNCHANGED <<index, root, head, mutex, calls>>
    BY <1>2 DEF WakeUp, GiveCv
  <2>2. /\ call' \in [Threads -> Call]
        /\ call'[t].at = "insert"
        /\ call'[t].id = call[t].id
        /\ call'[t].delta = call[t].delta
        /\ \A u \in Threads : u # t => call'[u] = call[u]
    BY <2>1, GoToCall DEF Typed, Places, Creating
  <2>3. call[t].delta \in DOMAIN node
    BY <2>1 DEF Looked
  <2>4. /\ Typed'
        /\ Tree'
        /\ DOMAIN node' = DOMAIN node
        /\ \A e \in DOMAIN node :
             /\ node'[e].id = node[e].id
             /\ node'[e].finalized = node[e].finalized
             /\ node'[e].cv = IF e = call[t].delta THEN t ELSE node[e].cv
    BY <2>1, <2>2, <2>3, OwnerChange
  <2>5. Looked' /\ FlagRead'
    BY <1>2, <2>1, <2>2, <2>3, <2>4 DEF Looked, FlagRead
  <2>6. NoLostWakeup'
    BY <2>1, <2>2, <2>4 DEF NoLostWakeup, Looked
  <2>7. Owned'
    BY <2>1, <2>2, <2>3, <2>4, ConstantsAssumption DEF Owned, HoldsParent, HoldsIndex
  <2> QED
    BY <2>4, <2>5, <2>6, <2>7
<1> QED
  BY <1>1, <1>2

\* The steps of a thread that waits or gives up without a mutex.
LEMMA WaitingSteps ==
  ASSUME IInv, NEW t \in Threads,
         LockParentTimeout(t) \/ WakeSpuriously(t) \/ WakeTimeout(t) \/ WakeUpLate(t)
  PROVE  IInv'
<1>1. CASE LockParentTimeout(t)
  BY <1>1, FreeReturn DEF LockParentTimeout, HoldsParent, HoldsIndex
<1>2. CASE WakeSpuriously(t)
  BY <1>2, FreeStep DEF WakeSpuriously, HoldsParent, HoldsIndex, Places, Creating, Waking
<1>3. CASE WakeTimeout(t)
  BY <1>3, FreeStep DEF WakeTimeout, HoldsParent, HoldsIndex, Places, Creating, Waking
<1>4. CASE WakeUpLate(t)
  BY <1>4, FreeReturn DEF WakeUpLate, HoldsParent, HoldsIndex
<1> QED
  BY <1>1, <1>2, <1>3, <1>4

\* A creation that gives up releases the cv mutex and changes nothing else.
LEMMA GiveUp ==
  ASSUME IInv, NEW t \in Threads, call[t].at = "insert", node' = GiveCv(t, Free), Return(t),
         UNCHANGED <<index, root, head, mutex, calls>>
  PROVE  IInv'
<1> USE DEF IInv
<1>1. /\ call' \in [Threads -> Call]
      /\ call'[t].at = "idle"
      /\ \A u \in Threads : u # t => call'[u] = call[u]
  BY ReturnCall DEF Typed
<1>2. call[t].delta \in DOMAIN node
  BY DEF Looked
<1>3. /\ Typed'
      /\ Tree'
      /\ DOMAIN node' = DOMAIN node
      /\ \A e \in DOMAIN node :
           /\ node'[e].id = node[e].id
           /\ node'[e].finalized = node[e].finalized
           /\ node'[e].cv = IF e = call[t].delta THEN Free ELSE node[e].cv
  BY <1>1, <1>2, OwnerChange
<1>4. Looked' /\ FlagRead'
  BY <1>1, <1>3 DEF Looked, FlagRead
<1>5. NoLostWakeup'
  BY <1>1, <1>3 DEF NoLostWakeup, Looked
<1>6. Owned'
  BY <1>1, <1>2, <1>3, ConstantsAssumption DEF Owned, HoldsParent, HoldsIndex
<1> QED
  BY <1>3, <1>4, <1>5, <1>6

\* The child has a parent that is finalized and whose id is in the index.
LEMMA InsertStep ==
  ASSUME IInv, NEW t \in Threads, Insert(t)
  PROVE  IInv'
<1> USE DEF IInv
<1>0. PICK d, n, last : d = call[t].delta /\ n = call[t].new /\ last = Len(node) + 1
  OBVIOUS
<1>1. CASE ~(call[t].id \in DOMAIN index /\ n \notin DOMAIN index)
  <2>1. node' = GiveCv(t, Free)
    BY <1>0, <1>1 DEF Insert, Released, GiveCv
  <2>2. /\ call[t].at = "insert" /\ Return(t)
        /\ UNCHANGED <<index, root, head, mutex, calls>>
    BY <1>0, <1>1 DEF Insert
  <2> QED
    BY <2>1, <2>2, GiveUp
<1>2. CASE call[t].id \in DOMAIN index /\ n \notin DOMAIN index
  <2>1. /\ call[t].at = "insert"
        /\ node' = Append(GiveCv(t, Free), Child(t))
        /\ index' = [i \in DOMAIN index \cup {n} |-> IF i = n THEN last ELSE index[i]]
        /\ Return(t)
        /\ UNCHANGED <<root, head, mutex, calls>>
    BY <1>0, <1>2 DEF Insert, Released, GiveCv
  <2>2. /\ call' \in [Threads -> Call]
        /\ call'[t].at = "idle"
        /\ \A u \in Threads : u # t => call'[u] = call[u]
    BY <2>1, ReturnCall DEF Typed
  <2>3. d \in DOMAIN node /\ node[d].id = call[t].id /\ node[d].finalized
    BY <1>0, <2>1 DEF Looked, FlagRead
  <2>4. /\ GiveCv(t, Free) \in Seq(Node)
        /\ DOMAIN GiveCv(t, Free) = DOMAIN node
        /\ \A e \in DOMAIN node :
             /\ GiveCv(t, Free)[e].id = node[e].id
             /\ GiveCv(t, Free)[e].parent = node[e].parent
             /\ GiveCv(t, Free)[e].finalized = node[e].finalized
             /\ GiveCv(t, Free)[e].cv = IF e = d THEN Free ELSE node[e].cv
    <3>1. node \in Seq(Node)
      BY DEF Typed
    <3> QED
      BY ONLY <1>0, <2>3, <3>1, SetOwner DEF GiveCv
  <2>5. Len(GiveCv(t, Free)) = Len(node)
    BY <2>4, NodeDomain DEF Typed
  <2>6. /\ Child(t) \in Node
        /\ Child(t).id = n /\ Child(t).parent = d /\ Child(t).cv = Free
    <3>1. n \in Ids
      BY <1>0 DEF Typed, Call
    <3>2. d \in Nat /\ node[d].revision \in Nat
      BY <2>3, NodeDomain DEF Typed, Node
    <3> QED
      BY <1>0, <3>1, <3>2 DEF Child, Made, Node
  <2>7. /\ node' \in Seq(Node)
        /\ DOMAIN node' = DOMAIN node \cup {last}
        /\ last \notin DOMAIN node
        /\ node'[last] = Child(t)
        /\ \A e \in DOMAIN node : node'[e] = GiveCv(t, Free)[e]
    BY <1>0, <2>1, <2>4, <2>5, <2>6, AppendNode
  <2>8. /\ \A e \in DOMAIN node :
             /\ node'[e].id = node[e].id
             /\ node'[e].parent = node[e].parent
             /\ node'[e].finalized = node[e].finalized
             /\ node'[e].cv = IF e = d THEN Free ELSE node[e].cv
        /\ node'[last].id = n /\ node'[last].parent = d /\ node'[last].cv = Free
    BY <2>4, <2>6, <2>7
  <2>9. /\ DOMAIN index' = DOMAIN index \cup {n} /\ index'[n] = last
        /\ \A i \in DOMAIN index : index[i] \in DOMAIN node /\ index'[i] = index[i]
    BY <1>2, <2>1 DEF Typed
  <2>10. Typed'
    <3>1. index' \in [DOMAIN index' -> DOMAIN node']
      BY <2>1, <2>7 DEF Typed
    <3> QED
      BY <2>1, <2>2, <2>7, <3>1 DEF Typed
  <2>11. Tree'
    <3>1. \A i \in DOMAIN index' : node'[index'[i]].id = i
      BY <2>8, <2>9 DEF Tree
    <3>2. \A e \in DOMAIN node' : HasParent(e)' => node'[e].parent \in DOMAIN node'
      BY <2>3, <2>7, <2>8 DEF Tree, HasParent
    <3>3. ChildOfFinalized'
      BY <2>3, <2>7, <2>8 DEF Tree, ChildOfFinalized, HasParent
    <3>4. ParentIndexed'
      <4>1. \A i \in DOMAIN index : index'[i] # root' =>
              /\ node'[index'[i]].parent # Nothing
              /\ node'[node'[index'[i]].parent].id \in DOMAIN index'
        <5> SUFFICES ASSUME NEW i \in DOMAIN index, index'[i] # root'
                     PROVE  /\ node'[index'[i]].parent # Nothing
                            /\ node'[node'[index'[i]].parent].id \in DOMAIN index'
          OBVIOUS
        <5>1. index[i] \in DOMAIN node /\ index'[i] = index[i] /\ index[i] # root
          BY <2>1, <2>9
        <5>2. /\ node[index[i]].parent # Nothing
              /\ node[node[index[i]].parent].id \in DOMAIN index
          BY <5>1 DEF Tree, ParentIndexed, HasParent, ParentId
        <5>3. node[index[i]].parent \in DOMAIN node
          BY <5>1, <5>2 DEF Tree, HasParent
        <5> QED
          BY <2>8, <2>9, <5>1, <5>2, <5>3
      <4>2. d # Nothing
        BY <2>3, NodeDomain DEF Typed
      <4>3. node'[last].parent # Nothing /\ node'[node'[last].parent].id \in DOMAIN index'
        BY <1>2, <2>3, <2>8, <2>9, <4>2
      <4> QED
        BY <2>9, <4>1, <4>3 DEF ParentIndexed, HasParent, ParentId
    <3> QED
      BY <3>1, <3>2, <3>3, <3>4 DEF Tree
  <2>12. Looked' /\ FlagRead'
    BY <2>2, <2>7, <2>8 DEF Looked, FlagRead
  <2>13. NoLostWakeup'
    <3> SUFFICES ASSUME NEW w \in Threads, call'[w].at = "wait", node'[call'[w].delta].finalized
                 PROVE  \E u \in Threads : call'[u].at = "notify" /\ call'[u].delta = call'[w].delta
      BY DEF NoLostWakeup
    <3>1. call'[w] = call[w] /\ call[w].delta \in DOMAIN node
      BY <2>2 DEF Looked
    <3>2. node[call[w].delta].finalized
      BY <2>8, <3>1
    <3>3. PICK u \in Threads : call[u].at = "notify" /\ call[u].delta = call[w].delta
      BY <3>1, <3>2 DEF NoLostWakeup
    <3> QED
      BY <2>1, <2>2, <3>1, <3>3
  <2>14. Owned'
    <3>1. \A u \in Threads : mutex' = u <=> HoldsIndex(u)'
      BY <2>1, <2>2 DEF Owned, HoldsIndex
    <3>2. ASSUME NEW u \in Threads, NEW e \in DOMAIN node'
          PROVE  node'[e].cv = u <=> HoldsParent(u)' /\ call'[u].delta = e
      <4>1. CASE e = last
        BY <2>2, <2>7, <2>8, <4>1, ConstantsAssumption DEF HoldsParent, Looked
      <4>2. CASE e \in DOMAIN node
        BY <1>0, <2>1, <2>2, <2>8, <4>2, ConstantsAssumption DEF HoldsParent, Owned
      <4> QED
        BY <2>7, <4>1, <4>2
    <3> QED
      BY <3>1, <3>2 DEF Owned
  <2> QED
    BY <2>10, <2>11, <2>12, <2>13, <2>14
<1> QED
  BY <1>1, <1>2

LEMMA InsertTimeoutStep ==
  ASSUME IInv, NEW t \in Threads, InsertTimeout(t)
  PROVE  IInv'
<1>1. node' = GiveCv(t, Free)
  BY DEF InsertTimeout, Released, GiveCv
<1>2. call[t].at = "insert" /\ Return(t) /\ UNCHANGED <<index, root, head, mutex, calls>>
  BY DEF InsertTimeout
<1> QED
  BY <1>1, <1>2, GiveUp

-----------------------------------------------------------------------------
(* The steps of a finalization *)

LEMMA FindStep ==
  ASSUME IInv, NEW t \in Threads, Find(t)
  PROVE  IInv'
<1> USE DEF IInv
<1>1. CASE call[t].id \notin DOMAIN index
  BY <1>1, FreeReturn DEF Find, HoldsParent, HoldsIndex
<1>2. CASE call[t].id \in DOMAIN index
  <2>1. /\ call[t].at = "find" /\ mutex = Free /\ mutex' = t
        /\ call' = [call EXCEPT ![t].at = "flag", ![t].delta = index[call[t].id]]
        /\ UNCHANGED <<node, index, root, head, calls>>
    BY <1>2 DEF Find
  <2>2. index[call[t].id] \in DOMAIN node /\ index[call[t].id] \in Nat
    BY <1>2, NodeDomain DEF Typed
  <2>3. /\ call' \in [Threads -> Call]
        /\ call'[t].at = "flag" /\ call'[t].id = call[t].id
        /\ call'[t].delta = index[call[t].id]
        /\ \A u \in Threads : u # t => call'[u] = call[u]
    <3>1. call \in [Threads -> Call] /\ "flag" \in Places
      BY DEF Typed, Places, Finalizing
    <3> QED
      BY ONLY <2>1, <2>2, <3>1, t \in Threads DEF Call
  <2>4. Typed'
    BY <2>1, <2>3 DEF Typed
  <2>5. Tree'
    BY <2>1, TreeFrame
  <2>6. Looked' /\ FlagRead' /\ NoLostWakeup'
    BY <1>2, <2>1, <2>2, <2>3 DEF Looked, FlagRead, NoLostWakeup, Tree
  <2>7. Owned'
    BY <2>1, <2>3, ConstantsAssumption DEF Owned, HoldsParent, HoldsIndex
  <2> QED
    BY <2>4, <2>5, <2>6, <2>7
<1> QED
  BY <1>1, <1>2

\* Nobody is between reading the flag and waiting when it is set, for the cv
\* mutex is free; those that wait already are to be notified.
LEMMA SetFinalizedStep ==
  ASSUME IInv, NEW t \in Threads, SetFinalized(t)
  PROVE  IInv'
<1> USE DEF IInv
<1>0. PICK d : d = call[t].delta
  OBVIOUS
<1>1. /\ call[t].at = "flag"
      /\ node[d].cv = Free
      /\ node' = [node EXCEPT ![d].finalized = TRUE]
      /\ GoTo(t, "notify")
      /\ UNCHANGED <<index, root, head, mutex, calls>>
  BY <1>0 DEF SetFinalized
<1>2. /\ call' \in [Threads -> Call]
      /\ call'[t].at = "notify"
      /\ call'[t].id = call[t].id
      /\ call'[t].delta = d
      /\ \A u \in Threads : u # t => call'[u] = call[u]
  BY <1>0, <1>1, GoToCall DEF Typed, Places, Finalizing
<1>3. d \in DOMAIN node
  BY <1>0, <1>1 DEF Looked
<1>4. /\ node' \in Seq(Node)
      /\ DOMAIN node' = DOMAIN node
      /\ \A e \in DOMAIN node :
           /\ node'[e].id = node[e].id
           /\ node'[e].parent = node[e].parent
           /\ node'[e].cv = node[e].cv
           /\ e = d => node'[e].finalized
           /\ e # d => node'[e] = node[e]
  <2>1. node \in Seq(Node)
    BY DEF Typed
  <2> QED
    BY ONLY <1>1, <1>3, <2>1, SetFlag
<1>5. Typed'
  BY <1>1, <1>2, <1>4 DEF Typed
<1>6. Tree'
  BY <1>1, <1>4, TreeFrame
<1>7. Looked'
  BY <1>0, <1>1, <1>2, <1>3, <1>4 DEF Looked
<1>8. FlagRead'
  BY <1>1, <1>2, <1>3, <1>4, ConstantsAssumption DEF FlagRead, Looked, Owned, HoldsParent
<1>9. NoLostWakeup'
  <2> SUFFICES ASSUME NEW w \in Threads, call'[w].at = "wait", node'[call'[w].delta].finalized
               PROVE  \E u \in Threads : call'[u].at = "notify" /\ call'[u].delta = call'[w].delta
    BY DEF NoLostWakeup
  <2>1. w # t /\ call'[w] = call[w] /\ call[w].delta \in DOMAIN node
    BY <1>2 DEF Looked
  <2>2. CASE call[w].delta = d
    BY <1>2, <2>1, <2>2
  <2>3. CASE call[w].delta # d
    <3>1. node[call[w].delta].finalized
      BY <1>4, <2>1, <2>3
    <3>2. PICK u \in Threads : call[u].at = "notify" /\ call[u].delta = call[w].delta
      BY <2>1, <3>1 DEF NoLostWakeup
    <3> QED
      BY <1>1, <1>2, <2>1, <3>2
  <2> QED
    BY <2>2, <2>3
<1>10. Owned'
  BY <1>0, <1>1, <1>2, <1>4 DEF Owned, HoldsParent, HoldsIndex
<1> QED
  BY <1>5, <1>6, <1>7, <1>8, <1>9, <1>10

LEMMA NotifyAllStep ==
  ASSUME IInv, NEW t \in Threads, NotifyAll(t)
  PROVE  IInv'
<1> USE DEF IInv
<1>1. /\ call[t].at = "notify"
      /\ call' = [u \in Threads |->
                    IF u = t THEN [call[t] EXCEPT !.at = "heads"]
                    ELSE IF call[u].at = "wait" /\ call[u].delta = call[t].delta
                         THEN [call[u] EXCEPT !.at = "notified"]
                    ELSE call[u]]
      /\ UNCHANGED <<node, index, root, head, mutex, calls>>
  BY DEF NotifyAll
<1>2. /\ call' \in [Threads -> Call]
      /\ \A u \in Threads : call'[u].id = call[u].id /\ call'[u].delta = call[u].delta
      /\ call'[t].at = "heads"
      /\ \A u \in Threads \ {t} :
           call'[u].at = IF call[u].at = "wait" /\ call[u].delta = call[t].delta THEN "notified"
                         ELSE call[u].at
  <2>1. call \in [Threads -> Call] /\ "heads" \in Places /\ "notified" \in Places
    BY DEF Typed, Places, Creating, Waking, Finalizing
  <2>2. \A u \in Threads, p \in Places :
          LET c == [call[u] EXCEPT !.at = p]
          IN  c \in Call /\ c.at = p /\ c.id = call[u].id /\ c.delta = call[u].delta
    BY <2>1 DEF Call
  <2>3. \A u \in Threads : call'[u] \in Call
    BY <1>1, <2>1, <2>2
  <2>4. \A u \in Threads : call'[u].id = call[u].id /\ call'[u].delta = call[u].delta
    BY <1>1, <2>1, <2>2
  <2>5. call'[t].at = "heads"
    BY <1>1, <2>1, <2>2
  <2>6. \A u \in Threads \ {t} :
           call'[u].at = IF call[u].at = "wait" /\ call[u].delta = call[t].delta THEN "notified"
                         ELSE call[u].at
    BY <1>1, <2>1, <2>2
  <2> QED
    BY <1>1, <2>3, <2>4, <2>5, <2>6
<1> HIDE DEF NotifyAll
<1>3. Typed'
  BY <1>1, <1>2 DEF Typed
<1>4. Tree'
  BY <1>1, TreeFrame
<1>5. Looked' /\ FlagRead'
  BY <1>1, <1>2 DEF Looked, FlagRead
<1>6. Owned'
  BY <1>1, <1>2 DEF Owned, HoldsParent, HoldsIndex
<1>7. NoLostWakeup'
  <2> SUFFICES ASSUME NEW w \in Threads, call'[w].at = "wait", node'[call'[w].delta].finalized
               PROVE  \E u \in Threads : call'[u].at = "notify" /\ call'[u].delta = call'[w].delta
    BY DEF NoLostWakeup
  <2>1. w # t /\ call[w].at = "wait" /\ call[w].delta # call[t].delta
    BY <1>2
  <2>2. PICK u \in Threads : call[u].at = "notify" /\ call[u].delta = call[w].delta
    BY <1>1, <1>2, <2>1 DEF NoLostWakeup
  <2> QED
    BY <1>2, <2>1, <2>2
<1> QED
  BY <1>3, <1>4, <1>5, <1>6, <1>7

LEMMA UpdateHeadStep ==
  ASSUME IInv, NEW t \in Threads, UpdateHead(t)
  PROVE  IInv'
<1> USE DEF IInv
<1>1. /\ call[t].at = "heads" /\ mutex' = Free /\ Return(t)
      /\ head' \in {call[t].delta, head}
      /\ UNCHANGED <<node, index, root, calls>>
  BY DEF UpdateHead
<1>2. /\ call' \in [Threads -> Call]
      /\ call'[t].at = "idle"
      /\ \A u \in Threads : u # t => call'[u] = call[u]
  BY <1>1, ReturnCall DEF Typed
<1>3. Typed'
  BY <1>1, <1>2 DEF Typed, Looked
<1>4. Tree'
  BY <1>1, TreeFrame
<1>5. Looked' /\ FlagRead' /\ NoLostWakeup'
  BY <1>1, <1>2 DEF Looked, FlagRead, NoLostWakeup
<1>6. Owned'
  BY <1>1, <1>2, ConstantsAssumption DEF Owned, HoldsParent, HoldsIndex
<1> QED
  BY <1>3, <1>4, <1>5, <1>6

-----------------------------------------------------------------------------
(* Discarding and committing *)

\* What lies below an id is closed under children.
LEMMA BelowClosed ==
  ASSUME NEW i
  PROVE  ChildClosed(Below(i))
<1> SUFFICES ASSUME NEW j \in DOMAIN index, HasParent(index[j]), ParentId(index[j]) \in Below(i),
                    NEW S \in SUBSET DOMAIN index, i \in S, ChildClosed(S)
             PROVE  j \in S
  BY DEF ChildClosed, Below
<1>1. ParentId(index[j]) \in S
  BY DEF Below
<1> QED
  BY <1>1 DEF ChildClosed

\* Every id below another but itself has a parent there.
LEMMA BelowHasParent ==
  ASSUME NEW i \in DOMAIN index, NEW j \in Below(i), j # i
  PROVE  HasParent(index[j]) /\ ParentId(index[j]) \in Below(i)
<1> SUFFICES ASSUME ~(HasParent(index[j]) /\ ParentId(index[j]) \in Below(i))
             PROVE  FALSE
  OBVIOUS
<1> DEFINE S == Below(i) \ {j}
<1>1. S \in SUBSET DOMAIN index
  BY DEF Below
<1>2. i \in S
  BY DEF Below
<1>3. ChildClosed(S)
  BY BelowClosed DEF ChildClosed
<1>4. j \in S
  BY <1>1, <1>2, <1>3 DEF Below
<1> QED
  BY <1>4

LEMMA DiscardStep ==
  ASSUME IInv, NEW t \in Threads, Discard(t)
  PROVE  IInv'
<1> USE DEF IInv
<1>1. /\ call[t].at = "discard" /\ Return(t)
      /\ \/ index' = index
         \/ index' = Keep(DOMAIN index \ Below(call[t].id))
      /\ UNCHANGED <<node, root, head, mutex, calls>>
  BY DEF Discard
<1>2. CASE index' = index
  BY <1>1, <1>2, FreeReturn DEF HoldsParent, HoldsIndex
<1>3. CASE index' = Keep(DOMAIN index \ Below(call[t].id))
  <2>0. PICK gone : gone = Below(call[t].id)
    OBVIOUS
  <2>1. /\ call' \in [Threads -> Call]
        /\ call'[t].at = "idle"
        /\ \A u \in Threads : u # t => call'[u] = call[u]
    BY <1>1, ReturnCall DEF Typed
  <2>2. /\ DOMAIN index' = DOMAIN index \ gone
        /\ \A i \in DOMAIN index' : index'[i] = index[i]
        /\ index' = [i \in DOMAIN index \ gone |-> index[i]]
    BY <1>3, <2>0 DEF Keep
  <2>3. Typed'
    <3>1. index' \in [DOMAIN index' -> DOMAIN node']
      BY <1>1, <2>2 DEF Typed
    <3> QED
      BY <1>1, <2>1, <3>1 DEF Typed
  <2>4. Tree'
    <3>1. \A i \in DOMAIN index' : node'[index'[i]].id = i
      BY <1>1, <2>2 DEF Tree
    <3>2. ChildOfFinalized' /\ \A d \in DOMAIN node' : HasParent(d)' => node'[d].parent \in DOMAIN node'
      BY <1>1 DEF Tree, ChildOfFinalized, HasParent
    <3>3. ParentIndexed'
      <4> SUFFICES ASSUME NEW i \in DOMAIN index', index'[i] # root'
                   PROVE  HasParent(index[i]) /\ ParentId(index[i]) \in DOMAIN index \ gone
        BY <1>1, <2>2 DEF ParentIndexed, HasParent, ParentId
      <4>1. HasParent(index[i]) /\ ParentId(index[i]) \in DOMAIN index
        BY <1>1, <2>2 DEF Tree, ParentIndexed
      <4>2. ParentId(index[i]) \notin gone
        BY <2>0, <2>2, <4>1, BelowClosed DEF ChildClosed
      <4> QED
        BY <4>1, <4>2
    <3> QED
      BY <3>1, <3>2, <3>3 DEF Tree
  <2>5. Looked' /\ FlagRead' /\ NoLostWakeup'
    BY <1>1, <2>1 DEF Looked, FlagRead, NoLostWakeup
  <2>6. Owned'
    BY <1>1, <2>1 DEF Owned, HoldsParent, HoldsIndex
  <2> QED
    BY <2>3, <2>4, <2>5, <2>6
<1> QED
  BY <1>1, <1>2, <1>3

LEMMA CommitStep ==
  ASSUME IInv, NEW i \in Ids, Commit(i)
  PROVE  IInv'
<1> USE DEF IInv
<1>0. PICK r, kept : r = index[i] /\ kept = Below(i)
  OBVIOUS
<1>1. /\ \A t \in Threads : call[t].at = "idle"
      /\ calls < MaxCalls /\ calls' = calls + 1
      /\ i \in DOMAIN index
      /\ root' = r
      /\ node' = [node EXCEPT ![r].parent = Nothing]
      /\ index' = [j \in kept |-> index[j]]
      /\ UNCHANGED <<head, mutex, call>>
  BY <1>0 DEF Commit, Keep
<1>2. r \in DOMAIN node /\ node[r].id = i
  BY <1>0, <1>1 DEF Typed, Tree
<1>3. /\ node' \in Seq(Node)
      /\ DOMAIN node' = DOMAIN node
      /\ \A e \in DOMAIN node :
           /\ node'[e].id = node[e].id
           /\ node'[e].parent = IF e = r THEN Nothing ELSE node[e].parent
           /\ node'[e].cv = node[e].cv
           /\ node'[e].finalized = node[e].finalized
  <2>1. node \in Seq(Node)
    BY DEF Typed
  <2> QED
    BY ONLY <1>1, <1>2, <2>1, CutParent
<1>4. kept \subseteq DOMAIN index /\ \A j \in kept : index[j] \in DOMAIN node
  BY <1>0 DEF Below, Typed
<1>5. Typed'
  <2>1. index' \in [DOMAIN index' -> DOMAIN node']
    BY <1>1, <1>3, <1>4
  <2>2. calls' \in 0 .. MaxCalls
    BY <1>1, ConstantsAssumption DEF Typed
  <2> QED
    BY <1>1, <1>2, <1>3, <2>1, <2>2 DEF Typed
<1>6. Tree'
  <2>1. \A j \in DOMAIN index' : node'[index'[j]].id = j
    BY <1>1, <1>3, <1>4 DEF Tree
  <2>2. ChildOfFinalized' /\ \A d \in DOMAIN node' : HasParent(d)' => node'[d].parent \in DOMAIN node'
    BY <1>3 DEF Tree, ChildOfFinalized, HasParent
  <2>3. ParentIndexed'
    <3> SUFFICES ASSUME NEW j \in kept, index[j] # r
                 PROVE  node'[index[j]].parent # Nothing /\ node'[node'[index[j]].parent].id \in kept
      BY <1>1 DEF ParentIndexed, HasParent, ParentId
    <3>1. HasParent(index[j]) /\ ParentId(index[j]) \in kept
      BY <1>0, <1>1, BelowHasParent
    <3>2. node[index[j]].parent \in DOMAIN node
      BY <1>4, <3>1 DEF Tree
    <3> QED
      BY <1>3, <1>4, <3>1, <3>2 DEF HasParent, ParentId
  <2> QED
    BY <2>1, <2>2, <2>3 DEF Tree
<1>7. Looked' /\ FlagRead' /\ NoLostWakeup'
  BY <1>1 DEF Looked, FlagRead, NoLostWakeup
<1>8. Owned'
  BY <1>1, <1>3 DEF Owned, HoldsParent, HoldsIndex
<1> QED
  BY <1>5, <1>6, <1>7, <1>8

-----------------------------------------------------------------------------
(* The invariant *)

LEMMA InitInv ==
  ASSUME Init
  PROVE  IInv
<1>1. Genesis \in Ids /\ Winner \in Ids /\ Loser \in Ids
      /\ Genesis # Winner /\ Genesis # Loser /\ Winner # Loser
  BY ConstantsAssumption
<1>2. /\ node = <<Made(Genesis, Nothing, 0, TRUE), Made(Winner, 1, 1, TRUE), Made(Loser, 1, 1, TRUE)>>
      /\ index = [i \in {Genesis, Winner, Loser} |->
                    IF i = Genesis THEN 1 ELSE IF i = Winner THEN 2 ELSE 3]
      /\ root = 1 /\ head = 2 /\ mutex = Free /\ calls = 0
      /\ call = [t \in Threads |-> Idle]
  BY DEF Init
<1>3. \A i \in Ids, p \in Nat, r \in Nat : Made(i, p, r, TRUE) \in Node
  BY DEF Made, Node
<1>4. /\ node \in Seq(Node) /\ DOMAIN node = {1, 2, 3}
      /\ node[1] = Made(Genesis, Nothing, 0, TRUE)
      /\ node[2] = Made(Winner, 1, 1, TRUE)
      /\ node[3] = Made(Loser, 1, 1, TRUE)
  <2>1. Made(Genesis, Nothing, 0, TRUE) \in Node /\ Made(Winner, 1, 1, TRUE) \in Node
        /\ Made(Loser, 1, 1, TRUE) \in Node
    BY <1>1, <1>3 DEF Nothing
  <2>2. PICK a \in Node, b \in Node, c \in Node :
          /\ a = Made(Genesis, Nothing, 0, TRUE)
          /\ b = Made(Winner, 1, 1, TRUE)
          /\ c = Made(Loser, 1, 1, TRUE)
    BY <2>1
  <2>3. node = <<a, b, c>>
    BY ONLY <1>2, <2>2
  <2>4. <<a, b, c>> \in Seq(Node) /\ Len(<<a, b, c>>) = 3
    BY ONLY a \in Node, b \in Node, c \in Node
  <2>5. DOMAIN node = {1, 2, 3}
    <3>1. 1 .. 3 = {1, 2, 3}
      BY ONLY TRUE
    <3>2. DOMAIN <<a, b, c>> = 1 .. 3
      BY ONLY <2>4
    <3> QED
      BY ONLY <2>3, <3>1, <3>2
  <2>6. node[1] = a /\ node[2] = b /\ node[3] = c
    BY ONLY <2>3
  <2> QED
    BY ONLY <2>2, <2>3, <2>4, <2>5, <2>6
<1>5. /\ node[1].id = Genesis /\ node[1].parent = Nothing
      /\ node[2].id = Winner /\ node[2].parent = 1
      /\ node[3].id = Loser /\ node[3].parent = 1
      /\ \A d \in DOMAIN node : node[d].finalized /\ node[d].cv = Free
  BY <1>4 DEF Made
<1>6. /\ DOMAIN index = {Genesis, Winner, Loser}
      /\ index[Genesis] = 1 /\ index[Winner] = 2 /\ index[Loser] = 3
  BY <1>1, <1>2
<1>7. \A t \in Threads : call[t] = Idle /\ Idle \in Call /\ Idle.at = "idle"
  BY <1>1, <1>2 DEF Idle, Call, Places, Nothing
<1>8. Typed
  <2>1. index \in [DOMAIN index -> DOMAIN node]
    BY <1>2, <1>4
  <2>2. call \in [Threads -> Call]
    BY <1>2, <1>7
  <2>3. calls \in 0 .. MaxCalls
    BY <1>2, ConstantsAssumption
  <2>4. node \in Seq(Node) /\ DOMAIN index \subseteq Ids
    BY <1>1, <1>4, <1>6
  <2>5. root \in DOMAIN node /\ head \in DOMAIN node /\ mutex \in Threads \cup {Free}
    BY <1>2, <1>4
  <2> QED
    BY <2>1, <2>2, <2>3, <2>4, <2>5 DEF Typed
<1>9. Tree
  <2>1. \A i \in DOMAIN index : node[index[i]].id = i
    BY ONLY <1>5, <1>6
  <2>2. \A d \in DOMAIN node : HasParent(d) => node[d].parent \in DOMAIN node
    BY ONLY <1>4, <1>5 DEF HasParent
  <2>3. ChildOfFinalized
    BY ONLY <1>5, <2>2 DEF ChildOfFinalized
  <2>4. HasParent(2) /\ HasParent(3) /\ ParentId(2) = Genesis /\ ParentId(3) = Genesis
    BY ONLY <1>5 DEF HasParent, ParentId, Nothing
  <2>5. \A i \in DOMAIN index : index[i] # root => index[i] \in {2, 3}
    BY ONLY <1>2, <1>6
  <2>6. ParentIndexed
    BY ONLY <1>6, <2>4, <2>5 DEF ParentIndexed
  <2> QED
    BY ONLY <2>1, <2>2, <2>3, <2>6 DEF Tree
<1>10. Looked /\ FlagRead /\ NoLostWakeup
  BY <1>7 DEF Looked, FlagRead, NoLostWakeup
<1>11. Owned
  <2>1. \A t \in Threads : ~HoldsIndex(t) /\ ~HoldsParent(t)
    BY <1>7 DEF HoldsParent, HoldsIndex
  <2>2. mutex = Free /\ \A d \in DOMAIN node : node[d].cv = Free
    BY <1>2, <1>5
  <2>3. \A t \in Threads : t # Free
    BY ConstantsAssumption
  <2> QED
    BY ONLY <2>1, <2>2, <2>3 DEF Owned
<1> QED
  BY <1>8, <1>9, <1>10, <1>11 DEF IInv

LEMMA NextInv ==
  ASSUME IInv, [Next]_vars
  PROVE  IInv'
<1>1. ASSUME NEW t \in Threads, NEW p \in Ids, NEW n \in Ids,
             Start(t, "lookup", p, n) \/ Start(t, "find", n, n) \/ Start(t, "discard", n, n)
      PROVE  IInv'
  BY <1>1, StartStep
<1>2. ASSUME NEW i \in Ids, Commit(i)
      PROVE  IInv'
  BY <1>2, CommitStep
<1>3. ASSUME NEW t \in Threads, Tick(t) \/ WakeSpuriously(t)
      PROVE  IInv'
  BY <1>3, TickStep, WaitingSteps
<1>4. ASSUME NEW t \in Threads, CreateStep(t)
      PROVE  IInv'
  BY <1>4, LookUpStep, LockParentStep, CheckFinalizedStep, SleepStep, WaitingSteps, WakeUpStep,
     InsertStep, InsertTimeoutStep DEF CreateStep
<1>5. ASSUME NEW t \in Threads, FinalizeStep(t) \/ Discard(t)
      PROVE  IInv'
  BY <1>5, FindStep, SetFinalizedStep, NotifyAllStep, UpdateHeadStep, DiscardStep DEF FinalizeStep
<1>6. CASE UNCHANGED vars
  BY <1>6 DEF vars, IInv, Typed, Tree, Looked, Owned, FlagRead, NoLostWakeup, ChildOfFinalized,
              ParentIndexed, HasParent, ParentId, HoldsParent, HoldsIndex
<1> QED
  BY <1>1, <1>2, <1>3, <1>4, <1>5, <1>6 DEF Next, Step

LEMMA Invariance == Spec => []IInv
<1>1. Init => IInv
  BY InitInv
<1>2. IInv /\ [Next]_vars => IInv'
  BY NextInv
<1> QED
  BY <1>1, <1>2, PTL DEF Spec

\* Types, the links between deltas, and each mutex having the owner that is
\* where it should have it, in create_writable_node and finalize_node.
THEOREM TypeCorrect == Spec => []TypeOK
<1>1. IInv => TypeOK
  BY DEF IInv, TypeOK, Linked, Tree, Looked
<1> QED
  BY <1>1, Invariance, PTL

\* No wakeup of the condition variable in create_writable_node is lost.
THEOREM WakeupsArrive == Spec => []NoLostWakeup
<1>1. IInv => NoLostWakeup
  BY DEF IInv
<1> QED
  BY <1>1, Invariance, PTL

\* create_writable_node makes children of finalized nodes only.
THEOREM ParentsFinalized == Spec => []ChildOfFinalized
<1>1. IInv => ChildOfFinalized
  BY DEF IInv, Tree
<1> QED
  BY <1>1, Invariance, PTL

\* Whatever is discarded or committed between the two holds of the index
\* mutex in create_writable_node, no node is left in the index without its
\* parent's id.
THEOREM ParentsIndexed == Spec => []ParentIndexed
<1>1. IInv => ParentIndexed
  BY DEF IInv, Tree
<1> QED
  BY <1>1, Invariance, PTL
=============================================================================
