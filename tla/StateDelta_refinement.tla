------------------------ MODULE StateDelta_refinement ------------------------
(***************************************************************************)
(* StateDelta implements Snapshots, for every set of nodes, anonymous      *)
(* nodes, keys and values and every bound: the initial state maps to the   *)
(* initial state, and every step to a step of Snapshots or to none.        *)
(***************************************************************************)
EXTENDS StateDelta_proofs

-----------------------------------------------------------------------------
(* The refinement mapping *)

PendingOf(a) ==
  [k \in Keys |-> IF Modified(anon[a].state, k) THEN delta[anon[a].state].store[k]
                  ELSE Untouched]

stateBar == [n \in LiveNodes |-> ContentsOf(delta, n)]
sealedBar == {n \in LiveNodes : delta[n].finalized}
baseBar == [a \in Fresh |-> anon[a].parent]
pendingBar == [a \in Fresh |-> PendingOf(a)]

Overlaid(w, s) == [k \in Keys |-> IF w[k] = Untouched THEN s[k] ELSE w[k]]

\* The drafts that end with those of S.
OverBar(S) ==
  {d \in DOMAIN baseBar : \A D \in SUBSET DOMAIN baseBar :
     (\A e \in DOMAIN baseBar : baseBar[e] \in S \cup D => e \in D) => d \in D}

EndsBar(D, w) ==
  /\ baseBar' = Keep(baseBar, DOMAIN baseBar \ D)
  /\ pendingBar' = Keep(w, DOMAIN baseBar \ D)

\* The actions of Snapshots under the mapping.
LEMMA SnapActions ==
  /\ Snap!Init <=> /\ stateBar = [n \in {Genesis} |-> [k \in Keys |-> Absent]]
                   /\ sealedBar = {}
                   /\ baseBar = [d \in {} |-> Genesis]
                   /\ pendingBar = [d \in {} |-> [k \in Keys |-> Untouched]]
  /\ \A p, n : Snap!CreateNode(p, n) <=>
       /\ p \in sealedBar
       /\ n \notin DOMAIN stateBar
       /\ stateBar' = Insert(stateBar, n, stateBar[p])
       /\ UNCHANGED <<sealedBar, baseBar, pendingBar>>
  /\ \A m, n : Snap!CloneNode(m, n) <=>
       /\ m \in DOMAIN stateBar \ sealedBar
       /\ n \notin DOMAIN stateBar
       /\ stateBar' = Insert(stateBar, n, stateBar[m])
       /\ UNCHANGED <<sealedBar, baseBar, pendingBar>>
  /\ \A n, k, v : Snap!Write(n, k, v) <=>
       /\ n \in DOMAIN stateBar \ sealedBar
       /\ stateBar' = [stateBar EXCEPT ![n][k] = v]
       /\ UNCHANGED <<sealedBar, baseBar, pendingBar>>
  /\ \A n : Snap!Seal(n) <=>
       /\ n \in DOMAIN stateBar
       /\ sealedBar' = sealedBar \cup {n}
       /\ UNCHANGED <<stateBar, baseBar, pendingBar>>
  /\ \A S : Snap!Drop(S) <=>
       /\ stateBar' = Keep(stateBar, DOMAIN stateBar \ S)
       /\ sealedBar' = sealedBar \ S
       /\ EndsBar(OverBar(S), pendingBar)
  /\ \A d, n : Snap!Begin(d, n) <=>
       /\ d \notin DOMAIN baseBar
       /\ n \in DOMAIN stateBar \cup DOMAIN baseBar
       /\ baseBar' = Insert(baseBar, d, n)
       /\ pendingBar' = Insert(pendingBar, d, [k \in Keys |-> Untouched])
       /\ UNCHANGED <<stateBar, sealedBar>>
  /\ \A d, k, v : Snap!WriteDraft(d, k, v) <=>
       /\ d \in DOMAIN baseBar
       /\ pendingBar' = [pendingBar EXCEPT ![d][k] = v]
       /\ UNCHANGED <<stateBar, sealedBar, baseBar>>
  /\ \A d : Snap!MergeIntoNode(d) <=>
       /\ d \in DOMAIN baseBar
       /\ baseBar[d] \in DOMAIN stateBar \ sealedBar
       /\ stateBar' = [stateBar EXCEPT ![baseBar[d]] = Overlaid(pendingBar[d], @)]
       /\ EndsBar({d} \cup OverBar({d}), pendingBar)
       /\ UNCHANGED sealedBar
  /\ \A d : Snap!MergeIntoDraft(d) <=>
       /\ d \in DOMAIN baseBar
       /\ baseBar[d] \in DOMAIN baseBar
       /\ EndsBar({d} \cup OverBar({d}),
                  [pendingBar EXCEPT ![baseBar[d]] = Overlaid(pendingBar[d], @)])
       /\ UNCHANGED <<stateBar, sealedBar>>
  /\ \A d : Snap!End(d) <=>
       /\ d \in DOMAIN baseBar
       /\ EndsBar({d} \cup OverBar({d}), pendingBar)
       /\ UNCHANGED <<stateBar, sealedBar>>
<1> USE DEF stateBar, sealedBar, baseBar, pendingBar, PendingOf, OverBar, EndsBar, Overlaid,
            Keep, Insert, Snap!Keep, Snap!Extend, Snap!Over, Snap!EndDrafts, Snap!Overlay,
            Snap!Blank
<1> QED
  BY DEF Snap!Init, Snap!CreateNode, Snap!CloneNode, Snap!Write, Snap!Seal, Snap!Drop,
         Snap!Begin, Snap!WriteDraft, Snap!MergeIntoNode, Snap!MergeIntoDraft, Snap!End
LEMMA SnapSteps ==
  /\ \A p, n \in Nodes : Snap!CreateNode(p, n) \/ Snap!CloneNode(p, n) => Snap!Next
  /\ \A n \in Nodes, k \in Keys, v \in Values \cup {Absent} : Snap!Write(n, k, v) => Snap!Next
  /\ \A n \in Nodes : Snap!Seal(n) => Snap!Next
  /\ \A S \in SUBSET Nodes : Snap!Drop(S) => Snap!Next
  /\ \A d \in Handles, n \in Nodes \cup Handles : Snap!Begin(d, n) => Snap!Next
  /\ \A d \in Handles, k \in Keys, v \in Values \cup {Absent} :
       Snap!WriteDraft(d, k, v) => Snap!Next
  /\ \A d \in Handles :
       Snap!MergeIntoNode(d) \/ Snap!MergeIntoDraft(d) \/ Snap!End(d) => Snap!Next
  BY DEF Snap!Next

LEMMA SnapStutter ==
  UNCHANGED <<stateBar, sealedBar, baseBar, pendingBar>> => UNCHANGED Snap!vars
  BY DEF Snap!vars, stateBar, sealedBar, baseBar, pendingBar, PendingOf

LEMMA BarDomains ==
  /\ DOMAIN stateBar = LiveNodes
  /\ \A n \in LiveNodes : stateBar[n] = ContentsOf(delta, n)
  /\ sealedBar = {n \in LiveNodes : delta[n].finalized}
  /\ DOMAIN baseBar = Fresh
  /\ \A a \in Fresh : baseBar[a] = anon[a].parent
  /\ DOMAIN pendingBar = Fresh
  /\ \A a \in Fresh : pendingBar[a] = PendingOf(a)
  BY DEF stateBar, sealedBar, baseBar, pendingBar

-----------------------------------------------------------------------------
(* What a step leaves as it is *)

\* The steps that change no state node a state node reads through.
LEMMA NodesSame ==
  ASSUME TreeOK(delta), TreeOK(delta'), NEW T, T \subseteq LiveNodes, T \subseteq LiveNodes',
         \A n \in T : /\ delta'[n].store = delta[n].store
                      /\ delta'[n].removed = delta[n].removed
                      /\ delta'[n].parent = delta[n].parent
                      /\ delta[n].parent # Nil => delta[n].parent \in T
  PROVE  \A n \in T : /\ ContentsOf(delta', n) = ContentsOf(delta, n)
                      /\ \A k \in Keys : Find(delta', n, k) = Find(delta, n, k)
<1>1. \A n \in T : n \in DOMAIN delta /\ n \in DOMAIN delta'
  BY DEF LiveNodes
<1>2. \A k \in Keys : \A n \in T : Find(delta', n, k) = Find(delta, n, k)
  BY <1>1, FindSame
<1> QED
  BY <1>2 DEF ContentsOf

\* The parents of state nodes are state nodes.
LEMMA NodeParent ==
  ASSUME TreeOK(delta), NEW n \in LiveNodes, delta[n].parent # Nil
  PROVE  delta[n].parent \in LiveNodes /\ delta[delta[n].parent].finalized
  BY DEF TreeOK, LiveNodes

\* A step that leaves the state nodes.
LEMMA StateBarSame ==
  ASSUME TreeOK(delta), TreeOK(delta'), LiveNodes' = LiveNodes,
         \A n \in LiveNodes : /\ delta'[n].store = delta[n].store
                              /\ delta'[n].removed = delta[n].removed
                              /\ delta'[n].parent = delta[n].parent
  PROVE  stateBar' = stateBar
<1>1. \A n \in LiveNodes : delta[n].parent # Nil => delta[n].parent \in LiveNodes
  BY NodeParent
<1>2. \A n \in LiveNodes : ContentsOf(delta', n) = ContentsOf(delta, n)
  BY <1>1, NodesSame
<1> QED
  BY <1>2 DEF stateBar

\* A step that leaves what the fresh anonymous nodes hold.
LEMMA DraftsSame ==
  ASSUME Fresh' = Fresh,
         \A a \in Fresh : /\ anon'[a] = anon[a]
                          /\ delta'[anon[a].state].store = delta[anon[a].state].store
                          /\ delta'[anon[a].state].removed = delta[anon[a].state].removed
  PROVE  baseBar' = baseBar /\ pendingBar' = pendingBar
<1>1. baseBar' = baseBar
  BY DEF baseBar
<1>2. \A a \in Fresh : PendingOf(a)' = PendingOf(a)
  BY DEF PendingOf, Modified
<1> QED
  BY <1>1, <1>2 DEF pendingBar

\* A step on deltas that are there that leaves the nodes and the fresh
\* anonymous nodes: it shows in nothing.
LEMMA NothingShows ==
  ASSUME IInv, IInv', LiveNodes' = LiveNodes, Fresh' = Fresh,
         \A n \in LiveNodes : /\ delta'[n].store = delta[n].store
                              /\ delta'[n].removed = delta[n].removed
                              /\ delta'[n].parent = delta[n].parent
                              /\ delta'[n].finalized = delta[n].finalized,
         \A a \in Fresh : /\ anon'[a] = anon[a]
                          /\ delta'[anon[a].state].store = delta[anon[a].state].store
                          /\ delta'[anon[a].state].removed = delta[anon[a].state].removed
  PROVE  UNCHANGED <<stateBar, sealedBar, baseBar, pendingBar>>
<1>1. stateBar' = stateBar
  BY StateBarSame DEF IInv
<1>2. sealedBar' = sealedBar
  BY DEF sealedBar
<1>3. baseBar' = baseBar /\ pendingBar' = pendingBar
  BY DraftsSame
<1> QED
  BY <1>1, <1>2, <1>3

\* The delta of a fresh anonymous node.
LEMMA FreshState ==
  ASSUME ConstantsAssumption, IInv, NEW a \in Fresh
  PROVE  /\ a \in DOMAIN anon /\ a \in Handles
         /\ anon[a].state \in DOMAIN delta
         /\ anon[a].state \in Drafts /\ anon[a].state \notin Nodes
         /\ delta[anon[a].state] \in Delta
<1>1. a \in DOMAIN anon
  BY DEF Fresh
<1> QED
  BY <1>1, AnonType DEF IInv, TreeOK

-----------------------------------------------------------------------------
(* Writes *)

\* Writing the object w, or none, for the key k on the delta of u.
LEMMA WriteMaps ==
  ASSUME ConstantsAssumption, IInv, IInv', Fresh' = Fresh, anon' = anon,
         NEW u \in Users, NEW k \in Keys, NEW w \in Values \cup {Absent},
         ~delta[StateOf(u)].finalized,
         DOMAIN delta' = DOMAIN delta,
         \A e \in DOMAIN delta : e # StateOf(u) => delta'[e] = delta[e],
         delta'[StateOf(u)].parent = delta[StateOf(u)].parent,
         delta'[StateOf(u)].finalized = delta[StateOf(u)].finalized,
         delta'[StateOf(u)].store = [delta[StateOf(u)].store EXCEPT ![k] = w],
         \A j \in Keys \ {k} :
           j \in delta'[StateOf(u)].removed <=> j \in delta[StateOf(u)].removed,
         w = Absent => k \in delta'[StateOf(u)].removed
  PROVE  Snap!Next \/ UNCHANGED Snap!vars
<1> DEFINE d == StateOf(u)
<1>1. /\ d \in DOMAIN delta
      /\ u \in LiveNodes => d = u
      /\ u \notin LiveNodes => u \in DOMAIN anon /\ d = anon[u].state
  BY UserType DEF IInv
<1>2. /\ delta[d].store \in Store
      /\ TreeOK(delta) /\ TreeOK(delta')
      /\ LiveNodes' = LiveNodes
      /\ \A n \in LiveNodes : n \in DOMAIN delta
  BY <1>1, TreeOKIsTree DEF IInv, LiveNodes
<1>3. /\ \A e \in DOMAIN delta : e # d => delta'[e] = delta[e]
      /\ delta'[d].parent = delta[d].parent
      /\ delta'[d].finalized = delta[d].finalized
      /\ ~delta[d].finalized
      /\ delta'[d].store[k] = w
      /\ \A j \in Keys \ {k} : delta'[d].store[j] = delta[d].store[j]
      /\ \A j \in Keys \ {k} : j \in delta'[d].removed <=> j \in delta[d].removed
      /\ w = Absent => k \in delta'[d].removed
  BY <1>2 DEF Store
<1> HIDE DEF d
<1>4. sealedBar' = sealedBar
  BY <1>2, <1>3 DEF sealedBar
<1>5. CASE u \in LiveNodes
  <2>1. d = u /\ u \in Nodes /\ u \in DOMAIN delta
    BY <1>1, <1>5 DEF LiveNodes
  <2>2. \A n \in LiveNodes \ {u} : /\ ContentsOf(delta', n) = ContentsOf(delta, n)
                                   /\ \A j \in Keys : Find(delta', n, j) = Find(delta, n, j)
    <3>1. \A n \in LiveNodes : delta[n].parent # Nil => delta[n].parent \in LiveNodes \ {u}
      BY <1>2, <1>3, <2>1, NodeParent
    <3>2. \A n \in LiveNodes \ {u} : delta'[n] = delta[n]
      BY <1>2, <1>3, <2>1
    <3> QED
      BY <1>2, <3>1, <3>2, NodesSame
  <2>3. Find(delta', u, k) = w
    BY <1>2, <1>3, <2>1, FindUnfold
  <2>4. ASSUME NEW j \in Keys \ {k}
        PROVE  Find(delta', u, j) = Find(delta, u, j)
    <3>1. delta[u].parent # Nil => delta[u].parent \in LiveNodes \ {u}
      BY <1>2, <1>3, <1>5, <2>1, NodeParent
    <3>2. delta[u].parent # Nil =>
            Find(delta', delta[u].parent, j) = Find(delta, delta[u].parent, j)
      BY <2>2, <3>1
    <3>3. /\ Find(delta, u, j) = IF delta[u].store[j] # Absent THEN delta[u].store[j]
                                 ELSE IF j \in delta[u].removed \/ delta[u].parent = Nil THEN Absent
                                 ELSE Find(delta, delta[u].parent, j)
          /\ Find(delta', u, j) = IF delta'[u].store[j] # Absent THEN delta'[u].store[j]
                                  ELSE IF j \in delta'[u].removed \/ delta'[u].parent = Nil THEN Absent
                                  ELSE Find(delta', delta'[u].parent, j)
      BY <1>2, <2>1, FindUnfold
    <3> QED
      BY <1>3, <2>1, <3>2, <3>3
  <2>5. ContentsOf(delta', u) = [ContentsOf(delta, u) EXCEPT ![k] = w]
    BY <2>3, <2>4 DEF ContentsOf
  <2>6. stateBar' = [stateBar EXCEPT ![u][k] = w]
    <3>1. stateBar' = [n \in LiveNodes |-> ContentsOf(delta', n)]
      BY <1>2 DEF stateBar
    <3>2. stateBar = [n \in LiveNodes |-> ContentsOf(delta, n)]
      BY DEF stateBar
    <3> QED
      BY <1>5, <2>2, <2>5, <3>1, <3>2
  <2>7. baseBar' = baseBar /\ pendingBar' = pendingBar
    <3>1. \A a \in Fresh : anon[a].state \in DOMAIN delta /\ anon[a].state # d
      BY <2>1, FreshState
    <3> QED
      BY <1>3, <3>1, DraftsSame
  <2>8. u \in DOMAIN stateBar \ sealedBar
    BY <1>3, <1>5, <2>1, BarDomains
  <2> QED
    BY <1>4, <2>1, <2>6, <2>7, <2>8, SnapActions, SnapSteps
<1>6. CASE u \notin LiveNodes
  <2>1. d = anon[u].state /\ u \in DOMAIN anon /\ u \in Handles /\ d \notin Nodes
    BY <1>1, <1>6, AnonType DEF IInv
  <2>2. \A n \in LiveNodes : delta'[n] = delta[n]
    BY <1>2, <1>3, <2>1 DEF LiveNodes
  <2>3. stateBar' = stateBar
    BY <1>2, <2>2, StateBarSame
  <2>4. \A a \in Fresh : a # u => anon[a].state \in DOMAIN delta /\ delta'[anon[a].state] = delta[anon[a].state]
    BY <1>3, <2>1, FreshState DEF IInv, HandlesApart
  <2>5. CASE u \notin Fresh
    <3>1. baseBar' = baseBar /\ pendingBar' = pendingBar
      BY <2>4, <2>5, DraftsSame
    <3> QED
      BY <1>4, <2>3, <3>1, SnapStutter
  <2>6. CASE u \in Fresh
    <3>1. baseBar' = baseBar
      BY DEF baseBar
    <3>2. \A a \in Fresh : a # u => PendingOf(a)' = PendingOf(a)
      BY <2>4 DEF PendingOf, Modified
    <3>3. PendingOf(u)' = [PendingOf(u) EXCEPT ![k] = w]
      <4>1. /\ PendingOf(u) = [j \in Keys |->
                 IF delta[d].store[j] # Absent \/ j \in delta[d].removed THEN delta[d].store[j]
                 ELSE Untouched]
            /\ PendingOf(u)' = [j \in Keys |->
                 IF delta'[d].store[j] # Absent \/ j \in delta'[d].removed THEN delta'[d].store[j]
                 ELSE Untouched]
        BY <2>1 DEF PendingOf, Modified
      <4> QED
        BY <1>3, <4>1
    <3>4. pendingBar' = [pendingBar EXCEPT ![u][k] = w]
      <4>1. pendingBar' = [a \in Fresh |-> PendingOf(a)']
        BY DEF pendingBar
      <4>2. pendingBar = [a \in Fresh |-> PendingOf(a)]
        BY DEF pendingBar
      <4> QED
        BY <2>6, <3>2, <3>3, <4>1, <4>2
    <3>5. u \in DOMAIN baseBar
      BY <2>6, BarDomains
    <3>6. Snap!WriteDraft(u, k, w)
      BY <1>4, <2>3, <3>1, <3>4, <3>5, SnapActions
    <3> QED
      BY <2>1, <3>6, SnapSteps
  <2> QED
    BY <2>5, <2>6
<1> QED
  BY <1>5, <1>6
LEMMA PutMaps ==
  ASSUME ConstantsAssumption, IInv,
         NEW u \in Nodes \cup Handles, NEW k \in Keys, NEW v \in Values, Put(u, k, v)
  PROVE  Snap!Next \/ UNCHANGED Snap!vars
<1>1. /\ IInv' /\ Fresh' = Fresh /\ DOMAIN delta' = DOMAIN delta
      /\ StateOf(u) \in DOMAIN delta
      /\ delta'[StateOf(u)] = PutInto(delta[StateOf(u)], k, v)
      /\ \A e \in DOMAIN delta : e # StateOf(u) => delta'[e] = delta[e]
  BY PutInv
<1>2. delta[StateOf(u)] \in Delta
  BY <1>1 DEF IInv, TreeOK
<1>3. /\ SameButContents(delta[StateOf(u)], delta'[StateOf(u)])
      /\ delta'[StateOf(u)].store = [delta[StateOf(u)].store EXCEPT ![k] = v]
      /\ delta'[StateOf(u)].removed = delta[StateOf(u)].removed
  BY <1>1, <1>2, PutType
<1>4. u \in Users /\ ~delta[StateOf(u)].finalized /\ anon' = anon
  BY DEF Put
<1>5. v # Absent
  BY DEF ConstantsAssumption
<1> QED
  BY <1>1, <1>3, <1>4, <1>5, WriteMaps DEF SameButContents

LEMMA RemoveMaps ==
  ASSUME ConstantsAssumption, IInv,
         NEW u \in Nodes \cup Handles, NEW k \in Keys, Remove(u, k)
  PROVE  Snap!Next \/ UNCHANGED Snap!vars
<1>1. /\ IInv' /\ Fresh' = Fresh /\ DOMAIN delta' = DOMAIN delta
      /\ StateOf(u) \in DOMAIN delta
      /\ delta'[StateOf(u)] = EraseFrom(delta[StateOf(u)], k)
      /\ \A e \in DOMAIN delta : e # StateOf(u) => delta'[e] = delta[e]
  BY RemoveInv
<1>2. delta[StateOf(u)] \in Delta
  BY <1>1 DEF IInv, TreeOK
<1>3. /\ SameButContents(delta[StateOf(u)], delta'[StateOf(u)])
      /\ delta'[StateOf(u)].store = [delta[StateOf(u)].store EXCEPT ![k] = Absent]
      /\ delta'[StateOf(u)].removed = delta[StateOf(u)].removed \cup {k}
  BY <1>1, <1>2, EraseType
<1>4. u \in Users /\ ~delta[StateOf(u)].finalized /\ anon' = anon
  BY DEF Remove
<1>5. /\ \A j \in Keys \ {k} :
           j \in delta'[StateOf(u)].removed <=> j \in delta[StateOf(u)].removed
      /\ k \in delta'[StateOf(u)].removed
  BY <1>3
<1> DEFINE w == Absent
<1>6. /\ w \in Values \cup {Absent}
      /\ delta'[StateOf(u)].store = [delta[StateOf(u)].store EXCEPT ![k] = w]
  BY <1>3
<1> HIDE DEF w
<1> QED
  BY <1>1, <1>3, <1>4, <1>5, <1>6, WriteMaps DEF SameButContents

-----------------------------------------------------------------------------
(* State nodes *)

\* A new node that holds no more than a copy of the node x shows what x showed.
LEMMA CopyShows ==
  ASSUME ConstantsAssumption, IInv, IInv', Fresh' = Fresh, anon' = anon,
         NEW n \in Nodes \ DOMAIN delta, NEW x \in LiveNodes,
         DOMAIN delta' = DOMAIN delta \cup {n},
         \A e \in DOMAIN delta : delta'[e] = delta[e],
         ~delta'[n].finalized,
         \A k \in Keys : Find(delta', n, k) = Find(delta', x, k)
  PROVE  /\ stateBar' = Insert(stateBar, n, stateBar[x])
         /\ n \notin DOMAIN stateBar
         /\ UNCHANGED <<sealedBar, baseBar, pendingBar>>
<1>1. /\ TreeOK(delta) /\ TreeOK(delta')
      /\ LiveNodes' = LiveNodes \cup {n} /\ n \notin LiveNodes
      /\ \A e \in LiveNodes : e \in DOMAIN delta /\ delta'[e] = delta[e]
  BY DEF IInv, LiveNodes
<1>2. \A e \in LiveNodes : delta[e].parent # Nil => delta[e].parent \in LiveNodes
  BY <1>1, NodeParent
<1>3. \A e \in LiveNodes : /\ ContentsOf(delta', e) = ContentsOf(delta, e)
                           /\ \A k \in Keys : Find(delta', e, k) = Find(delta, e, k)
  BY <1>1, <1>2, NodesSame
<1>4. ContentsOf(delta', n) = ContentsOf(delta, x)
  BY <1>3 DEF ContentsOf
<1>5. stateBar' = Insert(stateBar, n, stateBar[x])
  <2>1. stateBar' = [e \in LiveNodes \cup {n} |-> ContentsOf(delta', e)]
    BY <1>1 DEF stateBar
  <2>2. /\ DOMAIN stateBar = LiveNodes
        /\ \A e \in LiveNodes : stateBar[e] = ContentsOf(delta, e)
    BY BarDomains
  <2>3. \A e \in LiveNodes \cup {n} :
          ContentsOf(delta', e) = IF e = n THEN stateBar[x] ELSE stateBar[e]
    BY <1>1, <1>3, <1>4, <2>2
  <2> QED
    BY <2>1, <2>2, <2>3 DEF Insert
<1>6. sealedBar' = sealedBar
  BY <1>1 DEF sealedBar
<1>7. baseBar' = baseBar /\ pendingBar' = pendingBar
  <2>1. \A a \in Fresh : anon[a].state \in DOMAIN delta
    BY FreshState
  <2> QED
    BY <2>1, DraftsSame
<1> QED
  BY <1>1, <1>5, <1>6, <1>7, BarDomains

LEMMA CreateNodeMaps ==
  ASSUME ConstantsAssumption, IInv, NEW p \in Nodes, NEW n \in Nodes, CreateNode(p, n)
  PROVE  Snap!Next
<1>1. /\ IInv' /\ Fresh' = Fresh
      /\ DOMAIN delta' = DOMAIN delta \cup {n}
      /\ delta'[n] = MakeChild(p)
      /\ \A e \in DOMAIN delta : delta'[e] = delta[e]
  BY CreateNodeInv
<1>2. /\ p \in LiveNodes /\ delta[p].finalized /\ n \in Nodes \ DOMAIN delta
      /\ anon' = anon
  BY DEF CreateNode
<1>3. /\ delta'[n].store = EmptyStore /\ delta'[n].removed = {} /\ delta'[n].parent = p
      /\ ~delta'[n].finalized
  BY <1>1 DEF MakeChild
<1>4. p # Nil
  BY DEF ConstantsAssumption
<1>5. ASSUME NEW k \in Keys
      PROVE  Find(delta', n, k) = Find(delta', p, k)
  <2>1. TreeOK(delta') /\ n \in DOMAIN delta'
    BY <1>1 DEF IInv
  <2>2. Find(delta', n, k) = IF delta'[n].store[k] # Absent THEN delta'[n].store[k]
                             ELSE IF k \in delta'[n].removed \/ delta'[n].parent = Nil THEN Absent
                             ELSE Find(delta', delta'[n].parent, k)
    BY <2>1, FindUnfold
  <2> QED
    BY <1>3, <1>4, <2>2 DEF EmptyStore
<1>6. /\ stateBar' = Insert(stateBar, n, stateBar[p])
      /\ n \notin DOMAIN stateBar
      /\ UNCHANGED <<sealedBar, baseBar, pendingBar>>
  BY <1>1, <1>2, <1>3, <1>5, CopyShows
<1>7. p \in sealedBar
  BY <1>2, BarDomains
<1>8. Snap!CreateNode(p, n)
  BY <1>6, <1>7, SnapActions
<1> QED
  BY <1>8, SnapSteps

LEMMA CloneNodeMaps ==
  ASSUME ConstantsAssumption, IInv, NEW m \in Nodes, NEW n \in Nodes, CloneNode(m, n)
  PROVE  Snap!Next
<1>1. /\ IInv' /\ Fresh' = Fresh
      /\ DOMAIN delta' = DOMAIN delta \cup {n}
      /\ delta'[n] = delta[m]
      /\ \A e \in DOMAIN delta : delta'[e] = delta[e]
  BY CloneNodeInv
<1>2. /\ m \in LiveNodes /\ ~delta[m].finalized /\ n \in Nodes \ DOMAIN delta
      /\ m \in DOMAIN delta /\ anon' = anon
  BY DEF CloneNode, LiveNodes
<1>3. delta'[n] = delta'[m] /\ ~delta'[n].finalized
  BY <1>1, <1>2
<1>4. ASSUME NEW k \in Keys
      PROVE  Find(delta', n, k) = Find(delta', m, k)
  <2>1. TreeOK(delta') /\ n \in DOMAIN delta' /\ m \in DOMAIN delta'
    BY <1>1, <1>2 DEF IInv
  <2>2. \A e \in {m, n} :
          Find(delta', e, k) = IF delta'[e].store[k] # Absent THEN delta'[e].store[k]
                               ELSE IF k \in delta'[e].removed \/ delta'[e].parent = Nil THEN Absent
                               ELSE Find(delta', delta'[e].parent, k)
    BY <2>1, FindUnfold
  <2> QED
    BY <1>3, <2>2
<1>5. /\ stateBar' = Insert(stateBar, n, stateBar[m])
      /\ n \notin DOMAIN stateBar
      /\ UNCHANGED <<sealedBar, baseBar, pendingBar>>
  BY <1>1, <1>2, <1>3, <1>4, CopyShows
<1>6. m \in DOMAIN stateBar \ sealedBar
  BY <1>2, BarDomains
<1>7. Snap!CloneNode(m, n)
  BY <1>5, <1>6, SnapActions
<1> QED
  BY <1>7, SnapSteps

LEMMA FinalizeMaps ==
  ASSUME ConstantsAssumption, IInv, NEW n \in Nodes, Finalize(n)
  PROVE  Snap!Next
<1>1. /\ IInv' /\ Fresh' = Fresh /\ DOMAIN delta' = DOMAIN delta
      /\ delta'[n] = [delta[n] EXCEPT !.finalized = TRUE]
      /\ \A e \in DOMAIN delta : e # n => delta'[e] = delta[e]
  BY FinalizeInv
<1>2. n \in LiveNodes /\ n \in DOMAIN delta /\ anon' = anon /\ LiveNodes' = LiveNodes
  BY <1>1 DEF Finalize, LiveNodes
<1>3. TreeOK(delta) /\ TreeOK(delta') /\ delta[n] \in Delta
  BY <1>1, <1>2 DEF IInv, TreeOK
<1>4. /\ delta'[n].store = delta[n].store /\ delta'[n].removed = delta[n].removed
      /\ delta'[n].parent = delta[n].parent /\ delta'[n].finalized
  BY <1>1, <1>3 DEF Delta
<1>5. \A e \in LiveNodes : e \in DOMAIN delta
  BY DEF LiveNodes
<1>6. stateBar' = stateBar
  BY <1>1, <1>2, <1>3, <1>4, <1>5, StateBarSame
<1>7. sealedBar' = sealedBar \cup {n}
  BY <1>1, <1>2, <1>4, <1>5 DEF sealedBar
<1>8. baseBar' = baseBar /\ pendingBar' = pendingBar
  <2>1. \A a \in Fresh : anon[a].state \in DOMAIN delta /\ anon[a].state # n
    BY FreshState
  <2> QED
    BY <1>1, <1>2, <2>1, DraftsSame
<1>9. Snap!Seal(n)
  BY <1>2, <1>6, <1>7, <1>8, BarDomains, SnapActions
<1> QED
  BY <1>9, SnapSteps

LEMMA AskMaps ==
  ASSUME ConstantsAssumption, IInv, NEW n \in Nodes, AskMerkleRoot(n)
  PROVE  UNCHANGED Snap!vars
<1>1. /\ IInv' /\ Fresh' = Fresh /\ DOMAIN delta' = DOMAIN delta
      /\ delta'[n] = [delta[n] EXCEPT !.merkle = MerkleRoot(delta[n])]
      /\ \A e \in DOMAIN delta : e # n => delta'[e] = delta[e]
  BY AskInv
<1>2. n \in LiveNodes /\ n \in DOMAIN delta /\ anon' = anon /\ LiveNodes' = LiveNodes
  BY <1>1 DEF AskMerkleRoot, LiveNodes
<1>3. delta[n] \in Delta
  BY <1>1, <1>2 DEF IInv, TreeOK
<1>4. /\ delta'[n].store = delta[n].store /\ delta'[n].removed = delta[n].removed
      /\ delta'[n].parent = delta[n].parent /\ delta'[n].finalized = delta[n].finalized
  BY <1>1, <1>3 DEF Delta
<1>5. \A e \in LiveNodes : e \in DOMAIN delta
  BY DEF LiveNodes
<1>6. \A a \in Fresh : anon[a].state \in DOMAIN delta /\ anon[a].state # n
  BY FreshState
<1>7. UNCHANGED <<stateBar, sealedBar, baseBar, pendingBar>>
  BY <1>1, <1>2, <1>4, <1>5, <1>6, NothingShows
<1> QED
  BY <1>7, SnapStutter
-----------------------------------------------------------------------------
(* The drafts that end *)

\* A fresh anonymous node lies over a state node or a fresh anonymous node.
LEMMA FreshBase ==
  ASSUME ConstantsAssumption, IInv, NEW e \in Fresh
  PROVE  /\ delta[anon[e].state].parent \in DOMAIN delta
         /\ delta[anon[e].state].parent # Nil
         /\ delta[anon[e].state].revision = delta[delta[anon[e].state].parent].revision + 1
         /\ Lineage(delta, anon[e].state)
              = {anon[e].state} \cup Lineage(delta, delta[anon[e].state].parent)
         /\ \/ /\ anon[e].parent \in LiveNodes
               /\ delta[anon[e].state].parent = anon[e].parent
            \/ /\ anon[e].parent \in Fresh
               /\ anon[e].parent \notin LiveNodes
               /\ delta[anon[e].state].parent = anon[anon[e].parent].state
<1> DEFINE s == anon[e].state
           p == delta[s].parent
           c == anon[e].parent
<1>1. e \in DOMAIN anon
  BY DEF Fresh
<1>2. /\ TreeOK(delta) /\ Tree(delta)
      /\ s \in DOMAIN delta
      /\ p = StateOf(c)
      /\ p \in DOMAIN delta
      /\ Lineage(delta, s) = {s} \cup Lineage(delta, p)
  BY <1>1, TreeOKIsTree, FreshState, FreshAbove DEF IInv, FreshOverParent
<1>3. p # Nil
  BY <1>2, TreeOKIsTree DEF ConstantsAssumption
<1>4. delta[s].revision = delta[p].revision + 1
  BY <1>2, <1>3 DEF Tree
<1>5. /\ c \in LiveNodes => p = c
      /\ c \notin LiveNodes => c \in DOMAIN anon /\ p = anon[c].state
  BY <1>1, <1>2, AnonType DEF IInv
<1>6. ASSUME c \notin LiveNodes
      PROVE  c \in Fresh
  <2>1. p \in Lineage(delta, s)
    BY <1>2, LineageClosed
  <2> QED
    BY <1>5, <1>6, <2>1, FreshBelow
<1> QED
  BY <1>2, <1>3, <1>4, <1>5, <1>6

\* What OverBar(S) is: what lies over S or over what lies over S.
LEMMA OverBarIs ==
  ASSUME ConstantsAssumption, IInv, NEW S, NEW R \in SUBSET Fresh,
         \A e \in Fresh : anon[e].parent \in S \cup R => e \in R,
         \A e \in R : anon[e].parent \in S \cup R
  PROVE  OverBar(S) = R
<1>1. /\ DOMAIN baseBar = Fresh
      /\ \A e \in Fresh : baseBar[e] = anon[e].parent
  BY BarDomains
<1>2. OverBar(S) \subseteq R
  BY <1>1 DEF OverBar
<1>3. ASSUME NEW D \in SUBSET Fresh,
             \A e \in Fresh : anon[e].parent \in S \cup D => e \in D
      PROVE  R \subseteq D
  <2> DEFINE T == R \ D
             rank == [e \in Fresh |-> delta[anon[e].state].revision]
  <2> SUFFICES ASSUME T # {} PROVE FALSE
    OBVIOUS
  <2>1. rank \in [Fresh -> Nat]
    <3>1. \A e \in Fresh : delta[anon[e].state] \in Delta
      BY FreshState
    <3> QED
      BY <3>1 DEF Delta
  <2>2. T \in SUBSET Fresh
    OBVIOUS
  <2>3. PICK e \in T : \A x \in T : rank[e] <= rank[x]
    <3> HIDE DEF T, rank
    <3> QED
      BY <2>1, <2>2, LeastRank
  <2>4. e \in Fresh /\ anon[e].parent \in T
    BY <1>3, <2>3
  <2>5. /\ anon[e].parent \in Fresh
        /\ anon[e].parent \notin LiveNodes
    <3>1. anon[e].parent \in Handles
      BY <2>2, <2>4, FreshState
    <3> QED
      BY <2>2, <2>4, <3>1 DEF LiveNodes, ConstantsAssumption
  <2>6. delta[anon[e].state].revision = delta[anon[anon[e].parent].state].revision + 1
    BY <2>4, <2>5, FreshBase
  <2>7. rank[e] = rank[anon[e].parent] + 1
    BY <2>4, <2>5, <2>6
  <2>8. rank[anon[e].parent] \in Nat /\ rank[e] <= rank[anon[e].parent]
    BY <2>1, <2>3, <2>4, <2>5
  <2> QED
    BY <2>7, <2>8
<1> QED
  BY <1>1, <1>2, <1>3 DEF OverBar

\* The drafts over the nodes below n are those whose deltas are below n.
LEMMA OverNodes ==
  ASSUME ConstantsAssumption, IInv, NEW n \in LiveNodes
  PROVE  OverBar(Below(n) \cap Nodes) = {a \in Fresh : anon[a].state \in Below(n)}
<1> DEFINE S == Below(n) \cap Nodes
           R == {a \in Fresh : anon[a].state \in Below(n)}
<1>1. n \in Nodes /\ n \in DOMAIN delta /\ TreeOK(delta)
  BY DEF LiveNodes, IInv
<1>2. /\ Below(n) \subseteq DOMAIN delta
      /\ \A d \in DOMAIN delta : delta[d].parent # Nil =>
           (d \in Below(n) <=> d = n \/ delta[d].parent \in Below(n))
  BY <1>1, BelowClosed
<1>3. \A e \in Fresh : e \in Handles /\ anon[e].state \in DOMAIN delta /\ anon[e].state # n
  BY <1>1, FreshState
<1>4. \A e \in Fresh : e \in R <=> delta[anon[e].state].parent \in Below(n)
  BY <1>2, <1>3, FreshBase
<1>5. \A e \in Fresh : e \notin Nodes
  BY <1>3 DEF ConstantsAssumption
<1>6. ASSUME NEW e \in Fresh
      PROVE  e \in R <=> anon[e].parent \in S \cup R
  <2>1. CASE anon[e].parent \in LiveNodes /\ delta[anon[e].state].parent = anon[e].parent
    BY <1>4, <1>5, <2>1 DEF LiveNodes
  <2>2. CASE /\ anon[e].parent \in Fresh
             /\ delta[anon[e].state].parent = anon[anon[e].parent].state
    BY <1>4, <1>5, <2>2
  <2> QED
    BY <2>1, <2>2, FreshBase
<1>7. R \in SUBSET Fresh
  OBVIOUS
<1> HIDE DEF S, R
<1>8. OverBar(S) = R
  BY <1>6, <1>7, OverBarIs
<1> QED
  BY <1>8 DEF S, R

\* The draft a and those over it are those that read through the delta of a.
LEMMA OverHandle ==
  ASSUME ConstantsAssumption, IInv, NEW a \in Fresh
  PROVE  {a} \cup OverBar({a}) = {b \in Fresh : anon[a].state \in Lineage(delta, anon[b].state)}
<1> DEFINE s == anon[a].state
           R == {b \in Fresh : b # a /\ s \in Lineage(delta, anon[b].state)}
<1>1. TreeOK(delta) /\ Tree(delta)
  BY TreeOKIsTree DEF IInv
<1>2. s \in DOMAIN delta /\ s \notin Nodes /\ delta[s].revision \in Nat
  BY <1>1, FreshState DEF Tree
<1>3. \A b \in Fresh : b # a => anon[b].state # s
  BY DEF IInv, HandlesApart, Fresh
<1>4. ASSUME NEW b \in Fresh, b # a
      PROVE  b \in R <=> anon[b].parent \in {a} \cup R
  <2>1. b \in R <=> s \in Lineage(delta, delta[anon[b].state].parent)
    BY <1>3, <1>4, FreshBase
  <2>2. CASE anon[b].parent \in LiveNodes /\ delta[anon[b].state].parent = anon[b].parent
    <3>1. s \notin Lineage(delta, anon[b].parent)
      BY <1>1, <1>2, <2>2, NodeLineage DEF LiveNodes
    <3>2. anon[b].parent \notin Fresh
      BY <2>2, FreshState DEF LiveNodes, ConstantsAssumption
    <3> QED
      BY <2>1, <2>2, <3>1, <3>2
  <2>3. CASE /\ anon[b].parent \in Fresh
             /\ delta[anon[b].state].parent = anon[anon[b].parent].state
    <3>1. s \in Lineage(delta, s)
      BY <1>1, <1>2, LineageClosed
    <3> QED
      BY <2>1, <2>3, <3>1
  <2> QED
    BY <2>2, <2>3, FreshBase
<1>5. anon[a].parent \notin {a} \cup R
  <2> SUFFICES ASSUME anon[a].parent \in {a} \cup R PROVE FALSE
    OBVIOUS
  <2> DEFINE c == anon[a].parent
             p == anon[c].state
  <2>1. c \in Fresh /\ c \notin LiveNodes
    BY FreshState DEF LiveNodes, ConstantsAssumption
  <2>2. delta[s].revision = delta[p].revision + 1 /\ p \in DOMAIN delta
    BY <2>1, FreshBase
  <2>3. delta[p].revision \in Nat
    BY <1>1, <2>2 DEF Tree
  <2>4. c # a
    BY <2>2, <2>3
  <2>5. s \in Lineage(delta, p) /\ p # s
    BY <1>3, <2>1, <2>4
  <2>6. delta[s].revision < delta[p].revision
    BY <2>5, LineageLower
  <2> QED
    BY <1>2, <2>2, <2>3, <2>6
<1>6. R \in SUBSET Fresh /\ a \notin R
  OBVIOUS
<1>7. {a} \cup R = {b \in Fresh : s \in Lineage(delta, anon[b].state)}
  <2>1. s \in Lineage(delta, anon[a].state)
    BY <1>1, <1>2, LineageClosed
  <2> QED
    BY <2>1
<1>8. OverBar({a}) = R
  <2> HIDE DEF R, s
  <2>1. \A e \in Fresh : anon[e].parent \in {a} \cup R => e \in R
    BY <1>4, <1>5
  <2>2. \A e \in R : anon[e].parent \in {a} \cup R
    BY <1>4, <1>6
  <2> QED
    BY <1>6, <2>1, <2>2, OverBarIs
<1> QED
  BY <1>7, <1>8
\* A step with which the drafts R end and that leaves the others.
LEMMA DraftsEnd ==
  ASSUME NEW R \in SUBSET Fresh, Fresh' = Fresh \ R,
         \A a \in Fresh \ R : /\ anon'[a] = anon[a]
                              /\ delta'[anon[a].state].store = delta[anon[a].state].store
                              /\ delta'[anon[a].state].removed = delta[anon[a].state].removed
  PROVE  EndsBar(R, pendingBar)
<1>1. \A a \in Fresh \ R : PendingOf(a)' = PendingOf(a)
  BY DEF PendingOf, Modified
<1>2. /\ baseBar' = [a \in Fresh \ R |-> anon[a].parent]
      /\ pendingBar' = [a \in Fresh \ R |-> PendingOf(a)]
  BY <1>1 DEF baseBar, pendingBar
<1>3. /\ baseBar = [a \in Fresh |-> anon[a].parent]
      /\ pendingBar = [a \in Fresh |-> PendingOf(a)]
  BY DEF baseBar, pendingBar
<1>4. DOMAIN baseBar \cap (DOMAIN baseBar \ R) = Fresh \ R
      /\ DOMAIN pendingBar \cap (DOMAIN baseBar \ R) = Fresh \ R
  BY BarDomains
<1> QED
  BY <1>2, <1>3, <1>4 DEF EndsBar, Keep

-----------------------------------------------------------------------------
(* Discards and commits of state nodes *)

\* The nodes that stay show what they showed.
LEMMA NodesDrop ==
  ASSUME NEW S \in SUBSET Nodes, LiveNodes' = LiveNodes \ S,
         \A n \in LiveNodes \ S : /\ ContentsOf(delta', n) = ContentsOf(delta, n)
                                  /\ delta'[n].finalized = delta[n].finalized
  PROVE  /\ stateBar' = Keep(stateBar, DOMAIN stateBar \ S)
         /\ sealedBar' = sealedBar \ S
<1>1. stateBar' = [n \in LiveNodes \ S |-> ContentsOf(delta, n)]
  BY DEF stateBar
<1>2. /\ stateBar = [n \in LiveNodes |-> ContentsOf(delta, n)]
      /\ DOMAIN stateBar \cap (DOMAIN stateBar \ S) = LiveNodes \ S
  BY BarDomains DEF stateBar
<1>3. sealedBar' = sealedBar \ S
  BY DEF sealedBar
<1> QED
  BY <1>1, <1>2, <1>3 DEF Keep

LEMMA DropMaps ==
  ASSUME NEW S \in SUBSET Nodes,
         stateBar' = Keep(stateBar, DOMAIN stateBar \ S),
         sealedBar' = sealedBar \ S,
         EndsBar(OverBar(S), pendingBar)
  PROVE  Snap!Next
<1>1. Snap!Drop(S)
  BY SnapActions
<1> QED
  BY <1>1, SnapSteps

LEMMA DiscardMaps ==
  ASSUME ConstantsAssumption, IInv, NEW n \in Nodes, Discard(n)
  PROVE  Snap!Next
<1> DEFINE S == Below(n) \cap Nodes
           R == {a \in Fresh : anon[a].state \in Below(n)}
<1>1. /\ IInv'
      /\ Fresh' = {a \in Fresh : anon[a].state \notin Below(n)}
      /\ DOMAIN delta' = DOMAIN delta \ Below(n)
      /\ \A d \in DOMAIN delta' : delta'[d] = delta[d]
      /\ DOMAIN anon' = {a \in DOMAIN anon : anon[a].state \notin Below(n)}
      /\ \A a \in DOMAIN anon' : anon'[a] = anon[a]
  BY DiscardInv
<1>2. n \in LiveNodes /\ n \in DOMAIN delta
  BY DEF Discard, LiveNodes
<1>3. TreeOK(delta) /\ TreeOK(delta')
  BY <1>1 DEF IInv
<1>4. ParentClosed(delta, DOMAIN delta \ Below(n))
  BY <1>2, <1>3, BelowClosed
<1>5. LiveNodes' = LiveNodes \ S
  BY <1>1 DEF LiveNodes
<1>6. \A d \in LiveNodes \ S : d \in DOMAIN delta \ Below(n) /\ delta'[d] = delta[d]
  BY <1>1 DEF LiveNodes
<1>7. \A d \in LiveNodes \ S : ContentsOf(delta', d) = ContentsOf(delta, d)
  <2> DEFINE T == LiveNodes \ S
  <2>1. T \subseteq LiveNodes /\ T \subseteq LiveNodes'
    BY <1>5
  <2>2. \A d \in T : delta[d].parent # Nil => delta[d].parent \in T
    BY <1>3, <1>4, <1>6, NodeParent DEF ParentClosed
  <2>3. \A d \in T : delta'[d] = delta[d]
    BY <1>6
  <2> HIDE DEF T
  <2>4. \A d \in T : ContentsOf(delta', d) = ContentsOf(delta, d)
    BY <1>3, <2>1, <2>2, <2>3, NodesSame
  <2> QED
    BY <2>4 DEF T
<1>8. /\ stateBar' = Keep(stateBar, DOMAIN stateBar \ S)
      /\ sealedBar' = sealedBar \ S
  <2> HIDE DEF S
  <2>1. S \in SUBSET Nodes
    BY DEF S
  <2> QED
    BY <1>5, <1>6, <1>7, <2>1, NodesDrop
<1>9. EndsBar(R, pendingBar)
  <2>1. R \in SUBSET Fresh /\ Fresh' = Fresh \ R
    BY <1>1
  <2>2. \A a \in Fresh \ R : anon'[a] = anon[a] /\ delta'[anon[a].state] = delta[anon[a].state]
    BY <1>1, FreshState
  <2> HIDE DEF R
  <2> QED
    BY <2>1, <2>2, DraftsEnd
<1>10. OverBar(S) = R
  BY <1>2, OverNodes
<1> HIDE DEF S, R
<1>11. S \in SUBSET Nodes
  BY DEF S
<1> QED
  BY <1>8, <1>9, <1>10, <1>11, DropMaps

\* The node the root was moved to, and those below it, read what they read.
LEMMA CommitReads ==
  ASSUME ConstantsAssumption, IInv, NEW n \in Nodes, Commit(n), NEW k \in Keys
  PROVE  \A d \in Below(n) : Find(delta', d, k) = Find(delta, d, k)
<1>1. /\ IInv'
      /\ n \in DOMAIN delta
      /\ DOMAIN delta' = Below(n)
      /\ \A d \in Below(n) : d # n => delta'[d] = delta[d]
      /\ delta'[n].parent = Nil
      /\ delta'[n].store = ContentsOf(delta, n)
  BY CommitInv
<1>2. TreeOK(delta) /\ TreeOK(delta')
  BY <1>1 DEF IInv
<1>3. /\ n \in Below(n) /\ Below(n) \subseteq DOMAIN delta
      /\ \A d \in DOMAIN delta : delta[d].parent # Nil =>
           (d \in Below(n) <=> d = n \/ delta[d].parent \in Below(n))
  BY <1>1, <1>2, BelowClosed
<1>4. Find(delta', n, k) = Find(delta, n, k)
  <2>1. Find(delta', n, k) = IF delta'[n].store[k] # Absent THEN delta'[n].store[k]
                             ELSE IF k \in delta'[n].removed \/ delta'[n].parent = Nil THEN Absent
                             ELSE Find(delta', delta'[n].parent, k)
    BY <1>1, <1>2, <1>3, FindUnfold
  <2>2. delta'[n].store[k] = Find(delta, n, k)
    BY <1>1 DEF ContentsOf
  <2> QED
    BY <1>1, <2>1, <2>2
<1>5. \A d \in Below(n) : \/ Find(delta', d, k) = Find(delta, d, k)
                          \/ /\ delta'[d].store[k] = delta[d].store[k]
                             /\ k \in delta'[d].removed <=> k \in delta[d].removed
                             /\ delta'[d].parent = delta[d].parent
                             /\ delta[d].parent # Nil => delta[d].parent \in Below(n)
  <2> SUFFICES ASSUME NEW d \in Below(n), d # n
               PROVE  /\ delta'[d] = delta[d]
                      /\ delta[d].parent # Nil => delta[d].parent \in Below(n)
    BY <1>4
  <2> QED
    BY <1>1, <1>3
<1>6. \A d \in Below(n) : d \in DOMAIN delta /\ d \in DOMAIN delta'
  BY <1>1, <1>3
<1> DEFINE T == Below(n)
<1>7. /\ \A d \in T : d \in DOMAIN delta /\ d \in DOMAIN delta'
      /\ \A d \in T : \/ Find(delta', d, k) = Find(delta, d, k)
                      \/ /\ delta'[d].store[k] = delta[d].store[k]
                         /\ k \in delta'[d].removed <=> k \in delta[d].removed
                         /\ delta'[d].parent = delta[d].parent
                         /\ delta[d].parent # Nil => delta[d].parent \in T
  BY <1>5, <1>6
<1> HIDE DEF T
<1>8. \A d \in T : Find(delta', d, k) = Find(delta, d, k)
  BY <1>2, <1>7, FindSame
<1> QED
  BY <1>8 DEF T

LEMMA CommitMaps ==
  ASSUME ConstantsAssumption, IInv, NEW n \in Nodes, Commit(n)
  PROVE  Snap!Next
<1> DEFINE S == LiveNodes \ Below(n)
<1>1. /\ DOMAIN anon = {} /\ anon' = anon
      /\ n \in DOMAIN delta
      /\ DOMAIN delta' = Below(n)
      /\ \A d \in Below(n) : d # n => delta'[d] = delta[d]
      /\ delta'[n].finalized
  BY CommitInv
<1>2. delta[n].finalized /\ Below(n) \subseteq DOMAIN delta
  BY DEF Commit, Below
<1>3. S \in SUBSET Nodes /\ LiveNodes' = LiveNodes \ S
  BY <1>1, <1>2 DEF LiveNodes
<1>4. \A d \in LiveNodes \ S : d \in Below(n)
  OBVIOUS
<1>5. \A d \in LiveNodes \ S : delta'[d].finalized = delta[d].finalized
  <2>1. delta[n].finalized = delta'[n].finalized
    <3>1. delta[n].finalized \in BOOLEAN /\ delta'[n].finalized \in BOOLEAN
      BY <1>1, CommitInv DEF IInv, TreeOK, Delta
    <3> QED
      BY <1>1, <1>2, <3>1
  <2> QED
    BY <1>1, <1>4, <2>1
<1>6. \A d \in LiveNodes \ S : ContentsOf(delta', d) = ContentsOf(delta, d)
  BY <1>4, CommitReads DEF ContentsOf
<1> HIDE DEF S
<1>7. /\ stateBar' = Keep(stateBar, DOMAIN stateBar \ S)
      /\ sealedBar' = sealedBar \ S
  BY <1>3, <1>5, <1>6, NodesDrop
<1>8. Fresh = {} /\ Fresh' = {}
  BY <1>1 DEF Fresh
<1>9. OverBar(S) = {}
  BY <1>8, BarDomains DEF OverBar
<1>10. EndsBar({}, pendingBar)
  <2> DEFINE R == {}
  <2>1. R \in SUBSET Fresh /\ Fresh' = Fresh \ R /\ Fresh \ R = {}
    BY <1>8
  <2> HIDE DEF R
  <2>2. EndsBar(R, pendingBar)
    BY <2>1, DraftsEnd
  <2> QED
    BY <2>2 DEF R
<1> QED
  BY <1>3, <1>7, <1>9, <1>10, DropMaps
-----------------------------------------------------------------------------
(* Anonymous nodes *)

\* A step that leaves the deltas of the state nodes.
LEMMA NodesStay ==
  ASSUME IInv, IInv', LiveNodes' = LiveNodes, \A n \in LiveNodes : delta'[n] = delta[n]
  PROVE  stateBar' = stateBar /\ sealedBar' = sealedBar
<1>1. TreeOK(delta) /\ TreeOK(delta')
  BY DEF IInv
<1>2. stateBar' = stateBar
  BY <1>1, StateBarSame
<1>3. sealedBar' = sealedBar
  BY DEF sealedBar
<1> QED
  BY <1>2, <1>3

LEMMA CreateAnonymousMaps ==
  ASSUME ConstantsAssumption, IInv, NEW a \in Handles, NEW u \in Nodes \cup Handles,
         NEW d \in Drafts, CreateAnonymous(a, u, d)
  PROVE  Snap!Next \/ UNCHANGED Snap!vars
<1>1. /\ IInv'
      /\ Fresh' = Fresh \cup (IF u \in LiveNodes \cup Fresh THEN {a} ELSE {})
      /\ a \notin DOMAIN anon
      /\ d \notin DOMAIN delta
      /\ DOMAIN delta' = DOMAIN delta \cup {d}
      /\ delta'[d] = MakeChild(StateOf(u))
      /\ \A e \in DOMAIN delta : delta'[e] = delta[e]
      /\ DOMAIN anon' = DOMAIN anon \cup {a}
      /\ anon'[a] = [parent |-> u, state |-> d]
      /\ \A b \in DOMAIN anon : anon'[b] = anon[b]
  BY CreateAnonymousInv, Zenon
<1>2. d \notin Nodes
  BY DEF ConstantsAssumption
<1>3. LiveNodes' = LiveNodes /\ \A n \in LiveNodes : delta'[n] = delta[n]
  BY <1>1, <1>2 DEF LiveNodes
<1>4. stateBar' = stateBar /\ sealedBar' = sealedBar
  BY <1>1, <1>3, NodesStay
<1>5. \A b \in Fresh : /\ b \in DOMAIN anon /\ anon'[b] = anon[b]
                       /\ delta'[anon[b].state] = delta[anon[b].state]
  BY <1>1, FreshState
<1>6. CASE u \notin LiveNodes \cup Fresh
  <2>1. Fresh' = Fresh
    BY <1>1, <1>6
  <2>2. baseBar' = baseBar /\ pendingBar' = pendingBar
    BY <1>5, <2>1, DraftsSame
  <2> QED
    BY <1>4, <2>2, SnapStutter
<1>7. CASE u \in LiveNodes \cup Fresh
  <2>1. Fresh' = Fresh \cup {a} /\ a \notin Fresh
    BY <1>1, <1>5, <1>7
  <2>2. \A b \in Fresh : PendingOf(b)' = PendingOf(b)
    BY <1>5 DEF PendingOf, Modified
  <2>3. PendingOf(a)' = [k \in Keys |-> Untouched]
    <3>1. delta'[d].store = EmptyStore /\ delta'[d].removed = {} /\ anon'[a].state = d
      BY <1>1 DEF MakeChild
    <3> QED
      BY <3>1 DEF PendingOf, Modified, EmptyStore
  <2>4. /\ baseBar' = [b \in Fresh \cup {a} |-> anon'[b].parent]
        /\ pendingBar' = [b \in Fresh \cup {a} |-> PendingOf(b)']
    BY <2>1 DEF baseBar, pendingBar
  <2>5. baseBar' = Insert(baseBar, a, u)
    <3>1. \A b \in Fresh \cup {a} : anon'[b].parent = IF b = a THEN u ELSE baseBar[b]
      BY <1>1, <1>5, <2>1, BarDomains
    <3> QED
      BY <2>4, <3>1, BarDomains DEF Insert
  <2>6. pendingBar' = Insert(pendingBar, a, [k \in Keys |-> Untouched])
    <3>1. \A b \in Fresh \cup {a} :
            PendingOf(b)' = IF b = a THEN [k \in Keys |-> Untouched] ELSE pendingBar[b]
      BY <2>1, <2>2, <2>3, BarDomains
    <3> QED
      BY <2>4, <3>1, BarDomains DEF Insert
  <2>7. a \notin DOMAIN baseBar /\ u \in DOMAIN stateBar \cup DOMAIN baseBar
    BY <1>7, <2>1, BarDomains
  <2>8. Snap!Begin(a, u)
    BY <1>4, <2>5, <2>6, <2>7, SnapActions
  <2> QED
    BY <2>8, SnapSteps
<1> QED
  BY <1>6, <1>7

LEMMA EndMaps ==
  ASSUME ConstantsAssumption, IInv, NEW a \in Fresh,
         stateBar' = stateBar, sealedBar' = sealedBar,
         EndsBar({a} \cup OverBar({a}), pendingBar)
  PROVE  Snap!Next
<1>1. a \in Handles /\ a \in DOMAIN baseBar
  BY FreshState, BarDomains
<1>2. Snap!End(a)
  BY <1>1, SnapActions
<1> QED
  BY <1>1, <1>2, SnapSteps

LEMMA ResetMaps ==
  ASSUME ConstantsAssumption, IInv, NEW a \in Handles, NEW d \in Drafts,
         ResetAnonymous(a, d)
  PROVE  Snap!Next \/ UNCHANGED Snap!vars
<1> DEFINE R == {b \in Fresh : anon[a].state \in Lineage(delta, anon[b].state)}
<1>1. /\ IInv'
      /\ Fresh' = Fresh \ R
      /\ a \in DOMAIN anon
      /\ d \notin DOMAIN delta
      /\ DOMAIN delta' = DOMAIN delta \cup {d}
      /\ \A e \in DOMAIN delta : delta'[e] = delta[e]
      /\ \A b \in DOMAIN anon : b # a => anon'[b] = anon[b]
  BY ResetAnonymousInv
<1>2. d \notin Nodes
  BY DEF ConstantsAssumption
<1>3. LiveNodes' = LiveNodes /\ \A n \in LiveNodes : delta'[n] = delta[n]
  BY <1>1, <1>2 DEF LiveNodes
<1>4. stateBar' = stateBar /\ sealedBar' = sealedBar
  BY <1>1, <1>3, NodesStay
<1>5. \A b \in Fresh : /\ b \in DOMAIN anon
                       /\ delta'[anon[b].state] = delta[anon[b].state]
                       /\ b # a => anon'[b] = anon[b]
  BY <1>1, FreshState
<1>6. CASE a \in Fresh
  <2>1. R = {a} \cup OverBar({a})
    BY <1>6, OverHandle
  <2>2. R \in SUBSET Fresh /\ \A b \in Fresh \ R : b # a
    BY <2>1
  <2> HIDE DEF R
  <2>3. EndsBar(R, pendingBar)
    BY <1>1, <1>5, <2>2, DraftsEnd
  <2> QED
    BY <1>4, <1>6, <2>1, <2>3, EndMaps
<1>7. CASE a \notin Fresh
  <2>1. R = {}
    BY <1>1, <1>7, FreshBelow
  <2>2. Fresh' = Fresh /\ \A b \in Fresh : b # a
    BY <1>1, <1>7, <2>1
  <2>3. baseBar' = baseBar /\ pendingBar' = pendingBar
    BY <1>5, <2>2, DraftsSame
  <2> QED
    BY <1>4, <2>3, SnapStutter
<1> QED
  BY <1>6, <1>7

LEMMA DropAnonymousMaps ==
  ASSUME ConstantsAssumption, IInv, NEW a \in Handles, DropAnonymous(a)
  PROVE  Snap!Next \/ UNCHANGED Snap!vars
<1>1. /\ IInv'
      /\ a \in DOMAIN anon
      /\ \A b \in DOMAIN anon : anon[b].parent # a
      /\ Fresh' = Fresh \ {a}
      /\ LiveNodes \subseteq DOMAIN delta' /\ DOMAIN delta' \subseteq DOMAIN delta
      /\ \A e \in DOMAIN delta' : delta'[e] = delta[e]
      /\ DOMAIN anon' = DOMAIN anon \ {a}
      /\ \A b \in DOMAIN anon' : anon'[b] = anon[b]
  BY DropAnonymousInv
<1>2. LiveNodes' = LiveNodes /\ \A n \in LiveNodes : delta'[n] = delta[n]
  BY <1>1 DEF LiveNodes
<1>3. stateBar' = stateBar /\ sealedBar' = sealedBar
  BY <1>1, <1>2, NodesStay
<1>4. \A b \in Fresh : b # a => /\ anon'[b] = anon[b]
                                /\ delta'[anon[b].state] = delta[anon[b].state]
  <2> SUFFICES ASSUME NEW b \in Fresh, b # a
               PROVE  anon'[b] = anon[b] /\ delta'[anon[b].state] = delta[anon[b].state]
    OBVIOUS
  <2>1. b \in DOMAIN anon'
    BY <1>1, FreshState
  <2>2. anon'[b].state \in DOMAIN delta'
    BY <1>1, <2>1 DEF IInv, AnonOK
  <2> QED
    BY <1>1, <2>1, <2>2
<1>5. CASE a \in Fresh
  <2>1. {a} \cup OverBar({a}) = {a}
    <3>1. \A b \in Fresh : b # a => anon[a].state \notin Lineage(delta, anon[b].state)
      <4>1. \A c \in Fresh : anon[c].parent # a
        BY <1>1, FreshState
      <4> QED
        BY <1>1, <4>1, FreshChild
    <3>2. {a} \cup OverBar({a}) = {b \in Fresh : anon[a].state \in Lineage(delta, anon[b].state)}
      BY <1>5, OverHandle
    <3> QED
      BY <3>1, <3>2
  <2> DEFINE R == {a}
  <2>2. R \in SUBSET Fresh /\ Fresh' = Fresh \ R /\ \A b \in Fresh \ R : b # a
    BY <1>1, <1>5
  <2>3. R = {a} \cup OverBar({a})
    BY <2>1
  <2> HIDE DEF R
  <2>4. EndsBar(R, pendingBar)
    BY <1>4, <2>2, DraftsEnd
  <2> QED
    BY <1>3, <1>5, <2>3, <2>4, EndMaps
<1>6. CASE a \notin Fresh
  <2>1. Fresh' = Fresh /\ \A b \in Fresh : b # a
    BY <1>1, <1>6
  <2>2. baseBar' = baseBar /\ pendingBar' = pendingBar
    BY <1>4, <2>1, DraftsSame
  <2> QED
    BY <1>3, <2>2, SnapStutter
<1> QED
  BY <1>5, <1>6
\* Squashing leaves the marks of the delta it writes on.
LEMMA SquashMarks ==
  ASSUME NEW p \in Delta, NEW r \in Delta, NEW q, q = SquashInto(p, r)
  PROVE  q.parent = p.parent /\ q.finalized = p.finalized
<1>1. SameButContents(p, SquashInto(p, r))
  BY SquashType, Zenon
<1>2. SameButContents(p, q)
  BY <1>1
<1> QED
  BY <1>2 DEF SameButContents

\* What squashing r into p leaves for one key.
LEMMA SquashKey ==
  ASSUME NEW p \in Delta, NEW r \in Delta, NEW k \in Keys
  PROVE  IF r.store[k] # Absent THEN SquashInto(p, r).store[k] = r.store[k]
         ELSE IF k \in r.removed
              THEN /\ SquashInto(p, r).store[k] = Absent
                   /\ p.parent # Nil => k \in SquashInto(p, r).removed
              ELSE /\ SquashInto(p, r).store[k] = p.store[k]
                   /\ k \in SquashInto(p, r).removed <=> k \in p.removed
<1>1. /\ SquashInto(p, r).store = WriteBack(p.store, r)
      /\ SquashInto(p, r).removed =
           IF p.parent = Nil THEN p.removed
           ELSE (p.removed \cup r.removed) \ {j \in Keys : r.store[j] # Absent}
  BY SquashType
<1> QED
  BY <1>1 DEF WriteBack

\* The delta of the draft d, squashed into the node n under it.
LEMMA SquashIntoNode ==
  ASSUME ConstantsAssumption, IInv, IInv', NEW a \in Fresh, NEW n \in LiveNodes,
         LiveNodes' = LiveNodes, ~delta[n].finalized,
         delta'[n] = SquashInto(delta[n], delta[anon[a].state]),
         \A e \in LiveNodes : e # n => delta'[e] = delta[e]
  PROVE  stateBar' = [stateBar EXCEPT ![n] = Overlaid(pendingBar[a], @)]
<1> DEFINE r == delta[anon[a].state]
<1>1. /\ TreeOK(delta) /\ TreeOK(delta')
      /\ \A e \in LiveNodes : e \in DOMAIN delta /\ e \in DOMAIN delta'
  BY DEF IInv, LiveNodes
<1>2. delta[n] \in Delta /\ r \in Delta
  BY <1>1, FreshState DEF TreeOK
<1>3. delta'[n].parent = delta[n].parent
  BY <1>2, SquashMarks
<1>4. \A e \in LiveNodes : delta[e].parent # Nil => delta[e].parent \in LiveNodes \ {n}
  BY <1>1, NodeParent
<1>5. \A e \in LiveNodes \ {n} : /\ ContentsOf(delta', e) = ContentsOf(delta, e)
                                 /\ \A j \in Keys : Find(delta', e, j) = Find(delta, e, j)
  <2>1. \A e \in LiveNodes \ {n} : delta'[e] = delta[e]
    OBVIOUS
  <2>2. \A e \in LiveNodes \ {n} : delta[e].parent # Nil => delta[e].parent \in LiveNodes \ {n}
    BY <1>4
  <2> QED
    BY <1>1, <2>1, <2>2, NodesSame
<1>6. ASSUME NEW k \in Keys
      PROVE  Find(delta', n, k) = IF pendingBar[a][k] = Untouched THEN Find(delta, n, k)
                                  ELSE pendingBar[a][k]
  <2>1. pendingBar[a][k] = IF r.store[k] # Absent \/ k \in r.removed THEN r.store[k]
                           ELSE Untouched
    BY BarDomains DEF PendingOf, Modified
  <2>2. /\ Find(delta, n, k) = IF delta[n].store[k] # Absent THEN delta[n].store[k]
                               ELSE IF k \in delta[n].removed \/ delta[n].parent = Nil THEN Absent
                               ELSE Find(delta, delta[n].parent, k)
        /\ Find(delta', n, k) = IF delta'[n].store[k] # Absent THEN delta'[n].store[k]
                                ELSE IF k \in delta'[n].removed \/ delta'[n].parent = Nil THEN Absent
                                ELSE Find(delta', delta'[n].parent, k)
    BY <1>1, FindUnfold
  <2>3. r.store[k] \in Values \cup {Absent} /\ r.store[k] # Untouched
    <3>1. r.store[k] \in Values \cup {Absent}
      BY <1>2 DEF Delta, Store
    <3> QED
      BY <3>1 DEF ConstantsAssumption
  <2>4. IF r.store[k] # Absent THEN delta'[n].store[k] = r.store[k]
        ELSE IF k \in r.removed
             THEN /\ delta'[n].store[k] = Absent
                  /\ delta[n].parent # Nil => k \in delta'[n].removed
             ELSE /\ delta'[n].store[k] = delta[n].store[k]
                  /\ k \in delta'[n].removed <=> k \in delta[n].removed
    BY <1>2, SquashKey
  <2>5. delta[n].parent # Nil =>
          Find(delta', delta[n].parent, k) = Find(delta, delta[n].parent, k)
    BY <1>4, <1>5
  <2> HIDE DEF r
  <2> QED
    BY <1>3, <2>1, <2>2, <2>3, <2>4, <2>5
<1>7. ContentsOf(delta', n) = Overlaid(pendingBar[a], ContentsOf(delta, n))
  BY <1>6 DEF ContentsOf, Overlaid
<1>8. stateBar' = [e \in LiveNodes |-> ContentsOf(delta', e)]
  BY DEF stateBar
<1>9. stateBar = [e \in LiveNodes |-> ContentsOf(delta, e)]
  BY DEF stateBar
<1> QED
  BY <1>5, <1>7, <1>8, <1>9

\* The same for the draft c under it.
LEMMA SquashIntoDraft ==
  ASSUME ConstantsAssumption, IInv, IInv', NEW a \in Fresh, NEW c \in Fresh,
         anon'[c] = anon[c],
         delta'[anon[c].state] = SquashInto(delta[anon[c].state], delta[anon[a].state])
  PROVE  PendingOf(c)' = Overlaid(pendingBar[a], pendingBar[c])
<1> DEFINE r == delta[anon[a].state]
           p == delta[anon[c].state]
           q == delta'[anon[c].state]
<1>1. r \in Delta /\ p \in Delta
  BY FreshState
<1>2. p.parent # Nil
  BY FreshBase
<1>3. ASSUME NEW k \in Keys
      PROVE  IF r.store[k] # Absent THEN q.store[k] = r.store[k]
             ELSE IF k \in r.removed
                  THEN q.store[k] = Absent /\ k \in q.removed
                  ELSE /\ q.store[k] = p.store[k]
                       /\ k \in q.removed <=> k \in p.removed
  BY <1>1, <1>2, SquashKey
<1>4. \A k \in Keys : r.store[k] # Untouched
  <2>1. \A k \in Keys : r.store[k] \in Values \cup {Absent}
    BY <1>1 DEF Delta, Store
  <2> QED
    BY <2>1 DEF ConstantsAssumption
<1>5. /\ pendingBar[a] = [k \in Keys |-> IF r.store[k] # Absent \/ k \in r.removed
                                         THEN r.store[k] ELSE Untouched]
      /\ pendingBar[c] = [k \in Keys |-> IF p.store[k] # Absent \/ k \in p.removed
                                         THEN p.store[k] ELSE Untouched]
      /\ PendingOf(c)' = [k \in Keys |-> IF q.store[k] # Absent \/ k \in q.removed
                                         THEN q.store[k] ELSE Untouched]
  BY BarDomains DEF PendingOf, Modified
<1> HIDE DEF r, p, q
<1>6. Overlaid(pendingBar[a], pendingBar[c])
        = [k \in Keys |-> IF pendingBar[a][k] = Untouched THEN pendingBar[c][k] ELSE pendingBar[a][k]]
  BY DEF Overlaid
<1>7. ASSUME NEW k \in Keys
      PROVE  (IF q.store[k] # Absent \/ k \in q.removed THEN q.store[k] ELSE Untouched)
               = (IF pendingBar[a][k] = Untouched THEN pendingBar[c][k] ELSE pendingBar[a][k])
  BY <1>3, <1>4, <1>5
<1> QED
  BY <1>5, <1>6, <1>7

LEMMA MergeNodeMaps ==
  ASSUME ConstantsAssumption, IInv, NEW a \in Fresh, NEW n \in LiveNodes,
         anon[a].parent = n, ~delta[n].finalized,
         stateBar' = [stateBar EXCEPT ![n] = Overlaid(pendingBar[a], @)],
         sealedBar' = sealedBar,
         EndsBar({a} \cup OverBar({a}), pendingBar)
  PROVE  Snap!Next
<1>1. a \in Handles /\ a \in DOMAIN baseBar /\ baseBar[a] = n
  BY FreshState, BarDomains
<1>2. n \in DOMAIN stateBar \ sealedBar
  BY BarDomains
<1>3. /\ baseBar[a] \in DOMAIN stateBar \ sealedBar
      /\ stateBar' = [stateBar EXCEPT ![baseBar[a]] = Overlaid(pendingBar[a], @)]
  BY <1>1, <1>2
<1>4. Snap!MergeIntoNode(a)
  BY <1>1, <1>3, SnapActions, Zenon
<1> QED
  BY <1>1, <1>4, SnapSteps

LEMMA MergeDraftMaps ==
  ASSUME ConstantsAssumption, IInv, NEW a \in Fresh, NEW c \in Fresh,
         anon[a].parent = c, stateBar' = stateBar, sealedBar' = sealedBar,
         EndsBar({a} \cup OverBar({a}),
                 [pendingBar EXCEPT ![c] = Overlaid(pendingBar[a], @)])
  PROVE  Snap!Next
<1>1. a \in Handles /\ a \in DOMAIN baseBar /\ baseBar[a] = c /\ c \in DOMAIN baseBar
  BY FreshState, BarDomains
<1>2. /\ baseBar[a] \in DOMAIN baseBar
      /\ EndsBar({a} \cup OverBar({a}),
                 [pendingBar EXCEPT ![baseBar[a]] = Overlaid(pendingBar[a], @)])
  BY <1>1 DEF EndsBar
<1>3. Snap!MergeIntoDraft(a)
  BY <1>1, <1>2, SnapActions, Zenon
<1> QED
  BY <1>1, <1>3, SnapSteps

LEMMA CommitAnonymousMaps ==
  ASSUME ConstantsAssumption, IInv, NEW a \in Handles, NEW d \in Drafts,
         CommitAnonymous(a, d)
  PROVE  Snap!Next \/ UNCHANGED Snap!vars
<1> DEFINE s == anon[a].state
           p == delta[s].parent
           R == {b \in Fresh : anon[a].state \in Lineage(delta, anon[b].state)}
<1>1. /\ IInv'
      /\ Fresh' = Fresh \ R
      /\ a \in DOMAIN anon
      /\ ~delta[StateOf(anon[a].parent)].finalized
      /\ d \notin DOMAIN delta
      /\ DOMAIN delta' = DOMAIN delta \cup {d}
      /\ p \in DOMAIN delta
      /\ delta'[p] = SquashInto(delta[p], delta[s])
      /\ \A e \in DOMAIN delta : e # p => delta'[e] = delta[e]
      /\ \A b \in DOMAIN anon : b # a => anon'[b] = anon[b]
  BY CommitAnonymousInv
<1>2. d \notin Nodes
  BY DEF ConstantsAssumption
<1>3. LiveNodes' = LiveNodes /\ \A n \in LiveNodes : n # p => delta'[n] = delta[n]
  BY <1>1, <1>2 DEF LiveNodes
<1>4. \A b \in Fresh : /\ b \in DOMAIN anon
                       /\ anon[b].state \in DOMAIN delta
                       /\ anon[b].state \notin Nodes
                       /\ anon[b].state # p => delta'[anon[b].state] = delta[anon[b].state]
                       /\ b # a => anon'[b] = anon[b]
  BY <1>1, FreshState
<1>5. CASE a \notin Fresh
  <2>1. R = {}
    BY <1>1, <1>5, FreshBelow
  <2>2. Fresh' = Fresh /\ \A b \in Fresh : b # a
    BY <1>1, <1>5, <2>1
  <2>3. p \notin Nodes /\ \A b \in Fresh : anon[b].state # p
    BY <1>1, <1>5, FreshAbove
  <2>4. stateBar' = stateBar /\ sealedBar' = sealedBar
    <3>1. \A n \in LiveNodes : delta'[n] = delta[n]
      BY <1>3, <2>3 DEF LiveNodes
    <3> QED
      BY <1>1, <1>3, <3>1, NodesStay
  <2>5. baseBar' = baseBar /\ pendingBar' = pendingBar
    BY <1>4, <2>2, <2>3, DraftsSame
  <2> QED
    BY <2>4, <2>5, SnapStutter
<1>6. CASE a \in Fresh
  <2>1. R = {a} \cup OverBar({a})
    BY <1>6, OverHandle
  <2>2. R \in SUBSET Fresh /\ \A b \in Fresh \ R : b # a
    BY <2>1
  <2>3. CASE anon[a].parent \in LiveNodes /\ p = anon[a].parent
    <3>1. p \in LiveNodes /\ ~delta[p].finalized
      BY <1>1, <2>3 DEF StateOf, LiveNodes
    <3>2. stateBar' = [stateBar EXCEPT ![p] = Overlaid(pendingBar[a], @)]
      BY <1>1, <1>3, <1>6, <3>1, SquashIntoNode
    <3>3. sealedBar' = sealedBar
      <4>1. delta[p] \in Delta /\ delta[s] \in Delta
        BY <1>1, <1>6, FreshState DEF IInv, TreeOK
      <4>2. delta'[p].finalized = delta[p].finalized
        <5> HIDE DEF p, s
        <5> QED
          BY <1>1, <4>1, SquashMarks
      <4> QED
        BY <1>3, <4>2 DEF sealedBar
    <3>4. \A b \in Fresh \ R : /\ anon'[b] = anon[b]
                               /\ delta'[anon[b].state] = delta[anon[b].state]
      BY <1>4, <2>2, <3>1 DEF LiveNodes
    <3> HIDE DEF R
    <3>5. EndsBar(R, pendingBar)
      BY <1>1, <2>2, <3>4, DraftsEnd
    <3> QED
      BY <1>6, <2>1, <2>3, <3>1, <3>2, <3>3, <3>5, MergeNodeMaps
  <2>4. CASE anon[a].parent \in Fresh /\ p = anon[anon[a].parent].state
    <3> DEFINE c == anon[a].parent
               w == [pendingBar EXCEPT ![c] = Overlaid(pendingBar[a], @)]
    <3>1. stateBar' = stateBar /\ sealedBar' = sealedBar
      <4>1. \A n \in LiveNodes : delta'[n] = delta[n]
        BY <1>3, <1>4, <2>4 DEF LiveNodes
      <4> QED
        BY <1>1, <1>3, <4>1, NodesStay
    <3>2. \A b \in Fresh \ R : anon'[b] = anon[b]
      BY <1>4, <2>2
    <3>3. ASSUME NEW b \in Fresh \ R
          PROVE  PendingOf(b)' = w[b]
      <4>1. CASE b = c
        <5>1. /\ b \in Fresh /\ anon'[b] = anon[b]
              /\ delta'[anon[b].state] = SquashInto(delta[anon[b].state], delta[anon[a].state])
          BY <1>1, <2>4, <3>2, <4>1
        <5>2. PendingOf(b)' = Overlaid(pendingBar[a], pendingBar[b])
          BY <1>1, <1>6, <5>1, SquashIntoDraft
        <5> QED
          BY <4>1, <5>1, <5>2, BarDomains
      <4>2. CASE b # c
        <5>1. anon[b].state # p
          BY <1>4, <2>4, <4>2 DEF IInv, HandlesApart
        <5>2. PendingOf(b)' = PendingOf(b)
          BY <1>4, <3>2, <5>1 DEF PendingOf, Modified
        <5> QED
          BY <4>2, <5>2, BarDomains
      <4> QED
        BY <4>1, <4>2
    <3>4. EndsBar(R, w)
      <4>1. /\ baseBar' = [b \in Fresh \ R |-> anon[b].parent]
            /\ pendingBar' = [b \in Fresh \ R |-> w[b]]
        BY <1>1, <3>2, <3>3 DEF baseBar, pendingBar
      <4>2. /\ DOMAIN baseBar \cap (DOMAIN baseBar \ R) = Fresh \ R
            /\ DOMAIN w \cap (DOMAIN baseBar \ R) = Fresh \ R
            /\ \A b \in Fresh \ R : baseBar[b] = anon[b].parent
        BY BarDomains
      <4> QED
        BY <4>1, <4>2 DEF EndsBar, Keep
    <3> QED
      BY <1>6, <2>1, <2>4, <3>1, <3>4, MergeDraftMaps
  <2> QED
    BY <1>6, <2>3, <2>4, FreshBase
<1> QED
  BY <1>5, <1>6

-----------------------------------------------------------------------------
(* The refinement *)

LEMMA InitMaps ==
  ASSUME ConstantsAssumption, Init
  PROVE  Snap!Init
<1>1. /\ delta = [d \in {Genesis} |-> [parent |-> Nil, revision |-> 0, store |-> EmptyStore,
                                       removed |-> {}, finalized |-> FALSE, merkle |-> ZeroRoot]]
      /\ DOMAIN anon = {}
  BY DEF Init
<1>2. /\ DOMAIN delta = {Genesis} /\ LiveNodes = {Genesis}
      /\ ~delta[Genesis].finalized
      /\ delta[Genesis].store = EmptyStore /\ delta[Genesis].parent = Nil
  BY <1>1 DEF LiveNodes, ConstantsAssumption
<1>3. Fresh = {}
  BY <1>1 DEF Fresh
<1>4. ContentsOf(delta, Genesis) = [k \in Keys |-> Absent]
  <2>1. TreeOK(delta)
    BY InitInv DEF IInv
  <2>2. \A k \in Keys : Find(delta, Genesis, k) = Absent
    BY <1>2, <2>1, FindUnfold DEF EmptyStore
  <2> QED
    BY <2>2 DEF ContentsOf
<1>5. stateBar = [n \in {Genesis} |-> [k \in Keys |-> Absent]]
  BY <1>2, <1>4 DEF stateBar
<1>6. sealedBar = {}
  BY <1>2 DEF sealedBar
<1>7. /\ baseBar = [d \in {} |-> Genesis]
      /\ pendingBar = [d \in {} |-> [k \in Keys |-> Untouched]]
  BY <1>3 DEF baseBar, pendingBar
<1> QED
  BY <1>5, <1>6, <1>7, SnapActions

LEMMA NextMaps ==
  ASSUME ConstantsAssumption, IInv, [Next]_vars
  PROVE  [Snap!Next]_(Snap!vars)
<1>1. CASE UNCHANGED vars
  BY <1>1 DEF vars, Snap!vars, Fresh, Lineage, ParentClosed, LiveNodes, ContentsOf, Find, Modified
<1>2. CASE Next
  BY <1>2, PutMaps, RemoveMaps, CreateNodeMaps, CloneNodeMaps, FinalizeMaps, AskMaps,
     DiscardMaps, CommitMaps, CreateAnonymousMaps, CommitAnonymousMaps, ResetMaps,
     DropAnonymousMaps
     DEF Next
<1> QED
  BY <1>1, <1>2

\* Reading through the chain of deltas (state_delta::find), committing nodes
\* into the root (state_delta::commit), discarding them and squashing anonymous
\* nodes cannot be told from a map of its own for every node: every behaviour
\* of StateDelta is one of Snapshots.
THEOREM Refinement == Spec => ImplementsSnapshots
<1>1. Init => Snap!Init
  BY InitMaps, ConstantsAssumption
<1>2. IInv /\ [Next]_vars => [Snap!Next]_(Snap!vars)
  BY NextMaps, ConstantsAssumption
<1>3. Spec => []IInv
  BY Invariance
<1> QED
  BY <1>1, <1>2, <1>3, PTL DEF Spec, ImplementsSnapshots, Snap!Spec
=============================================================================
