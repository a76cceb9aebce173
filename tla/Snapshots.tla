------------------------------ MODULE Snapshots ------------------------------
(***************************************************************************)
(* What state nodes promise to their users, without deltas: every node is  *)
(* a map of its own, copied from its parent when it is created; a sealed   *)
(* (finalized) node never changes; dropping nodes changes no other node.   *)
(* A draft (anonymous node) is a set of writes laid over a node or over    *)
(* another draft, which a merge applies to what it lies over in one step.  *)
(* A draft ends with its merge.  StateDelta implements this.               *)
(***************************************************************************)
CONSTANTS
  Nodes,      \* ids of state nodes
  Drafts,     \* anonymous state nodes
  Keys,
  Values,
  Absent,     \* the key has no value
  Untouched,  \* the draft has not written the key
  Genesis     \* the node the database starts with

VARIABLES
  state,    \* the contents of each node
  sealed,   \* the nodes that can no longer be written
  base,     \* the node or draft each draft lies over
  pending   \* what each draft has written

vars == <<state, sealed, base, pending>>

Contents == [Keys -> Values \cup {Absent}]
Blank == [k \in Keys |-> Untouched]

Overlay(w, s) == [k \in Keys |-> IF w[k] = Untouched THEN s[k] ELSE w[k]]

Extend(f, x, y) == [z \in DOMAIN f \cup {x} |-> IF z = x THEN y ELSE f[z]]
Keep(f, S) == [z \in DOMAIN f \cap S |-> f[z]]

-----------------------------------------------------------------------------

Init ==
  /\ state = [n \in {Genesis} |-> [k \in Keys |-> Absent]]
  /\ sealed = {}
  /\ base = [d \in {} |-> Genesis]
  /\ pending = [d \in {} |-> Blank]

CreateNode(p, n) ==
  /\ p \in sealed
  /\ n \notin DOMAIN state
  /\ state' = Extend(state, n, state[p])
  /\ UNCHANGED <<sealed, base, pending>>

CloneNode(m, n) ==
  /\ m \in DOMAIN state \ sealed
  /\ n \notin DOMAIN state
  /\ state' = Extend(state, n, state[m])
  /\ UNCHANGED <<sealed, base, pending>>

Write(n, k, v) ==
  /\ n \in DOMAIN state \ sealed
  /\ state' = [state EXCEPT ![n][k] = v]
  /\ UNCHANGED <<sealed, base, pending>>

Seal(n) ==
  /\ n \in DOMAIN state
  /\ sealed' = sealed \cup {n}
  /\ UNCHANGED <<state, base, pending>>

\* The drafts over something in S, and those over them.
Over(S) ==
  {d \in DOMAIN base : \A D \in SUBSET DOMAIN base :
     (\A e \in DOMAIN base : base[e] \in S \cup D => e \in D) => d \in D}

\* The drafts of D end, the others have written w.
EndDrafts(D, w) ==
  /\ base' = Keep(base, DOMAIN base \ D)
  /\ pending' = Keep(w, DOMAIN base \ D)

\* Dropping nodes, with the drafts over them.
Drop(S) ==
  /\ state' = Keep(state, DOMAIN state \ S)
  /\ sealed' = sealed \ S
  /\ EndDrafts(Over(S), pending)

Begin(d, n) ==
  /\ d \notin DOMAIN base
  /\ n \in DOMAIN state \cup DOMAIN base
  /\ base' = Extend(base, d, n)
  /\ pending' = Extend(pending, d, Blank)
  /\ UNCHANGED <<state, sealed>>

WriteDraft(d, k, v) ==
  /\ d \in DOMAIN base
  /\ pending' = [pending EXCEPT ![d][k] = v]
  /\ UNCHANGED <<state, sealed, base>>

\* The writes of d go to the node under it, all at once, and d ends with
\* the drafts over it.
MergeIntoNode(d) ==
  /\ d \in DOMAIN base
  /\ base[d] \in DOMAIN state \ sealed
  /\ state' = [state EXCEPT ![base[d]] = Overlay(pending[d], @)]
  /\ EndDrafts({d} \cup Over({d}), pending)
  /\ UNCHANGED sealed

\* The same for a draft over another draft.
MergeIntoDraft(d) ==
  /\ d \in DOMAIN base
  /\ base[d] \in DOMAIN base
  /\ EndDrafts({d} \cup Over({d}), [pending EXCEPT ![base[d]] = Overlay(pending[d], @)])
  /\ UNCHANGED <<state, sealed>>

\* A draft is given up, with the drafts over it.
End(d) ==
  /\ d \in DOMAIN base
  /\ EndDrafts({d} \cup Over({d}), pending)
  /\ UNCHANGED <<state, sealed>>

Next ==
  \/ \E p, n \in Nodes : CreateNode(p, n) \/ CloneNode(p, n)
  \/ \E n \in Nodes, k \in Keys, v \in Values \cup {Absent} : Write(n, k, v)
  \/ \E n \in Nodes : Seal(n)
  \/ \E S \in SUBSET Nodes : Drop(S)
  \/ \E d \in Drafts, n \in Nodes \cup Drafts : Begin(d, n)
  \/ \E d \in Drafts, k \in Keys, v \in Values \cup {Absent} : WriteDraft(d, k, v)
  \/ \E d \in Drafts : MergeIntoNode(d) \/ MergeIntoDraft(d) \/ End(d)

Spec == Init /\ [][Next]_vars
=============================================================================
