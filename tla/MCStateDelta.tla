---------------------------- MODULE MCStateDelta ----------------------------
(***************************************************************************)
(* Small instances of StateDelta for TLC.                                  *)
(***************************************************************************)
EXTENDS StateDelta, TLC

CONSTANTS g, b, c, e, x, y, d1, d2, d3, k1, v1, v2

\* Node ids other than the genesis id, handles, the deltas behind them and
\* values are interchangeable.
Interchangeable ==
  Permutations(Nodes \ {Genesis}) \cup Permutations(Handles)
    \cup Permutations(Drafts) \cup Permutations(Values)
=============================================================================
