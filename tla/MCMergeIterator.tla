-------------------------- MODULE MCMergeIterator ---------------------------
(***************************************************************************)
(* A small instance of MergeIterator for TLC.                              *)
(***************************************************************************)
EXTENDS MergeIterator

\* The first key has a space of its own.
FirstKeyApart == [k \in Keys |-> IF k = 1 THEN 1 ELSE 2]
=============================================================================
