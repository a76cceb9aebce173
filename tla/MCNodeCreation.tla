--------------------------- MODULE MCNodeCreation ---------------------------
(***************************************************************************)
(* A small instance of NodeCreation for TLC.                               *)
(***************************************************************************)
EXTENDS NodeCreation

CONSTANTS g, h, f, a, s, t
=============================================================================
