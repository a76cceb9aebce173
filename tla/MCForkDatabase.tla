--------------------------- MODULE MCForkDatabase ---------------------------
(***************************************************************************)
(* Small instances of ForkDatabase for TLC.                                *)
(***************************************************************************)
EXTENDS ForkDatabase

CONSTANTS alice, bob

H(t, s) == [timestamp |-> t, signer |-> s]

\* Two times of one signer.
TwoTimes == {H(1, alice), H(2, alice)}
=============================================================================
