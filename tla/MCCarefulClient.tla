--------------------------- MODULE MCCarefulClient ---------------------------
(***************************************************************************)
(* Small instances of CarefulClient for TLC.                               *)
(***************************************************************************)
EXTENDS CarefulClient

CONSTANTS alice, bob

H(t, s) == [timestamp |-> t, signer |-> s]

OneHeader == {H(1, alice)}
TwoTimes == {H(1, alice), H(2, alice)}
TwoSigners == {H(2, alice), H(1, bob)}
=============================================================================
