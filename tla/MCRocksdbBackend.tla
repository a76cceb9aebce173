-------------------------- MODULE MCRocksdbBackend --------------------------
(***************************************************************************)
(* Small instances of RocksdbBackend for TLC.                              *)
(***************************************************************************)
EXTENDS RocksdbBackend

CONSTANTS k1, k2, short, long

\* A key takes one byte, a short value one and a long value two.
SizeOfEntry == [v \in Values \cup {Absent} |-> IF v = long THEN 3 ELSE 2]

Interchangeable == Permutations(Keys)
=============================================================================
