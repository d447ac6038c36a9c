---------------------------- MODULE MCThreadList ----------------------------
(* Small instances of ThreadList.                                          *)
EXTENDS ThreadList, TLC

CONSTANTS t1, t2, t3

\* The connections are alike.
Symmetry == Permutations(Threads)
=============================================================================
