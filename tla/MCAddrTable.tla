---------------------------- MODULE MCAddrTable ----------------------------
(* Small instances of AddrTable.                                           *)
EXTENDS AddrTable, TLC

CONSTANTS t1, t2, t3, t4

\* The threads do the same and the userids are only compared with each other,
\* so only the threads may be permuted.
Symmetry == Permutations(Threads)

\* Behaviours are followed up to the first login that overlaps another
\* operation: after it the properties of Table, all but one, promise nothing.
UntilOverlap == ~overlapped
=============================================================================
