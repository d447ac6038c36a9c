-------------------------- MODULE MCUserDirectory --------------------------
(* A small instance of UserDirectory.                                      *)
EXTENDS UserDirectory, TLC

CONSTANTS c1, c2, c3, ann, bob, pw, qw

\* The clients are alike.
Symmetry == Permutations(Clients)
=============================================================================
