------------------------- MODULE MCDatabaseTransfer -------------------------
(* A small instance of DatabaseTransfer for TLC. *)
EXTENDS DatabaseTransfer, TLC

CONSTANTS n1, n2, f1, f2, w1, w2

Symmetry == Permutations(Namespaces) \cup Permutations(Files) \cup Permutations(Writers)
=============================================================================
