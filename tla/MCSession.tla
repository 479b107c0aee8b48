------------------------------ MODULE MCSession ------------------------------
(* A small instance of Session for TLC. *)
EXTENDS Session, TLC

CONSTANTS r1, r2, h1, h2

Symmetry == Permutations(Requests) \cup Permutations(Handlers)
=============================================================================
