--------------------------- MODULE MCClientEngine ---------------------------
(* A small instance of ClientEngine for TLC. *)
EXTENDS ClientEngine

CONSTANTS f1, f2, b1, x1, y1

=============================================================================
