---------------------------- MODULE MCPeerAdmin ----------------------------
(* A small instance of PeerAdmin for TLC. *)
EXTENDS PeerAdmin, TLC

CONSTANTS d1, d2, t1, t2, r1, r2, rw, ro

Symmetry == Permutations({r1, r2}) \cup Permutations({t1, t2})

(* Bounds the instance: once saves have overlapped, only their ends are    *)
(* explored, and what follows when they leave a file that cannot be read.  *)
Focus ==
  overlapped =>
    \/ Underway' \subseteq Underway /\ saving' # saving
    \/ Underway = {} /\ peers = Torn

=============================================================================
