---------------------------- MODULE MCFileWriter ----------------------------
(* Small instances of FileWriter for TLC. *)
EXTENDS FileWriter, TLC

CONSTANTS w1, w2, i1, i2, i3

Lengths == w1 :> 1 @@ w2 :> 3 @@ Original :> 2

Symmetry == Permutations(Inodes)
=============================================================================
