---------------------------- MODULE MCSyncRound ----------------------------
(* A small instance of SyncRound for TLC: an ordinary file and a database  *)
(* namespace of two files.                                                 *)
EXTENDS SyncRound

CONSTANTS f1, n1, a1, b1

FileAndDatabase == [p \in {f1, a1, b1} |-> IF p = f1 THEN Plain ELSE n1]

Everything == {Paths}

Known(p) ==
  \E s \in Sides : disk[s][p] # NoFile \/ p \in DOMAIN manifest[s]

(* Bounds the instance: the file and the database are there together only  *)
(* before the first edit, and database files have one size; at most one    *)
(* change is late, it is the file's, and the round that began before it    *)
(* took effect is the last one.                                            *)
Focus ==
  /\ Known(f1) /\ (Known(a1) \/ Known(b1)) => clock <= 1
  /\ \A s \in Sides, p \in {a1, b1} : disk[s][p] # NoFile => disk[s][p].size = 1
  /\ Cardinality(late) <= 1
  /\ late # {} => ~Known(a1) /\ ~Known(b1) /\ clock < MaxClock
  /\ overlapped # {} => Running
=============================================================================
