-------------------------- MODULE ExclusiveDatabase --------------------------
(***************************************************************************)
(* What the server promises about its databases (docs/Architecture.md,     *)
(* "Database scope"): one synchronization at a time has access to the      *)
(* namespaces, and they change only by being replaced or removed as a      *)
(* whole by the synchronization that has access.                           *)
(***************************************************************************)
CONSTANTS Sync, Namespaces, Free, Original, Absent

VARIABLES
  holder,  \* the synchronization that has access, or Free
  data     \* whose data each namespace shows

Init ==
  /\ holder = Free
  /\ data \in [Namespaces -> {Original, Absent}]

Acquire(s) ==
  /\ holder = Free
  /\ holder' = s
  /\ UNCHANGED data

(* The holder replaces or removes one namespace; it may be done with that. *)
Replace(s, n) ==
  /\ holder = s
  /\ data' \in {[data EXCEPT ![n] = s], [data EXCEPT ![n] = Absent]}
  /\ holder' \in {s, Free}

Release(s) ==
  /\ holder = s
  /\ holder' = Free
  /\ UNCHANGED data

Next ==
  \E s \in Sync :
    \/ Acquire(s)
    \/ \E n \in Namespaces : Replace(s, n)
    \/ Release(s)

Spec == Init /\ [][Next]_<<holder, data>>
=============================================================================
