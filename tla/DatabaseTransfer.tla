-------------------------- MODULE DatabaseTransfer --------------------------
(***************************************************************************)
(* One receiving synchronization of databases                              *)
(* (ttsync-fs/src/databases.rs): files are received in a private staging   *)
(* directory beside the namespaces, and the commit swaps whole directories *)
(* by renaming: the live one aside, the staged one into its place.         *)
(*                                                                         *)
(* PlanServer shows that one such transfer exists at a time.  Here uploads *)
(* that are still in flight interleave with the commit, every file system  *)
(* call can fail, and the process can die between any two of them.         *)
(***************************************************************************)
CONSTANTS
  Namespaces,   \* namespace directories (db-<name>)
  Files,        \* file names a namespace can have (database.tdb, ...)
  Writers,      \* uploads that can be in flight at once
  NoDir,        \* a directory that does not exist
  NoNamespace,  \* no namespace
  NoWork        \* no upload

(* What is in a directory: nothing, the target's data or the source's. *)
Dirs == [Files -> {"none", "old", "new"}]
OldDirs == [Files -> {"none", "old"}]

(* An upload has the plan's store, or its temporary file is in the staging *)
(* directory, or the commit moved the file away with the directory.        *)
Work == [ns : Namespaces, file : Files, at : {"opened", "writing", "carried_off"}]

ASSUME TransferAssumption ==
  /\ NoDir \notin Dirs
  /\ NoNamespace \notin Namespaces
  /\ NoWork \notin Work

VARIABLES
  live,            \* the namespaces in their place
  staging,         \* .staging/<uuid>/<name>
  previous,        \* .staging/<uuid>/old-<name>
  groups,          \* the files to receive; {} for a namespace to remove
  writer,          \* the uploads in flight
  phase,           \* the plan: open, being committed, closed; or the process died
  pending,         \* namespaces the commit has yet to visit
  moved,           \* the namespace between its two renames
  applied,         \* DatabaseTransfer.applied
  rollback_failed, \* DatabaseTransfer.rollback_failed
  initial          \* the namespaces before the transfer (history)

vars == <<live, staging, previous, groups, writer, phase, pending, moved,
          applied, rollback_failed, initial>>

(* The namespaces the plan touches. *)
Planned == DOMAIN groups

(* The directories, the plan and the uploads have their types; a directory *)
(* maps every planned file to whose bytes it has.                          *)
TypeOK ==
  /\ live \in [Namespaces -> Dirs \cup {NoDir}]
  /\ staging \in [Namespaces -> Dirs \cup {NoDir}]
  /\ previous \in [Namespaces -> Dirs \cup {NoDir}]
  /\ Planned \subseteq Namespaces
  /\ groups \in [Planned -> SUBSET Files]
  /\ writer \in [Writers -> Work \cup {NoWork}]
  /\ phase \in {"open", "committing", "closed", "dropped", "dead"}
  /\ pending \subseteq Namespaces
  /\ moved \in Namespaces \cup {NoNamespace}
  /\ applied \subseteq Namespaces
  /\ rollback_failed \in BOOLEAN
  /\ initial \in [Namespaces -> OldDirs \cup {NoDir}]

EmptyDir == [f \in Files |-> "none"]

Alive == phase \in {"open", "committing", "closed"}

(* set_plan: the transferred files of each namespace; a namespace that     *)
(* only occurs in the delete list (so it has files here) gets none.        *)
Init ==
  /\ initial \in [Namespaces -> OldDirs \cup {NoDir}]
  /\ live = initial
  /\ \E planned \in SUBSET Namespaces : groups \in [planned -> SUBSET Files]
  /\ \A n \in Planned : groups[n] = {} => initial[n] \notin {NoDir, EmptyDir}
  /\ staging = [n \in Namespaces |-> NoDir]
  /\ previous = [n \in Namespaces |-> NoDir]
  /\ writer = [w \in Writers |-> NoWork]
  /\ phase = "open"
  /\ pending = {} /\ moved = NoNamespace /\ applied = {}
  /\ rollback_failed = FALSE

-----------------------------------------------------------------------------
(* Receiving files (write_file, write_file_to_path).                       *)

(* The handler finds the file in an open plan and clones the plan's store. *)
(* The client engine has one upload of a file in flight at a time.         *)
OpenUpload(w, n, f) ==
  /\ phase = "open"
  /\ writer[w] = NoWork
  /\ n \in Planned /\ f \in groups[n]
  /\ \A v \in Writers : writer[v] # NoWork => writer[v].ns # n \/ writer[v].file # f
  /\ writer' = [writer EXCEPT ![w] = [ns |-> n, file |-> f, at |-> "opened"]]
  /\ UNCHANGED <<live, staging, previous, groups, phase, pending, moved, applied, rollback_failed, initial>>

(* create_dir_all and the temporary file beside the destination, possibly  *)
(* after the plan was taken away or even after the commit.                 *)
BeginWrite(w) ==
  /\ Alive
  /\ writer[w] # NoWork /\ writer[w].at = "opened"
  /\ staging' = [staging EXCEPT ![writer[w].ns] = IF @ = NoDir THEN EmptyDir ELSE @]
  /\ writer' = [writer EXCEPT ![w] = [ns |-> writer[w].ns, file |-> writer[w].file, at |-> "writing"]]
  /\ UNCHANGED <<live, previous, groups, phase, pending, moved, applied, rollback_failed, initial>>

(* The exact number of bytes has arrived: rename inside the staging        *)
(* directory.                                                              *)
EndWrite(w) ==
  /\ Alive
  /\ writer[w] # NoWork /\ writer[w].at = "writing"
  /\ staging' = [staging EXCEPT ![writer[w].ns] =
       [f \in Files |-> IF f = writer[w].file THEN "new" ELSE staging[writer[w].ns][f]]]
  /\ writer' = [writer EXCEPT ![w] = NoWork]
  /\ UNCHANGED <<live, previous, groups, phase, pending, moved, applied, rollback_failed, initial>>

(* A short body, an I/O error or a client that went away: no rename.  When *)
(* the commit moved the directory, with the temporary file in it, into     *)
(* place, the rename finds nothing and this is the only way out.           *)
FailWrite(w) ==
  /\ Alive
  /\ writer[w] # NoWork
  /\ writer' = [writer EXCEPT ![w] = NoWork]
  /\ UNCHANGED <<live, staging, previous, groups, phase, pending, moved, applied, rollback_failed, initial>>

-----------------------------------------------------------------------------
(* commit.                                                                 *)

StartCommit ==
  /\ phase = "open"
  /\ phase' = "committing"
  /\ pending' = Planned
  /\ UNCHANGED <<live, staging, previous, groups, writer, moved, applied, rollback_failed, initial>>

(* Abort or expiry takes the plan away without a commit. *)
Abandon ==
  /\ phase = "open"
  /\ phase' = "closed"
  /\ UNCHANGED <<live, staging, previous, groups, writer, pending, moved, applied, rollback_failed, initial>>

(* Mutant: only the directory is checked, not its files. *)
DirectoryExists(n) == groups[n] # {} => staging[n] # NoDir

(* The files of the group are there with the planned sizes. *)
Complete(n) ==
  groups[n] # {} => staging[n] # NoDir /\ \A f \in groups[n] : staging[n][f] = "new"

(* An incomplete namespace, or a directory that cannot be created or moved *)
(* aside, ends the commit.                                                 *)
Stop ==
  /\ phase = "committing"
  /\ moved = NoNamespace
  /\ pending # {}
  /\ phase' = "closed"
  /\ UNCHANGED <<live, staging, previous, groups, writer, pending, moved, applied, rollback_failed, initial>>

(* Every file of the namespace was received; the live directory, if there  *)
(* is one, steps aside.  The order of the namespaces is left open.         *)
MoveOut(n) ==
  /\ phase = "committing"
  /\ moved = NoNamespace
  /\ n \in pending
  /\ Complete(n)
  /\ previous' = [previous EXCEPT ![n] = live[n]]
  /\ live' = [live EXCEPT ![n] = NoDir]
  /\ moved' = n
  /\ UNCHANGED <<staging, groups, writer, phase, pending, applied, rollback_failed, initial>>

(* Mutant: the name is forgotten before it is recorded. *)
ApplyForgetful(n) ==
  /\ phase = "committing"
  /\ moved = n
  /\ moved' = NoNamespace
  /\ pending' = pending \ {n}
  /\ applied' = applied \cup {moved'}
  /\ UNCHANGED <<previous, groups, phase, rollback_failed, initial>>

(* Mutant: applied is not updated. *)
ApplyUnrecorded(n) ==
  /\ phase = "committing"
  /\ moved = n
  /\ moved' = NoNamespace
  /\ pending' = pending \ {n}
  /\ UNCHANGED <<previous, groups, phase, applied, rollback_failed, initial>>

(* The namespace is dealt with. *)
Apply(n) ==
  /\ phase = "committing"
  /\ moved = n
  /\ moved' = NoNamespace
  /\ pending' = pending \ {n}
  /\ applied' = applied \cup {n}
  /\ UNCHANGED <<previous, groups, phase, rollback_failed, initial>>

(* The staged directory takes its place, open temporary files included. *)
MoveIn(n) ==
  /\ Apply(n)
  /\ groups[n] # {}
  /\ live' = [live EXCEPT ![n] = staging[n]]
  /\ staging' = [staging EXCEPT ![n] = NoDir]
  /\ writer' = [w \in Writers |->
       IF writer[w] # NoWork /\ writer[w].ns = n /\ writer[w].at = "writing"
         THEN [ns |-> n, file |-> writer[w].file, at |-> "carried_off"]
         ELSE writer[w]]

(* A namespace without files to publish is removed. *)
Remove(n) ==
  /\ Apply(n)
  /\ groups[n] = {}
  /\ UNCHANGED <<live, staging, writer>>

(* The second rename failed and the old directory is put back ... *)
RollBack(n) ==
  /\ phase = "committing"
  /\ moved = n
  /\ groups[n] # {}
  /\ live' = [live EXCEPT ![n] = previous[n]]
  /\ previous' = [previous EXCEPT ![n] = NoDir]
  /\ moved' = NoNamespace
  /\ phase' = "closed"
  /\ UNCHANGED <<staging, groups, writer, pending, applied, rollback_failed, initial>>

(* Mutant: rollback_failed is not set. *)
RollBackFailsSilently(n) ==
  /\ phase = "committing"
  /\ moved = n
  /\ groups[n] # {}
  /\ previous[n] # NoDir
  /\ moved' = NoNamespace
  /\ phase' = "closed"
  /\ UNCHANGED <<live, staging, previous, groups, writer, pending, applied, rollback_failed, initial>>

(* ... or cannot be put back, and is retained in the staging directory. *)
RollBackFails(n) ==
  /\ phase = "committing"
  /\ moved = n
  /\ groups[n] # {}
  /\ previous[n] # NoDir
  /\ rollback_failed' = TRUE
  /\ moved' = NoNamespace
  /\ phase' = "closed"
  /\ UNCHANGED <<live, staging, previous, groups, writer, pending, applied, initial>>

FinishCommit ==
  /\ phase = "committing"
  /\ moved = NoNamespace
  /\ pending = {}
  /\ phase' = "closed"
  /\ UNCHANGED <<live, staging, previous, groups, writer, pending, moved, applied, rollback_failed, initial>>

(* Drop, with the last reference. *)
LastReference ==
  /\ phase = "closed"
  /\ \A w \in Writers : writer[w] = NoWork
  /\ phase' = "dropped"
  /\ UNCHANGED <<live, groups, writer, pending, moved, applied, rollback_failed, initial>>

(* The staging directory is removed, ...  *)
RemoveStaging ==
  /\ LastReference
  /\ ~rollback_failed
  /\ staging' = [n \in Namespaces |-> NoDir]
  /\ previous' = [n \in Namespaces |-> NoDir]

(* ... or kept: it holds the only copy of a namespace, or the removal      *)
(* failed, which is only logged.                                           *)
KeepStaging ==
  /\ LastReference
  /\ UNCHANGED <<staging, previous>>

(* The process dies.  Nothing is dropped; the disk stays as it is. *)
Die ==
  /\ Alive
  /\ phase' = "dead"
  /\ writer' = [w \in Writers |-> NoWork]
  /\ UNCHANGED <<live, staging, previous, groups, pending, moved, applied, rollback_failed, initial>>

Next ==
  \/ \E w \in Writers, n \in Namespaces, f \in Files : OpenUpload(w, n, f)
  \/ \E w \in Writers : BeginWrite(w) \/ EndWrite(w) \/ FailWrite(w)
  \/ StartCommit \/ Abandon \/ Stop \/ FinishCommit
  \/ \E n \in Namespaces :
       MoveOut(n) \/ MoveIn(n) \/ Remove(n) \/ RollBack(n) \/ RollBackFails(n)
  \/ RemoveStaging \/ KeepStaging
  \/ Die

Spec == Init /\ [][Next]_vars
-----------------------------------------------------------------------------
(* Properties.                                                             *)

(* What a planned namespace is to become: exactly the source's files,      *)
(* without leftovers of the target.                                        *)
Replacement(n) == [f \in Files |-> IF f \in groups[n] THEN "new" ELSE "none"]

Outcome(n) == IF groups[n] = {} THEN NoDir ELSE Replacement(n)

(* "Each namespace is retained or replaced as a whole": whatever fails, a  *)
(* namespace is never a mixture of the target's and the source's files,    *)
(* nor an incomplete set of the latter; at worst it is out of its place.   *)
NamespaceWhole ==
  \A n \in Namespaces :
    \/ live[n] = initial[n]
    \/ live[n] = NoDir
    \/ n \in Planned /\ groups[n] # {} /\ live[n] = Replacement(n)

(* The target's data stays on disk until its replacement is in place: in   *)
(* the namespace or, between the renames, after a crash there and after a  *)
(* failed restore, in the staging directory, which then is not removed.    *)
NothingLost ==
  \A n \in Namespaces :
    \/ live[n] = initial[n]
    \/ previous[n] = initial[n]
    \/ n \in applied

(* changed() *)
Changed == rollback_failed \/ applied # {}

(* changed() and is_applied() tell the host the truth: when the commit is  *)
(* over, a namespace that was applied is what the plan wanted, one that    *)
(* was not is as before unless its restore failed, and changed() says no   *)
(* only if the databases are untouched.                                    *)
ReportIsTrue ==
  phase \in {"closed", "dropped"} =>
    /\ \A n \in applied : live[n] = Outcome(n)
    /\ \A n \in Namespaces \ applied : live[n] = initial[n] \/ rollback_failed
    /\ ~Changed => live = initial
=============================================================================
