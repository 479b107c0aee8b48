---------------------------- MODULE ClientEngine ----------------------------
(***************************************************************************)
(* One call of ClientSyncEngine::pull or direct_push                       *)
(* (ttsync-client/src/engine.rs, bundle.rs): the plan, the transfers, as a *)
(* bundle or as concurrent requests, the deletions and the commit, and     *)
(* what the call tells its host when it fails somewhere in between.        *)
(*                                                                         *)
(* The server is what the engine sees of it: it opens a plan, receives     *)
(* files, possibly later than the client gave up on them, and commits or   *)
(* aborts.  The host can cancel the call at every await.                   *)
(***************************************************************************)
EXTENDS Naturals, FiniteSets

CONSTANTS
  Files,        \* paths that can be transferred
  Extra,        \* paths that can be deleted
  Databases,    \* those of both that lie in a database namespace
  Concurrency   \* file_concurrency

ASSUME EngineAssumption ==
  /\ IsFiniteSet(Files)
  /\ Files \cap Extra = {}
  /\ Databases \subseteq Files \cup Extra
  /\ Concurrency \in Nat \ {0}

Paths == Files \cup Extra

VARIABLES
  options,   \* direction, mode, whether bundles are used and databases selected
  at,        \* where the call is
  transfer,  \* SyncPlan.transfer
  delete,    \* SyncPlan.delete, {} unless the mode is Mirror
  todo,      \* files that have no task yet, or were not yet seen in the bundle
  task,      \* the transfer tasks
  sent,      \* files of which the server may have all bytes
  done,      \* files the bundle writer reported (files_done)
  failed,    \* first_error is set
  changed,   \* local_target_changed or remote_maybe_changed
  writes,    \* LocalChangeTracker.writes
  deletes,   \* LocalChangeTracker.deletes; the deletions that were carried out
  published, \* database paths the workspace has published
  local,     \* paths of the workspace that really changed
  remote,    \* paths of the server that really changed
  got,       \* files the server has written or staged
  plan,      \* the server's plan
  guard,     \* RemotePlan.id is set
  abort,     \* an abort was sent
  report     \* what the host was told

vars == <<options, at, transfer, delete, todo, task, sent, done, failed, changed,
          writes, deletes, published, local, remote, got, plan, guard, abort, report>>

Options == [direction : {"pull", "push"}, mirror : BOOLEAN, bundle : BOOLEAN, databases : BOOLEAN]

(* A task is waiting for the server or the workspace, has written the file *)
(* locally, or has ended: well, with an error, or with an error that may   *)
(* have changed the target.                                                *)
TaskStates == {"none", "running", "sending", "written", "ok", "error", "error_changed", "joined"}
Ended == {"ok", "error", "error_changed"}

Stages == {"start", "requested", "planned", "transferring", "deleting", "committing", "releasing", "over"}

NoReport == [outcome |-> "none", applied |-> {}, changed |-> FALSE]

(* The variables have the types of the engine's local variables.           *)
TypeOK ==
  /\ options \in Options
  /\ at \in Stages
  /\ transfer \subseteq Files /\ delete \subseteq Extra
  /\ todo \subseteq transfer
  /\ task \in [Files -> TaskStates]
  /\ sent \subseteq transfer /\ done \subseteq sent /\ got \subseteq sent
  /\ failed \in BOOLEAN /\ changed \in BOOLEAN
  /\ writes \subseteq transfer /\ deletes \subseteq delete
  /\ published \subseteq Databases
  /\ local \subseteq Paths /\ remote \subseteq Paths
  /\ plan \in {"none", "open", "gone"}
  /\ guard \in BOOLEAN /\ abort \in BOOLEAN
  /\ report \in [outcome : {"none", "ok", "failed", "cancelled"},
                 applied : SUBSET Paths, changed : BOOLEAN]

Init ==
  /\ options \in Options
  /\ at = "start"
  /\ transfer = {} /\ delete = {} /\ todo = {}
  /\ task = [f \in Files |-> "none"]
  /\ sent = {} /\ done = {} /\ got = {}
  /\ failed = FALSE /\ changed = FALSE
  /\ writes = {} /\ deletes = {} /\ published = {}
  /\ local = {} /\ remote = {}
  /\ plan = "none" /\ guard = FALSE /\ abort = FALSE
  /\ report = NoReport

Pull == options.direction = "pull"
Push == options.direction = "push"

progress == <<transfer, delete, todo, task, sent, done, failed, writes, deletes, published,
              local, remote, got>>

-----------------------------------------------------------------------------
(* The end of the call.                                                    *)

(* is_applied, over the tracker's paths: an ordinary file as soon as it is *)
(* written, a database file when its namespace is published.               *)
Applied(paths, pub) == (paths \ Databases) \cup (paths \cap pub)

(* The result is known.  A call that holds a plan on the server releases   *)
(* it before it returns, except after a push, whose commit consumed it.    *)
Conclude(outcome, applied, flag) ==
  /\ report' = [outcome |-> outcome, applied |-> applied, changed |-> flag]
  /\ IF guard /\ ~(Push /\ outcome = "ok")
       THEN at' = "releasing" /\ abort' = TRUE /\ UNCHANGED guard
       ELSE at' = "over" /\ guard' = FALSE /\ UNCHANGED abort

(* A failure after changes: with_local_state, with_remote_maybe_changed.   *)
FailWith(flag) ==
  Conclude("failed", IF Pull THEN Applied(writes \cup deletes, published) ELSE {}, flag)

(* release() has its answer, whatever it is. *)
Released ==
  /\ at = "releasing"
  /\ at' = "over"
  /\ guard' = FALSE
  /\ UNCHANGED <<options, progress, changed, plan, abort, report>>

(* The host drops the future at an await: the drop of RemotePlan sends an  *)
(* abort, also when release() was waiting for the answer to its own.       *)
Cancel ==
  /\ at \notin {"planned", "over"}
  /\ at' = "over"
  /\ abort' = (abort \/ guard)
  /\ guard' = FALSE
  /\ report' = [outcome |-> "cancelled", applied |-> {}, changed |-> FALSE]
  /\ UNCHANGED <<options, progress, changed, plan>>

-----------------------------------------------------------------------------
(* Up to the plan.                                                         *)

(* validate_options, status, features, session, permissions, prepare or    *)
(* scan fails, or the server refuses the plan or loses its answer.         *)
FailEarly ==
  /\ at \in {"start", "requested"}
  /\ Conclude("failed", {}, FALSE)
  /\ UNCHANGED <<options, progress, changed, plan>>

OpenPlan ==
  /\ at = "start"
  /\ at' = "requested"
  /\ plan' = "open"
  /\ UNCHANGED <<options, progress, changed, guard, abort, report>>

(* The plan arrives and, when databases are selected, RemotePlan guards it. *)
ReceivePlan ==
  /\ at = "requested"
  /\ at' = "planned"
  /\ guard' = options.databases
  /\ UNCHANGED <<options, progress, changed, plan, abort, report>>

(* Mutant: RemotePlan is created after the validation. *)
RejectPlanUnguarded ==
  /\ at = "planned"
  /\ at' = "over"
  /\ guard' = FALSE
  /\ report' = [outcome |-> "failed", applied |-> {}, changed |-> FALSE]
  /\ UNCHANGED <<options, progress, changed, plan, abort>>

(* The plan is out of scope; the return drops RemotePlan. *)
RejectPlan ==
  /\ at = "planned"
  /\ at' = "over"
  /\ abort' = guard
  /\ guard' = FALSE
  /\ report' = [outcome |-> "failed", applied |-> {}, changed |-> FALSE]
  /\ UNCHANGED <<options, progress, changed, plan>>

InScope(paths) == options.databases \/ paths \cap Databases = {}

(* The plan is accepted and the first transfers are started. *)
AcceptPlan(files, extra, batch) ==
  /\ at = "planned"
  /\ InScope(files \cup extra)
  /\ extra # {} => options.mirror
  /\ batch \subseteq files
  /\ IF options.bundle THEN batch = {}
     ELSE Cardinality(batch) = IF Cardinality(files) < Concurrency
                                 THEN Cardinality(files) ELSE Concurrency
  /\ at' = "transferring"
  /\ transfer' = files /\ delete' = extra
  /\ todo' = files \ batch
  /\ task' = [f \in Files |-> IF f \in batch THEN "running" ELSE "none"]
  /\ UNCHANGED <<options, sent, done, failed, changed, writes, deletes, published, local,
                 remote, got, plan, guard, abort, report>>

-----------------------------------------------------------------------------
(* Transfers as concurrent requests.                                       *)

Set(f, state) == task' = [task EXCEPT ![f] = state]

(* A task whose request fails before it could change anything: the         *)
(* download is refused, or the local file cannot be opened.                *)
TaskFails(f) ==
  /\ at = "transferring"
  /\ task[f] = "running"
  /\ Set(f, "error")
  /\ UNCHANGED <<options, at, transfer, delete, todo, sent, done, failed, changed, writes,
                 deletes, published, local, remote, got, plan, guard, abort, report>>

(* spawn_download_task: write_file succeeds and the tracker learns of it ... *)
WriteLocal(f) ==
  /\ at = "transferring" /\ Pull
  /\ task[f] = "running"
  /\ Set(f, "written")
  /\ writes' = writes \cup {f}
  /\ local' = local \cup ({f} \ Databases)
  /\ UNCHANGED <<options, at, transfer, delete, todo, sent, done, failed, changed, deletes,
                 published, remote, got, plan, guard, abort, report>>

(* ... or it fails, and says whether the file changed all the same. *)
WriteLocalFails(f) ==
  /\ at = "transferring" /\ Pull
  /\ task[f] = "running" /\ f \notin Databases
  /\ Set(f, "error_changed")
  /\ local' = local \cup {f}
  /\ UNCHANGED <<options, at, transfer, delete, todo, sent, done, failed, changed, writes,
                 deletes, published, remote, got, plan, guard, abort, report>>

(* expect_eof, after the file was written. *)
EndDownload(f) ==
  /\ at = "transferring"
  /\ task[f] = "written"
  /\ \/ Set(f, "ok")
     \/ Set(f, IF Applied({f}, published) # {} THEN "error_changed" ELSE "error")
  /\ UNCHANGED <<options, at, transfer, delete, todo, sent, done, failed, changed, writes,
                 deletes, published, local, remote, got, plan, guard, abort, report>>

(* spawn_upload_task: the request is on its way. *)
StartUpload(f) ==
  /\ at = "transferring" /\ Push
  /\ task[f] = "running"
  /\ Set(f, "sending")
  /\ sent' = sent \cup {f}
  /\ UNCHANGED <<options, at, transfer, delete, todo, done, failed, changed, writes, deletes,
                 published, local, remote, got, plan, guard, abort, report>>

(* Mutant: an upload that failed is taken not to have arrived. *)
EndUploadUnsent(f) ==
  /\ at = "transferring"
  /\ task[f] = "sending"
  /\ \/ f \in got /\ Set(f, "ok")
     \/ Set(f, "error")
  /\ UNCHANGED <<options, at, transfer, delete, todo, sent, done, failed, changed, writes,
                 deletes, published, local, remote, got, plan, guard, abort, report>>

EndUpload(f) ==
  /\ at = "transferring"
  /\ task[f] = "sending"
  /\ \/ f \in got /\ Set(f, "ok")
     \/ Set(f, "error_changed")
  /\ UNCHANGED <<options, at, transfer, delete, todo, sent, done, failed, changed, writes,
                 deletes, published, local, remote, got, plan, guard, abort, report>>

(* The server's upload handler replaces the file, or stages it, as soon as *)
(* it has all bytes, whether or not the client still waits.                *)
RemoteWrite(f) ==
  /\ f \in sent \ got
  /\ got' = got \cup {f}
  /\ remote' = remote \cup ({f} \ Databases)
  /\ UNCHANGED <<options, at, transfer, delete, todo, task, sent, done, failed, changed, writes,
                 deletes, published, local, plan, guard, abort, report>>

(* Mutant: only the first error tells whether the target changed. *)
JoinTaskFirstError(f) ==
  /\ at = "transferring"
  /\ task[f] \in Ended
  /\ failed' = (failed \/ task[f] # "ok")
  /\ changed' = (changed \/ (task[f] = "error_changed" /\ ~failed) \/ (Push /\ task[f] = "ok"))
  /\ IF failed' \/ todo = {}
       THEN Set(f, "joined") /\ UNCHANGED todo
       ELSE \E next \in todo :
              /\ task' = [task EXCEPT ![f] = "joined", ![next] = "running"]
              /\ todo' = todo \ {next}
  /\ UNCHANGED <<options, at, transfer, delete, sent, done, writes, deletes, published, local,
                 remote, got, plan, guard, abort, report>>

(* join_next: one task less, and a new one unless something has failed.    *)
(* The order of the files is left open.                                    *)
JoinTask(f) ==
  /\ at = "transferring"
  /\ task[f] \in Ended
  /\ failed' = (failed \/ task[f] # "ok")
  /\ changed' = (changed \/ task[f] = "error_changed" \/ (Push /\ task[f] = "ok"))
  /\ IF failed' \/ todo = {}
       THEN Set(f, "joined") /\ UNCHANGED todo
       ELSE \E next \in todo :
              /\ task' = [task EXCEPT ![f] = "joined", ![next] = "running"]
              /\ todo' = todo \ {next}
  /\ UNCHANGED <<options, at, transfer, delete, sent, done, writes, deletes, published, local,
                 remote, got, plan, guard, abort, report>>

InFlight == {f \in Files : task[f] \notin {"none", "joined"}}

(* Mutant: the error is forgotten when the tasks are joined. *)
TransfersDoneAnyhow ==
  /\ at = "transferring" /\ ~options.bundle
  /\ InFlight = {}
  /\ at' = "deleting"
  /\ UNCHANGED <<options, progress, changed, plan, guard, abort, report>>

TransfersDone ==
  /\ at = "transferring" /\ ~options.bundle
  /\ InFlight = {} /\ ~failed
  /\ at' = "deleting"
  /\ UNCHANGED <<options, progress, changed, plan, guard, abort, report>>

TransfersFailed ==
  /\ at = "transferring" /\ ~options.bundle
  /\ InFlight = {} /\ failed
  /\ FailWith(changed)
  /\ UNCHANGED <<options, progress, changed, plan>>

-----------------------------------------------------------------------------
(* Transfers as a bundle.                                                  *)

(* write_bundle_to_workspace: the next file of the stream is written ... *)
BundleWrite(f) ==
  /\ at = "transferring" /\ Pull /\ options.bundle
  /\ f \in todo
  /\ todo' = todo \ {f}
  /\ writes' = writes \cup {f}
  /\ local' = local \cup ({f} \ Databases)
  /\ UNCHANGED <<options, at, transfer, delete, task, sent, done, failed, changed, deletes,
                 published, remote, got, plan, guard, abort, report>>

(* ... or its write fails after it changed the file ... *)
BundleWriteFails(f) ==
  /\ at = "transferring" /\ Pull /\ options.bundle
  /\ f \in todo \ Databases
  /\ local' = local \cup {f}
  /\ FailWith(TRUE)
  /\ UNCHANGED <<options, transfer, delete, todo, task, sent, done, failed, writes, deletes,
                 published, remote, got, changed, plan>>

(* ... or the stream cannot be had, ends early or has too much.            *)
BundleBroken ==
  /\ at = "transferring" /\ Pull /\ options.bundle
  /\ transfer # {}
  /\ FailWith(FALSE)
  /\ UNCHANGED <<options, progress, changed, plan>>

(* Mutant: the progress is reported before the file is copied. *)
CopyFileReportedFirst(f) ==
  /\ at = "transferring" /\ Push /\ options.bundle /\ ~failed
  /\ f \in todo
  /\ IF f \in done THEN sent' = sent \cup {f} /\ todo' = todo \ {f} /\ UNCHANGED done
     ELSE done' = done \cup {f} /\ UNCHANGED <<sent, todo>>
  /\ UNCHANGED <<options, at, transfer, delete, task, failed, changed, writes, deletes,
                 published, local, remote, got, plan, guard, abort, report>>

(* write_bundle_upload copies the next file into the body: its bytes are   *)
(* on their way, and the progress is reported after a check that the file  *)
(* has no more of them.                                                    *)
CopyFile(f) ==
  /\ at = "transferring" /\ Push /\ options.bundle /\ ~failed
  /\ f \in todo
  /\ todo' = todo \ {f}
  /\ sent' = sent \cup {f}
  /\ done' = done \cup {f}
  /\ UNCHANGED <<options, at, transfer, delete, task, failed, changed, writes, deletes,
                 published, local, remote, got, plan, guard, abort, report>>

(* A file that has grown since the scan fails that check. *)
CopyGrown(f) ==
  /\ at = "transferring" /\ Push /\ options.bundle /\ ~failed
  /\ f \in todo
  /\ todo' = todo \ {f}
  /\ sent' = sent \cup {f}
  /\ failed' = TRUE
  /\ UNCHANGED <<options, at, transfer, delete, task, done, changed, writes, deletes,
                 published, local, remote, got, plan, guard, abort, report>>

(* The upload or its writer ended with an error, whatever had been copied. *)
UploadFailed ==
  /\ at = "transferring" /\ Push /\ options.bundle
  /\ transfer # {}
  /\ FailWith(done # {})
  /\ UNCHANGED <<options, progress, changed, plan>>

(* The terminator was read or written and, for a push, the server has      *)
(* answered that it has every file.                                        *)
BundleDone ==
  /\ at = "transferring" /\ options.bundle
  /\ todo = {} /\ ~failed
  /\ Push => transfer \subseteq got
  /\ at' = "deleting"
  /\ UNCHANGED <<options, progress, changed, plan, guard, abort, report>>

-----------------------------------------------------------------------------
(* Deletions and commit.                                                   *)

(* delete_file of the workspace leaves database files to the publication. *)
DeleteLocal(p) ==
  /\ at = "deleting" /\ Pull
  /\ p \in delete \ deletes
  /\ deletes' = deletes \cup {p}
  /\ local' = local \cup ({p} \ Databases)
  /\ UNCHANGED <<options, at, transfer, delete, todo, task, sent, done, failed, changed, writes,
                 published, remote, got, plan, guard, abort, report>>

DeleteLocalFails(p) ==
  /\ at = "deleting" /\ Pull
  /\ p \in delete \ (deletes \cup Databases)
  /\ \E c \in BOOLEAN :
       /\ local' = IF c THEN local \cup {p} ELSE local
       /\ FailWith(c)
  /\ UNCHANGED <<options, transfer, delete, todo, task, sent, done, failed, writes, deletes,
                 published, remote, got, changed, plan>>

(* workspace.commit() publishes every namespace ... *)
CommitLocal ==
  LET all == (transfer \cup delete) \cap Databases IN
  /\ at = "deleting" /\ Pull
  /\ deletes = delete
  /\ published' = all
  /\ local' = local \cup all
  /\ Conclude("ok", Applied(writes \cup deletes, all), FALSE)
  /\ UNCHANGED <<options, transfer, delete, todo, task, sent, done, failed, writes, deletes,
                 remote, got, changed, plan>>

(* ... or some of them; the error says whether anything changed, a         *)
(* namespace that could not be restored included.                          *)
CommitLocalFails(some, lost) ==
  LET all == (transfer \cup delete) \cap Databases IN
  /\ at = "deleting" /\ Pull
  /\ deletes = delete
  /\ some \subseteq all /\ lost \subseteq all \ some
  /\ published' = some
  /\ local' = local \cup some \cup lost
  /\ Conclude("failed", Applied(writes \cup deletes, some), some \cup lost # {})
  /\ UNCHANGED <<options, transfer, delete, todo, task, sent, done, failed, writes, deletes,
                 remote, got, changed, plan>>

(* The commit request: the server deletes and publishes, all or, when it   *)
(* fails, some; if it is refused or never arrives, nothing happens.        *)
CommitRemote(some) ==
  LET all == delete \cup (transfer \cap Databases) IN
  /\ at = "deleting" /\ Push
  /\ plan = "open"
  /\ some \subseteq all
  /\ at' = "committing"
  /\ remote' = remote \cup some
  /\ plan' = "gone"
  /\ deletes' = delete \cap some
  /\ failed' = (some # all)
  /\ UNCHANGED <<options, transfer, delete, todo, task, sent, done, changed, writes, published,
                 local, got, guard, abort, report>>

CommitAnswered ==
  /\ at = "committing" /\ ~failed
  /\ Conclude("ok", {}, FALSE)
  /\ UNCHANGED <<options, progress, changed, plan>>

(* The commit failed, or its answer is lost. *)
CommitFailed ==
  /\ at \in {"deleting", "committing"} /\ Push
  /\ FailWith(transfer # {} \/ delete # {})
  /\ UNCHANGED <<options, progress, changed, plan>>

-----------------------------------------------------------------------------

(* The server's side of an abort, and of a plan that lives too long.       *)
PlanGone ==
  /\ plan = "open"
  /\ at # "start"
  /\ plan' = "gone"
  /\ UNCHANGED <<options, at, progress, changed, guard, abort, report>>

Next ==
  \/ FailEarly \/ OpenPlan \/ ReceivePlan \/ RejectPlan
  \/ \E files, batch \in SUBSET Files, extra \in SUBSET Extra : AcceptPlan(files, extra, batch)
  \/ \E f \in Files :
       \/ TaskFails(f) \/ WriteLocal(f) \/ WriteLocalFails(f) \/ EndDownload(f)
       \/ StartUpload(f) \/ EndUpload(f) \/ RemoteWrite(f) \/ JoinTask(f)
       \/ BundleWrite(f) \/ BundleWriteFails(f) \/ CopyFile(f) \/ CopyGrown(f)
  \/ TransfersDone \/ TransfersFailed
  \/ BundleBroken \/ UploadFailed \/ BundleDone
  \/ \E p \in Extra : DeleteLocal(p) \/ DeleteLocalFails(p)
  \/ CommitLocal
  \/ \E some, lost \in SUBSET Databases : CommitLocalFails(some, lost)
  \/ \E some \in SUBSET Paths : CommitRemote(some)
  \/ CommitAnswered \/ CommitFailed
  \/ Released \/ Cancel \/ PlanGone

Spec == Init /\ [][Next]_vars
-----------------------------------------------------------------------------
(* Properties.                                                             *)

Reported == at = "over" /\ report.outcome \in {"ok", "failed"}

(* "The engine carries local changes in its success and failure results":  *)
(* a host that is told of no change has none, what is counted as applied   *)
(* did change (staged bytes do not count), a success counts everything,    *)
(* and nothing changes after the call has returned.                        *)
LocalChangesReported ==
  Reported =>
    /\ report.applied \subseteq local
    /\ Pull /\ local # {} => report.applied # {} \/ report.changed
    /\ Pull /\ report.outcome = "ok" => report.applied = local
    /\ Push => local = {}

GrownInBundle == IF options.bundle THEN sent \ done ELSE {}

(* A push that fails without remote_maybe_changed has changed nothing on   *)
(* the server and never will, even by requests that are still being        *)
(* handled; except for a bundled file that had grown since the scan.       *)
RemoteChangesReported ==
  Reported /\ Push /\ report.outcome = "failed" /\ ~report.changed =>
    remote \subseteq GrownInBundle

(* "Releases remote storage guards on success, error, and task             *)
(* cancellation": a call that has received a plan with databases never     *)
(* returns, fails or is dropped with the plan open and no abort sent.      *)
GuardReleased ==
  [][at \notin {"start", "requested"} /\ at' = "over" /\ options.databases =>
       plan' = "gone" \/ abort']_vars

(* "Apply Mirror deletions after transfer": nothing is deleted on either   *)
(* side before every planned file has arrived there.                       *)
DeletionsLast ==
  (local \cup remote) \cap Extra # {} =>
    transfer \subseteq IF Pull THEN writes ELSE got
=============================================================================
