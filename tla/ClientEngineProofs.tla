------------------------- MODULE ClientEngineProofs -------------------------
(***************************************************************************)
(* Proofs about module ClientEngine: its type invariant, what a call tells *)
(* its host about local and remote changes, the order of transfers and     *)
(* deletions, and the release of the plan on the server.                   *)
(***************************************************************************)
EXTENDS ClientEngine, FiniteSetTheorems, TLAPS

-----------------------------------------------------------------------------
(* The inductive invariant.                                                *)

(* Nothing has happened before the plan is accepted.                       *)
Untouched ==
  at \in {"start", "requested", "planned"} =>
    /\ transfer = {} /\ delete = {} /\ todo = {}
    /\ \A f \in Files : task[f] = "none"
    /\ sent = {} /\ done = {} /\ got = {}
    /\ failed = FALSE /\ changed = FALSE
    /\ writes = {} /\ deletes = {} /\ published = {}
    /\ local = {} /\ remote = {}

Landed == IF Pull THEN writes ELSE got

(* A task exists for exactly the files that have been started without a    *)
(* bundle, one that ended well has its file on the target, and one that    *)
(* has sent its file is under way or has set remote_maybe_changed.         *)
Tasks ==
  \A f \in Files :
    /\ task[f] # "none" => ~options.bundle /\ f \in transfer \ todo
    /\ ~options.bundle /\ f \in transfer \ todo => task[f] # "none"
    /\ task[f] = "written" => Pull /\ f \in writes
    /\ task[f] = "sending" => Push /\ f \in sent
    /\ task[f] = "ok" => f \in Landed
    /\ task[f] = "joined" /\ ~failed => f \in Landed
    /\ f \in sent /\ ~options.bundle =>
         task[f] \in {"sending", "ok", "error_changed"} \/ (task[f] = "joined" /\ changed)

(* The join loop does not stop with files left unless one has failed.      *)
Queue ==
  at = "transferring" /\ ~options.bundle /\ todo # {} =>
    failed \/ \E f \in Files : task[f] \notin {"none", "joined"}

(* A bundle that is read leaves nothing behind, and only tasks set the flag. *)
Bundled ==
  /\ options.bundle /\ Pull => transfer \ todo \subseteq writes
  /\ options.bundle => ~changed
  /\ Pull /\ ~failed => ~changed

(* The deletions begin when every planned file is on the target.           *)
Arrived ==
  /\ at \in {"deleting", "committing"} =>
       /\ transfer \subseteq Landed
       /\ \A f \in Files : task[f] \in {"none", "joined"}
  /\ at = "deleting" => ~failed
  /\ at = "committing" => Push /\ plan = "gone"

(* The tracker lags behind the workspace only by what an error_changed     *)
(* task, or the flag it has set, accounts for.                             *)
LocalSide ==
  /\ Push => local = {} /\ writes = {}
  /\ at \in {"transferring", "deleting"} =>
       /\ published = {}
       /\ Pull => (writes \cup deletes) \ Databases \subseteq local
       /\ Pull => \A p \in local :
            \/ p \in (writes \cup deletes) \ Databases
            \/ changed
            \/ p \in Files /\ task[p] = "error_changed"

(* Nothing is sent by a pull, and before the commit the server has changed *)
(* only what it has received.                                              *)
RemoteSide ==
  /\ Pull => sent = {}
  /\ remote \subseteq transfer \cup delete
  /\ at \in {"transferring", "deleting"} => remote \subseteq got

(* The plan is guarded from its arrival to its release.                    *)
Guarded ==
  /\ at \in {"planned", "transferring", "deleting", "committing"} /\ options.databases => guard
  /\ at = "releasing" => abort
  /\ at = "over" /\ options.databases /\ sent # {} => plan = "gone" \/ abort

(* What the host is told stays true, requests still being handled included. *)
Told ==
  /\ at \in {"releasing", "over"} <=> report.outcome # "none"
  /\ report.outcome \in {"ok", "failed"} =>
       /\ report.applied \subseteq local
       /\ Pull /\ local # {} => report.applied # {} \/ report.changed
       /\ Pull /\ report.outcome = "ok" => report.applied = local
  /\ Push /\ report.outcome = "failed" /\ ~report.changed =>
       sent \cup remote \subseteq GrownInBundle

IInv ==
  /\ TypeOK /\ Untouched /\ Tasks /\ Queue /\ Bundled /\ Arrived
  /\ LocalSide /\ RemoteSide /\ Guarded /\ Told /\ DeletionsLast

-----------------------------------------------------------------------------
(* One lemma per action. *)

(* A call that fails before it has a plan has changed nothing.             *)
LEMMA FailEarlyKeeps ==
  ASSUME IInv, FailEarly
  PROVE  IInv'
<1>1. TypeOK'
  BY DEF IInv, FailEarly, Conclude, progress, TypeOK, Options, Stages, TaskStates,
         Paths, Push
<1>2. Guarded'
  BY DEF IInv, FailEarly, Conclude, progress, Guarded, Untouched, Push
<1>3. Told'
  BY DEF IInv, FailEarly, Conclude, progress, Told, GrownInBundle, Pull, Push, Untouched
<1>4. Untouched' /\ Tasks' /\ Queue' /\ Bundled' /\ Arrived'
  BY DEF IInv, FailEarly, Conclude, progress, Untouched, Push, Tasks, Landed, Pull,
         TypeOK, Options, TaskStates, Queue, Bundled, Arrived
<1>5. LocalSide' /\ RemoteSide' /\ DeletionsLast'
  BY EngineAssumption DEF IInv, FailEarly, Conclude, progress, LocalSide, Pull, Push,
                          RemoteSide, DeletionsLast, Paths
<1> QED BY <1>1, <1>2, <1>3, <1>4, <1>5 DEF IInv

(* The request for a plan.                                                 *)
LEMMA OpenPlanKeeps ==
  ASSUME IInv, OpenPlan
  PROVE  IInv'
<1>1. TypeOK'
  BY DEF IInv, OpenPlan, progress, TypeOK, Options, Stages, TaskStates, Paths
<1>2. Untouched' /\ Tasks' /\ Queue' /\ Bundled' /\ Arrived'
  BY DEF IInv, OpenPlan, progress, Untouched, Tasks, Landed, Pull, Push, TypeOK,
         Options, TaskStates, Queue, Bundled, Arrived
<1>3. LocalSide' /\ RemoteSide' /\ Guarded' /\ Told' /\ DeletionsLast'
  BY EngineAssumption DEF IInv, OpenPlan, progress, LocalSide, Pull, Push, RemoteSide,
                          Guarded, Told, GrownInBundle, DeletionsLast, Paths
<1> QED BY <1>1, <1>2, <1>3 DEF IInv

(* The plan arrives: from here on it is guarded.                           *)
LEMMA ReceivePlanKeeps ==
  ASSUME IInv, ReceivePlan
  PROVE  IInv'
<1>1. TypeOK'
  BY DEF IInv, ReceivePlan, progress, TypeOK, Options, Stages, TaskStates, Paths
<1>2. Untouched' /\ Tasks' /\ Queue' /\ Bundled' /\ Arrived'
  BY DEF IInv, ReceivePlan, progress, Untouched, Tasks, Landed, Pull, Push, TypeOK,
         Options, TaskStates, Queue, Bundled, Arrived
<1>3. LocalSide' /\ RemoteSide' /\ Guarded' /\ Told' /\ DeletionsLast'
  BY EngineAssumption DEF IInv, ReceivePlan, progress, LocalSide, Pull, Push,
                          RemoteSide, Guarded, Told, GrownInBundle, DeletionsLast, Paths
<1> QED BY <1>1, <1>2, <1>3 DEF IInv

(* The plan is refused, with nothing done and an abort sent.               *)
LEMMA RejectPlanKeeps ==
  ASSUME IInv, RejectPlan
  PROVE  IInv'
<1>1. TypeOK'
  BY DEF IInv, RejectPlan, progress, TypeOK, Options, Stages, TaskStates, Paths
<1>2. Told'
  BY DEF IInv, RejectPlan, progress, Told, GrownInBundle, Pull, Push, Untouched
<1>3. Untouched' /\ Tasks' /\ Queue' /\ Bundled' /\ Arrived'
  BY DEF IInv, RejectPlan, progress, Untouched, Tasks, Landed, Pull, Push, TypeOK,
         Options, TaskStates, Queue, Bundled, Arrived
<1>4. LocalSide' /\ RemoteSide' /\ Guarded' /\ DeletionsLast'
  BY EngineAssumption DEF IInv, RejectPlan, progress, LocalSide, Pull, Push, RemoteSide,
                          Guarded, DeletionsLast, Paths
<1> QED BY <1>1, <1>2, <1>3, <1>4 DEF IInv

(* Accepting the plan starts the first tasks: with files left over, at     *)
(* least one is running.                                                   *)
LEMMA AcceptPlanKeeps ==
  ASSUME IInv, NEW files \in SUBSET Files, NEW batch \in SUBSET Files,
         NEW extra \in SUBSET Extra, AcceptPlan(files, extra, batch)
  PROVE  IInv'
<1> USE DEF AcceptPlan
<1>1. TypeOK'
  BY DEF IInv, TypeOK, Untouched, Options, Stages, TaskStates
<1>2. Tasks'
  BY EngineAssumption DEF IInv, Untouched, Tasks, Landed, Pull, Push
<1>3. Queue'
  <2> SUFFICES ASSUME ~options.bundle, files \ batch # {}
               PROVE  batch # {}
    BY DEF Queue
  <2>1. IsFiniteSet(files) /\ files # {}
    BY EngineAssumption, FS_Subset
  <2>2. Cardinality(files) \in Nat /\ Cardinality(files) # 0
    BY <2>1, FS_CardinalityType, FS_EmptySet
  <2>3. Cardinality(batch) # 0
    BY <2>2, EngineAssumption
  <2> QED BY <2>3, FS_EmptySet
<1>4. Untouched' /\ Bundled' /\ Arrived' /\ LocalSide' /\ RemoteSide'
  BY DEF IInv, Untouched, Bundled, Arrived, LocalSide, RemoteSide, Pull, Push
<1>5. Guarded' /\ Told' /\ DeletionsLast'
  BY DEF IInv, Untouched, Guarded, Told, DeletionsLast, GrownInBundle, Pull, Push
<1> QED BY <1>1, <1>2, <1>3, <1>4, <1>5 DEF IInv

(* A task that fails before it could change anything.                      *)
LEMMA TaskFailsKeeps ==
  ASSUME NEW f \in Files, IInv, TaskFails(f)
  PROVE  IInv'
<1>1. TypeOK'
  BY DEF IInv, TaskFails, Set, TypeOK, Options, Stages, TaskStates, Paths
<1>2. Untouched' /\ Tasks' /\ Queue' /\ Bundled' /\ Arrived'
  BY DEF IInv, TaskFails, Set, Untouched, Tasks, Landed, Pull, Push, TypeOK, Options,
         TaskStates, Queue, Bundled, Arrived
<1>3. LocalSide' /\ RemoteSide' /\ Guarded' /\ Told' /\ DeletionsLast'
  BY EngineAssumption DEF IInv, TaskFails, Set, LocalSide, Pull, Push, RemoteSide,
                          Guarded, Told, GrownInBundle, DeletionsLast, Paths
<1> QED BY <1>1, <1>2, <1>3 DEF IInv

(* A downloaded file and its entry in the tracker.                         *)
LEMMA WriteLocalKeeps ==
  ASSUME NEW f \in Files, IInv, WriteLocal(f)
  PROVE  IInv'
<1>1. TypeOK'
  BY DEF IInv, WriteLocal, Set, TypeOK, Options, Stages, TaskStates, Paths, Tasks
<1>2. Untouched' /\ Tasks' /\ Queue' /\ Bundled' /\ Arrived'
  BY DEF IInv, WriteLocal, Set, Untouched, Tasks, Landed, Pull, Push, TypeOK, Options,
         TaskStates, Queue, Bundled, Arrived
<1>3. LocalSide' /\ RemoteSide' /\ Guarded' /\ Told' /\ DeletionsLast'
  BY EngineAssumption DEF IInv, WriteLocal, Set, LocalSide, Pull, Push, RemoteSide,
                          Guarded, Told, GrownInBundle, DeletionsLast, Paths
<1> QED BY <1>1, <1>2, <1>3 DEF IInv

(* A failed write that changed the file is remembered by its task.         *)
LEMMA WriteLocalFailsKeeps ==
  ASSUME NEW f \in Files, IInv, WriteLocalFails(f)
  PROVE  IInv'
<1>1. TypeOK'
  BY DEF IInv, WriteLocalFails, Set, TypeOK, Options, Stages, TaskStates, Paths
<1>2. LocalSide'
  BY DEF IInv, WriteLocalFails, Set, LocalSide, Pull, Push, TypeOK, Options
<1>3. Untouched' /\ Tasks' /\ Queue' /\ Bundled' /\ Arrived'
  BY DEF IInv, WriteLocalFails, Set, Untouched, Tasks, Landed, Pull, Push, TypeOK,
         Options, TaskStates, Queue, Bundled, Arrived
<1>4. RemoteSide' /\ Guarded' /\ Told' /\ DeletionsLast'
  BY EngineAssumption DEF IInv, WriteLocalFails, Set, RemoteSide, Pull, Guarded, Told,
                          GrownInBundle, Push, DeletionsLast, Paths
<1> QED BY <1>1, <1>2, <1>3, <1>4 DEF IInv

(* The end of a download, well or after the file was written.              *)
LEMMA EndDownloadKeeps ==
  ASSUME NEW f \in Files, IInv, EndDownload(f)
  PROVE  IInv'
<1>1. TypeOK'
  BY DEF IInv, EndDownload, Set, Applied, TypeOK, Options, Stages, TaskStates, Paths
<1>2. Queue'
  BY DEF IInv, EndDownload, Set, Applied, Queue, TypeOK, Options
<1>3. LocalSide'
  BY DEF IInv, EndDownload, Set, Applied, LocalSide, Pull, Push, TypeOK, Options, Tasks
<1>4. Untouched' /\ Tasks' /\ Bundled' /\ Arrived'
  BY DEF IInv, EndDownload, Set, Applied, Untouched, Tasks, Landed, Pull, Push, TypeOK,
         Options, TaskStates, Bundled, Arrived
<1>5. RemoteSide' /\ Guarded' /\ Told' /\ DeletionsLast'
  BY EngineAssumption DEF IInv, EndDownload, Set, Applied, RemoteSide, Pull, Guarded,
                          Told, GrownInBundle, Push, DeletionsLast, Paths
<1> QED BY <1>1, <1>2, <1>3, <1>4, <1>5 DEF IInv

(* An upload leaves: the server may have the file from now on.             *)
LEMMA StartUploadKeeps ==
  ASSUME NEW f \in Files, IInv, StartUpload(f)
  PROVE  IInv'
<1>1. TypeOK'
  BY DEF IInv, StartUpload, Set, TypeOK, Options, Stages, TaskStates, Paths, Tasks
<1>2. RemoteSide'
  BY DEF IInv, StartUpload, Set, RemoteSide, Pull, TypeOK, Options, Push
<1>3. Untouched' /\ Tasks' /\ Queue' /\ Bundled' /\ Arrived'
  BY DEF IInv, StartUpload, Set, Untouched, Tasks, Landed, Pull, Push, TypeOK, Options,
         TaskStates, Queue, Bundled, Arrived
<1>4. LocalSide' /\ Guarded' /\ Told' /\ DeletionsLast'
  BY EngineAssumption DEF IInv, StartUpload, Set, LocalSide, Pull, Push, Guarded, Told,
                          GrownInBundle, DeletionsLast, Paths
<1> QED BY <1>1, <1>2, <1>3, <1>4 DEF IInv

(* An upload that ended without its answer may have arrived.               *)
LEMMA EndUploadKeeps ==
  ASSUME NEW f \in Files, IInv, EndUpload(f)
  PROVE  IInv'
<1>1. TypeOK'
  BY DEF IInv, EndUpload, Set, TypeOK, Options, Stages, TaskStates, Paths
<1>2. Queue'
  BY DEF IInv, EndUpload, Set, Queue, TypeOK, Options
<1>3. LocalSide'
  BY DEF IInv, EndUpload, Set, LocalSide, Pull, Push, TypeOK, Options, Tasks
<1>4. Untouched' /\ Tasks' /\ Bundled' /\ Arrived'
  BY DEF IInv, EndUpload, Set, Untouched, Tasks, Landed, Pull, Push, TypeOK, Options,
         TaskStates, Bundled, Arrived
<1>5. RemoteSide' /\ Guarded' /\ Told' /\ DeletionsLast'
  BY EngineAssumption DEF IInv, EndUpload, Set, RemoteSide, Pull, Guarded, Told,
                          GrownInBundle, Push, DeletionsLast, Paths
<1> QED BY <1>1, <1>2, <1>3, <1>4, <1>5 DEF IInv

(* The server receives what was sent, possibly after the call is over.     *)
LEMMA RemoteWriteKeeps ==
  ASSUME NEW f \in Files, IInv, RemoteWrite(f)
  PROVE  IInv'
<1>1. TypeOK'
  BY DEF IInv, RemoteWrite, TypeOK, Options, Stages, TaskStates, Paths
<1>2. RemoteSide'
  BY DEF IInv, RemoteWrite, RemoteSide, Pull, TypeOK
<1>3. Untouched' /\ Tasks' /\ Queue' /\ Bundled' /\ Arrived'
  BY DEF IInv, RemoteWrite, Untouched, Tasks, Landed, Pull, Push, TypeOK, Options,
         TaskStates, Queue, Bundled, Arrived
<1>4. LocalSide' /\ Guarded' /\ Told' /\ DeletionsLast'
  BY EngineAssumption DEF IInv, RemoteWrite, LocalSide, Pull, Push, Guarded, Told,
                          GrownInBundle, DeletionsLast, Paths
<1> QED BY <1>1, <1>2, <1>3, <1>4 DEF IInv

(* join_next: what the joined task has done is in the flags, and the next  *)
(* task takes its place while nothing has failed.                          *)
LEMMA JoinTaskKeeps ==
  ASSUME IInv, NEW f \in Files, JoinTask(f)
  PROVE  IInv'
<1>1. /\ ~options.bundle /\ f \in transfer \ todo
      /\ task[f] \in Ended
      /\ failed' = (failed \/ task[f] # "ok")
      /\ changed' = (changed \/ task[f] = "error_changed" \/ (Push /\ task[f] = "ok"))
  BY DEF IInv, Tasks, JoinTask, Ended
<1>2. PICK next \in Files :
        /\ IF failed' \/ todo = {} THEN next = f ELSE next \in todo \ {f}
        /\ todo' = todo \ {next}
        /\ task' = [g \in Files |-> IF g = f THEN "joined"
                                    ELSE IF g = next THEN "running" ELSE task[g]]
  <2>1. CASE failed' \/ todo = {}
    BY <2>1, <1>1 DEF IInv, TypeOK, JoinTask, Set
  <2>2. CASE ~(failed' \/ todo = {})
    <3>1. PICK next \in todo : /\ task' = [task EXCEPT ![f] = "joined", ![next] = "running"]
                               /\ todo' = todo \ {next}
      BY <2>2 DEF JoinTask
    <3>2. next \in Files /\ next # f
      BY <1>1, <3>1 DEF IInv, TypeOK
    <3> QED BY <2>2, <3>1, <3>2 DEF IInv, TypeOK
  <2> QED BY <2>1, <2>2
<1>3. UNCHANGED <<options, at, transfer, delete, sent, done, writes, deletes, published, local,
                  remote, got, plan, guard, abort, report>> /\ at = "transferring"
  BY DEF JoinTask
<1>4. TypeOK'
  BY <1>1, <1>2, <1>3 DEF IInv, TypeOK, TaskStates, Options, Push
<1>5. Tasks'
  <2> SUFFICES ASSUME NEW g \in Files
               PROVE  /\ task'[g] # "none" => ~options.bundle /\ g \in transfer \ todo'
                      /\ ~options.bundle /\ g \in transfer \ todo' => task'[g] # "none"
                      /\ task'[g] = "written" => Pull /\ g \in writes
                      /\ task'[g] = "sending" => Push /\ g \in sent
                      /\ task'[g] = "ok" => g \in Landed
                      /\ task'[g] = "joined" /\ ~failed' => g \in Landed
                      /\ g \in sent /\ ~options.bundle =>
                           \/ task'[g] \in {"sending", "ok", "error_changed"}
                           \/ task'[g] = "joined" /\ changed'
    BY <1>3 DEF Tasks, Landed, Pull, Push
  <2>1. CASE g = f
    <3>1. task'[g] = "joined" /\ g \in transfer \ todo' /\ ~options.bundle
      BY <2>1, <1>1, <1>2 DEF IInv, TypeOK
    <3>2. ~failed' => g \in Landed
      BY <2>1, <1>1 DEF IInv, Tasks
    <3>3. g \in sent => changed'
      <4> SUFFICES ASSUME g \in sent PROVE changed'
        OBVIOUS
      <4>1. Push
        BY DEF IInv, RemoteSide, TypeOK, Options, Pull, Push
      <4>2. task[f] \in {"ok", "error_changed"}
        BY <2>1, <1>1 DEF IInv, Tasks, Ended
      <4> QED BY <4>1, <4>2, <1>1
    <3> QED BY <3>1, <3>2, <3>3
  <2>2. CASE g = next /\ g # f
    BY <2>2, <1>1, <1>2 DEF IInv, Tasks, TypeOK
  <2>3. CASE g # next /\ g # f
    <3>1. task'[g] = task[g] /\ (g \in todo' <=> g \in todo)
      BY <2>3, <1>2
    <3>2. (failed => failed') /\ (changed => changed')
      BY <1>1
    <3> QED BY <3>1, <3>2 DEF IInv, Tasks
  <2> QED BY <2>1, <2>2, <2>3
<1>6. Queue'
  BY <1>1, <1>2, <1>3 DEF Queue
<1>7. Bundled'
  <2>1. Pull /\ ~failed' => ~failed /\ task[f] = "ok" /\ ~Push
    BY <1>1 DEF Pull, Push
  <2>2. Pull /\ ~failed' => ~changed'
    BY <2>1, <1>1 DEF IInv, Bundled
  <2> QED BY <1>1, <1>3, <2>2 DEF IInv, Bundled, Pull
<1>8. LocalSide'
  <2> SUFFICES ASSUME Pull, NEW p \in local
               PROVE  \/ p \in (writes \cup deletes) \ Databases
                      \/ changed'
                      \/ p \in Files /\ task'[p] = "error_changed"
    BY <1>3 DEF IInv, LocalSide, Pull, Push
  <2>1. CASE changed \/ p \in (writes \cup deletes) \ Databases
    BY <2>1, <1>1
  <2>2. CASE p \in Files /\ task[p] = "error_changed"
    BY <2>2, <1>1, <1>2 DEF IInv, Tasks
  <2> QED BY <2>1, <2>2, <1>3 DEF IInv, LocalSide
<1>9. Untouched' /\ Arrived' /\ RemoteSide' /\ Guarded' /\ Told' /\ DeletionsLast'
  BY <1>3 DEF IInv, Untouched, Arrived, RemoteSide, Guarded, Told, DeletionsLast,
              GrownInBundle, Pull, Push
<1> QED BY <1>4, <1>5, <1>6, <1>7, <1>8, <1>9 DEF IInv

(* With every task joined and no error, every planned file has landed.     *)
LEMMA TransfersDoneKeeps ==
  ASSUME IInv, TransfersDone
  PROVE  IInv'
<1>1. TypeOK'
  BY DEF IInv, TransfersDone, InFlight, progress, TypeOK, Options, Stages, TaskStates,
         Paths
<1>2. Arrived'
  BY DEF IInv, TransfersDone, InFlight, progress, Arrived, Landed, Pull, Push, TypeOK,
         Options, Queue, Tasks
<1>3. Untouched' /\ Tasks' /\ Queue' /\ Bundled'
  BY DEF IInv, TransfersDone, InFlight, progress, Untouched, Tasks, Landed, Pull, Push,
         TypeOK, Options, TaskStates, Queue, Bundled
<1>4. LocalSide' /\ RemoteSide' /\ Guarded' /\ Told' /\ DeletionsLast'
  BY EngineAssumption DEF IInv, TransfersDone, InFlight, progress, LocalSide, Pull,
                          Push, RemoteSide, Guarded, Told, GrownInBundle, DeletionsLast,
                          Paths
<1> QED BY <1>1, <1>2, <1>3, <1>4 DEF IInv

(* With every task joined, the flag accounts for every change that the     *)
(* tracker does not list.                                                  *)
LEMMA TransfersFailedKeeps ==
  ASSUME IInv, TransfersFailed
  PROVE  IInv'
<1>1. TypeOK'
  BY DEF IInv, TransfersFailed, InFlight, FailWith, Conclude, Applied, progress, TypeOK,
         Options, Stages, TaskStates, Paths, Pull, Push
<1>2. Told'
  BY DEF IInv, TransfersFailed, InFlight, FailWith, Conclude, Applied, progress, Told,
         GrownInBundle, Pull, Push, TypeOK, Options, LocalSide, RemoteSide, Tasks
<1>3. Untouched' /\ Tasks' /\ Queue' /\ Bundled' /\ Arrived'
  BY DEF IInv, TransfersFailed, InFlight, FailWith, Conclude, Applied, progress,
         Untouched, Pull, Push, Tasks, Landed, TypeOK, Options, TaskStates, Queue,
         Bundled, Arrived
<1>4. LocalSide' /\ RemoteSide' /\ Guarded' /\ DeletionsLast'
  BY EngineAssumption DEF IInv, TransfersFailed, InFlight, FailWith, Conclude, Applied,
                          progress, LocalSide, Pull, Push, RemoteSide, Guarded,
                          DeletionsLast, Paths
<1> QED BY <1>1, <1>2, <1>3, <1>4 DEF IInv

(* The next file of a bundle.                                              *)
LEMMA BundleWriteKeeps ==
  ASSUME NEW f \in Files, IInv, BundleWrite(f)
  PROVE  IInv'
<1>1. TypeOK'
  BY DEF IInv, BundleWrite, TypeOK, Options, Stages, TaskStates, Paths
<1>2. Untouched' /\ Tasks' /\ Queue' /\ Bundled' /\ Arrived'
  BY DEF IInv, BundleWrite, Untouched, Tasks, Landed, Pull, Push, TypeOK, Options,
         TaskStates, Queue, Bundled, Arrived
<1>3. LocalSide' /\ RemoteSide' /\ Guarded' /\ Told' /\ DeletionsLast'
  BY EngineAssumption DEF IInv, BundleWrite, LocalSide, Pull, Push, RemoteSide, Guarded,
                          Told, GrownInBundle, DeletionsLast, Paths
<1> QED BY <1>1, <1>2, <1>3 DEF IInv

(* A file of the bundle that changed although its write failed.            *)
LEMMA BundleWriteFailsKeeps ==
  ASSUME NEW f \in Files, IInv, BundleWriteFails(f)
  PROVE  IInv'
<1>1. TypeOK'
  BY DEF IInv, BundleWriteFails, FailWith, Conclude, Applied, TypeOK, Options, Stages,
         TaskStates, Paths, Pull, Push
<1>2. Told'
  BY DEF IInv, BundleWriteFails, FailWith, Conclude, Applied, Told, GrownInBundle, Pull,
         Push, TypeOK, Options, LocalSide
<1>3. Untouched' /\ Tasks' /\ Queue' /\ Bundled' /\ Arrived'
  BY DEF IInv, BundleWriteFails, FailWith, Conclude, Applied, Untouched, Pull, Push,
         Tasks, Landed, TypeOK, Options, TaskStates, Queue, Bundled, Arrived
<1>4. LocalSide' /\ RemoteSide' /\ Guarded' /\ DeletionsLast'
  BY EngineAssumption DEF IInv, BundleWriteFails, FailWith, Conclude, Applied,
                          LocalSide, Pull, Push, RemoteSide, Guarded, DeletionsLast,
                          Paths
<1> QED BY <1>1, <1>2, <1>3, <1>4 DEF IInv

(* A bundle that breaks leaves the tracker exact.                          *)
LEMMA BundleBrokenKeeps ==
  ASSUME IInv, BundleBroken
  PROVE  IInv'
<1>1. TypeOK'
  BY DEF IInv, BundleBroken, FailWith, Conclude, Applied, progress, TypeOK, Options,
         Stages, TaskStates, Paths, Pull, Push
<1>2. Told'
  BY DEF IInv, BundleBroken, FailWith, Conclude, Applied, progress, Told, GrownInBundle,
         Pull, Push, TypeOK, Options, LocalSide, Bundled, Tasks
<1>3. Untouched' /\ Tasks' /\ Queue' /\ Bundled' /\ Arrived'
  BY DEF IInv, BundleBroken, FailWith, Conclude, Applied, progress, Untouched, Pull,
         Push, Tasks, Landed, TypeOK, Options, TaskStates, Queue, Bundled, Arrived
<1>4. LocalSide' /\ RemoteSide' /\ Guarded' /\ DeletionsLast'
  BY EngineAssumption DEF IInv, BundleBroken, FailWith, Conclude, Applied, progress,
                          LocalSide, Pull, Push, RemoteSide, Guarded, DeletionsLast,
                          Paths
<1> QED BY <1>1, <1>2, <1>3, <1>4 DEF IInv

(* The next file is copied into the upload.                                *)
LEMMA CopyFileKeeps ==
  ASSUME NEW f \in Files, IInv, CopyFile(f)
  PROVE  IInv'
<1>1. TypeOK'
  BY DEF IInv, CopyFile, TypeOK, Options, Stages, TaskStates, Paths
<1>2. Bundled'
  BY DEF IInv, CopyFile, Bundled, Pull, TypeOK, Options, Push
<1>3. RemoteSide'
  BY DEF IInv, CopyFile, RemoteSide, Pull, TypeOK, Options, Push
<1>4. Untouched' /\ Tasks' /\ Queue' /\ Arrived'
  BY DEF IInv, CopyFile, Untouched, Tasks, Landed, Pull, Push, TypeOK, Options,
         TaskStates, Queue, Arrived
<1>5. LocalSide' /\ Guarded' /\ Told' /\ DeletionsLast'
  BY EngineAssumption DEF IInv, CopyFile, LocalSide, Pull, Push, Guarded, Told,
                          GrownInBundle, DeletionsLast, Paths
<1> QED BY <1>1, <1>2, <1>3, <1>4, <1>5 DEF IInv

(* A grown file ends the upload after its bytes have left.                 *)
LEMMA CopyGrownKeeps ==
  ASSUME NEW f \in Files, IInv, CopyGrown(f)
  PROVE  IInv'
<1>1. TypeOK'
  BY DEF IInv, CopyGrown, TypeOK, Options, Stages, TaskStates, Paths
<1>2. Bundled'
  BY DEF IInv, CopyGrown, Bundled, Pull, TypeOK, Options, Push
<1>3. RemoteSide'
  BY DEF IInv, CopyGrown, RemoteSide, Pull, TypeOK, Options, Push
<1>4. Untouched' /\ Tasks' /\ Queue' /\ Arrived'
  BY DEF IInv, CopyGrown, Untouched, Tasks, Landed, Pull, Push, TypeOK, Options,
         TaskStates, Queue, Arrived
<1>5. LocalSide' /\ Guarded' /\ Told' /\ DeletionsLast'
  BY EngineAssumption DEF IInv, CopyGrown, LocalSide, Pull, Push, Guarded, Told,
                          GrownInBundle, DeletionsLast, Paths
<1> QED BY <1>1, <1>2, <1>3, <1>4, <1>5 DEF IInv

(* The upload fails: what was reported as done is what may have changed.   *)
LEMMA UploadFailedKeeps ==
  ASSUME IInv, UploadFailed
  PROVE  IInv'
<1>1. TypeOK'
  BY DEF IInv, UploadFailed, FailWith, Conclude, Applied, progress, TypeOK, Options,
         Stages, TaskStates, Paths, Pull, Push
<1>2. Told'
  BY DEF IInv, UploadFailed, FailWith, Conclude, Applied, progress, Told, GrownInBundle,
         Pull, Push, TypeOK, Options, LocalSide, RemoteSide
<1>3. Untouched' /\ Tasks' /\ Queue' /\ Bundled' /\ Arrived'
  BY DEF IInv, UploadFailed, FailWith, Conclude, Applied, progress, Untouched, Pull,
         Push, Tasks, Landed, TypeOK, Options, TaskStates, Queue, Bundled, Arrived
<1>4. LocalSide' /\ RemoteSide' /\ Guarded' /\ DeletionsLast'
  BY EngineAssumption DEF IInv, UploadFailed, FailWith, Conclude, Applied, progress,
                          LocalSide, Pull, Push, RemoteSide, Guarded, DeletionsLast,
                          Paths
<1> QED BY <1>1, <1>2, <1>3, <1>4 DEF IInv

(* The end of the bundle: every planned file has landed.                   *)
LEMMA BundleDoneKeeps ==
  ASSUME IInv, BundleDone
  PROVE  IInv'
<1>1. TypeOK'
  BY DEF IInv, BundleDone, progress, TypeOK, Options, Stages, TaskStates, Paths
<1>2. Arrived'
  BY DEF IInv, BundleDone, progress, Arrived, Landed, Pull, Push, TypeOK, Options,
         Bundled, Tasks
<1>3. Untouched' /\ Tasks' /\ Queue' /\ Bundled'
  BY DEF IInv, BundleDone, progress, Untouched, Tasks, Landed, Pull, Push, TypeOK,
         Options, TaskStates, Queue, Bundled
<1>4. LocalSide' /\ RemoteSide' /\ Guarded' /\ Told' /\ DeletionsLast'
  BY EngineAssumption DEF IInv, BundleDone, progress, LocalSide, Pull, Push, RemoteSide,
                          Guarded, Told, GrownInBundle, DeletionsLast, Paths
<1> QED BY <1>1, <1>2, <1>3, <1>4 DEF IInv

(* A deletion in the workspace, after every file has landed.               *)
LEMMA DeleteLocalKeeps ==
  ASSUME NEW p \in Extra, IInv, DeleteLocal(p)
  PROVE  IInv'
<1>1. TypeOK'
  BY DEF IInv, DeleteLocal, TypeOK, Options, Stages, TaskStates, Paths
<1>2. DeletionsLast'
  BY EngineAssumption DEF IInv, DeleteLocal, DeletionsLast, Pull, Paths, Arrived, Landed
<1>3. Untouched' /\ Tasks' /\ Queue' /\ Bundled' /\ Arrived'
  BY DEF IInv, DeleteLocal, Untouched, Tasks, Landed, Pull, Push, TypeOK, Options,
         TaskStates, Queue, Bundled, Arrived
<1>4. LocalSide' /\ RemoteSide' /\ Guarded' /\ Told'
  BY DEF IInv, DeleteLocal, LocalSide, Pull, Push, RemoteSide, Guarded, Told,
         GrownInBundle
<1> QED BY <1>1, <1>2, <1>3, <1>4 DEF IInv

(* A deletion that fails and says whether the file is gone all the same.   *)
LEMMA DeleteLocalFailsKeeps ==
  ASSUME NEW p \in Extra, IInv, DeleteLocalFails(p)
  PROVE  IInv'
<1>1. TypeOK'
  <2>1. PICK c \in BOOLEAN : /\ local' = IF c THEN local \cup {p} ELSE local
                            /\ FailWith(c)
    BY DEF DeleteLocalFails
  <2>2. Applied(writes \cup deletes, published) \subseteq Paths
    BY DEF IInv, TypeOK, Applied, Paths
  <2>3. report' \in [outcome : {"none", "ok", "failed", "cancelled"},
                    applied : SUBSET Paths, changed : BOOLEAN]
    BY <2>1, <2>2 DEF FailWith, Conclude
  <2>4. at' \in Stages /\ guard' \in BOOLEAN /\ abort' \in BOOLEAN /\ local' \subseteq Paths
    BY <2>1 DEF IInv, TypeOK, FailWith, Conclude, Stages, Paths
  <2> QED BY <2>3, <2>4 DEF IInv, TypeOK, DeleteLocalFails
<1>2. Told'
  BY DEF IInv, DeleteLocalFails, FailWith, Conclude, Applied, Told, GrownInBundle, Pull,
         Push, TypeOK, Options, LocalSide, Arrived, Bundled
<1>3. DeletionsLast'
  BY EngineAssumption DEF IInv, DeleteLocalFails, FailWith, Conclude, Applied,
                          DeletionsLast, Pull, Paths, Arrived, Landed, Push
<1>4. Untouched' /\ Tasks' /\ Queue' /\ Bundled' /\ Arrived'
  BY DEF IInv, DeleteLocalFails, FailWith, Conclude, Applied, Untouched, Pull, Push,
         Tasks, Landed, TypeOK, Options, TaskStates, Queue, Bundled, Arrived
<1>5. LocalSide' /\ RemoteSide' /\ Guarded'
  BY DEF IInv, DeleteLocalFails, FailWith, Conclude, Applied, LocalSide, Pull, Push,
         RemoteSide, Guarded
<1> QED BY <1>1, <1>2, <1>3, <1>4, <1>5 DEF IInv

(* The publication makes the staged files count, and nothing else.         *)
LEMMA CommitLocalKeeps ==
  ASSUME IInv, CommitLocal
  PROVE  IInv'
<1>1. TypeOK'
  BY EngineAssumption DEF IInv, CommitLocal, Conclude, Applied, TypeOK, Options, Stages,
                          TaskStates, Paths, Push
<1>2. Guarded'
  BY DEF IInv, CommitLocal, Conclude, Applied, Guarded, TypeOK, Options, Pull, Push
<1>3. Told'
  BY EngineAssumption DEF IInv, CommitLocal, Conclude, Applied, Told, GrownInBundle,
                          Pull, Push, TypeOK, Options, LocalSide, Arrived, Bundled,
                          Landed, Paths
<1>4. DeletionsLast'
  BY EngineAssumption DEF IInv, CommitLocal, Conclude, Applied, DeletionsLast, Pull,
                          Paths, Arrived, Landed, Push
<1>5. Untouched' /\ Tasks' /\ Queue' /\ Bundled' /\ Arrived'
  BY DEF IInv, CommitLocal, Conclude, Applied, Untouched, Push, Tasks, Landed, Pull,
         TypeOK, Options, TaskStates, Queue, Bundled, Arrived
<1>6. LocalSide' /\ RemoteSide'
  BY DEF IInv, CommitLocal, Conclude, Applied, LocalSide, Pull, Push, RemoteSide
<1> QED BY <1>1, <1>2, <1>3, <1>4, <1>5, <1>6 DEF IInv

(* A publication that fails half-way.                                      *)
LEMMA CommitLocalFailsKeeps ==
  ASSUME NEW some \in SUBSET Databases, NEW lost \in SUBSET Databases, IInv, CommitLocalFails(some, lost)
  PROVE  IInv'
<1>1. TypeOK'
  BY EngineAssumption DEF IInv, CommitLocalFails, Conclude, Applied, TypeOK, Options,
                          Stages, TaskStates, Paths, Push
<1>2. Told'
  BY DEF IInv, CommitLocalFails, Conclude, Applied, Told, GrownInBundle, Pull, Push,
         TypeOK, Options, LocalSide, Arrived, Bundled
<1>3. DeletionsLast'
  BY EngineAssumption DEF IInv, CommitLocalFails, Conclude, Applied, DeletionsLast,
                          Pull, Paths, Arrived, Landed, Push
<1>4. Untouched' /\ Tasks' /\ Queue' /\ Bundled' /\ Arrived'
  BY DEF IInv, CommitLocalFails, Conclude, Applied, Untouched, Push, Tasks, Landed,
         Pull, TypeOK, Options, TaskStates, Queue, Bundled, Arrived
<1>5. LocalSide' /\ RemoteSide' /\ Guarded'
  BY DEF IInv, CommitLocalFails, Conclude, Applied, LocalSide, Pull, Push, RemoteSide,
         Guarded
<1> QED BY <1>1, <1>2, <1>3, <1>4, <1>5 DEF IInv

(* The server's side of a commit.                                          *)
LEMMA CommitRemoteKeeps ==
  ASSUME NEW some \in SUBSET Paths, IInv, CommitRemote(some)
  PROVE  IInv'
<1>1. TypeOK'
  BY EngineAssumption DEF IInv, CommitRemote, TypeOK, Options, Stages, TaskStates, Paths
<1>2. Tasks'
  BY DEF IInv, CommitRemote, Tasks, Landed, Pull, Push, TypeOK, Options, TaskStates,
         Arrived
<1>3. Bundled'
  BY DEF IInv, CommitRemote, Bundled, Pull, TypeOK, Options, Push
<1>4. DeletionsLast'
  BY EngineAssumption DEF IInv, CommitRemote, DeletionsLast, Pull, Paths, Arrived,
                          Landed
<1>5. Untouched' /\ Queue' /\ Arrived'
  BY DEF IInv, CommitRemote, Untouched, Queue, Arrived, Landed, Pull, Push
<1>6. LocalSide' /\ RemoteSide' /\ Guarded' /\ Told'
  BY DEF IInv, CommitRemote, LocalSide, Pull, Push, RemoteSide, Guarded, Told,
         GrownInBundle
<1> QED BY <1>1, <1>2, <1>3, <1>4, <1>5, <1>6 DEF IInv

(* The answer to a commit: the plan is gone, and needs no release.         *)
LEMMA CommitAnsweredKeeps ==
  ASSUME IInv, CommitAnswered
  PROVE  IInv'
<1>1. TypeOK'
  BY EngineAssumption DEF IInv, CommitAnswered, Conclude, progress, TypeOK, Options,
                          Stages, TaskStates, Paths, Push
<1>2. Guarded'
  BY DEF IInv, CommitAnswered, Conclude, progress, Guarded, TypeOK, Options, Arrived,
         Push
<1>3. Told'
  BY DEF IInv, CommitAnswered, Conclude, progress, Told, GrownInBundle, Pull, Push,
         TypeOK, Options, LocalSide, Arrived
<1>4. Untouched' /\ Tasks' /\ Queue' /\ Bundled' /\ Arrived'
  BY DEF IInv, CommitAnswered, Conclude, progress, Untouched, Push, Tasks, Landed, Pull,
         TypeOK, Options, TaskStates, Queue, Bundled, Arrived
<1>5. LocalSide' /\ RemoteSide' /\ DeletionsLast'
  BY EngineAssumption DEF IInv, CommitAnswered, Conclude, progress, LocalSide, Pull,
                          Push, RemoteSide, DeletionsLast, Paths
<1> QED BY <1>1, <1>2, <1>3, <1>4, <1>5 DEF IInv

(* A commit that may or may not have happened.                             *)
LEMMA CommitFailedKeeps ==
  ASSUME IInv, CommitFailed
  PROVE  IInv'
<1>1. TypeOK'
  BY EngineAssumption DEF IInv, CommitFailed, FailWith, Conclude, progress, TypeOK,
                          Options, Stages, TaskStates, Paths, Pull, Push
<1>2. Told'
  BY DEF IInv, CommitFailed, FailWith, Conclude, progress, Told, GrownInBundle, Pull,
         Push, TypeOK, Options, RemoteSide, LocalSide
<1>3. Untouched' /\ Tasks' /\ Queue' /\ Bundled' /\ Arrived'
  BY DEF IInv, CommitFailed, FailWith, Conclude, progress, Untouched, Pull, Push, Tasks,
         Landed, TypeOK, Options, TaskStates, Queue, Bundled, Arrived
<1>4. LocalSide' /\ RemoteSide' /\ Guarded' /\ DeletionsLast'
  BY EngineAssumption DEF IInv, CommitFailed, FailWith, Conclude, progress, LocalSide,
                          Pull, Push, RemoteSide, Guarded, DeletionsLast, Paths
<1> QED BY <1>1, <1>2, <1>3, <1>4 DEF IInv

(* The guard is released: the abort was sent before.                       *)
LEMMA ReleasedKeeps ==
  ASSUME IInv, Released
  PROVE  IInv'
<1>1. TypeOK'
  BY DEF IInv, Released, progress, TypeOK, Options, Stages, TaskStates, Paths
<1>2. Untouched' /\ Tasks' /\ Queue' /\ Bundled' /\ Arrived'
  BY DEF IInv, Released, progress, Untouched, Tasks, Landed, Pull, Push, TypeOK,
         Options, TaskStates, Queue, Bundled, Arrived
<1>3. LocalSide' /\ RemoteSide' /\ Guarded' /\ Told' /\ DeletionsLast'
  BY EngineAssumption DEF IInv, Released, progress, LocalSide, Pull, Push, RemoteSide,
                          Guarded, Told, GrownInBundle, DeletionsLast, Paths
<1> QED BY <1>1, <1>2, <1>3 DEF IInv

(* The host drops the call: the guard sends the abort.                     *)
LEMMA CancelKeeps ==
  ASSUME IInv, Cancel
  PROVE  IInv'
<1>1. TypeOK'
  BY DEF IInv, Cancel, progress, TypeOK, Options, Stages, TaskStates, Paths
<1>2. Guarded'
  BY DEF IInv, Cancel, progress, Guarded, TypeOK, Stages, Untouched
<1>3. Untouched' /\ Tasks' /\ Queue' /\ Bundled' /\ Arrived'
  BY DEF IInv, Cancel, progress, Untouched, Tasks, Landed, Pull, Push, TypeOK, Options,
         TaskStates, Queue, Bundled, Arrived
<1>4. LocalSide' /\ RemoteSide' /\ Told' /\ DeletionsLast'
  BY EngineAssumption DEF IInv, Cancel, progress, LocalSide, Pull, Push, RemoteSide,
                          Told, GrownInBundle, DeletionsLast, Paths
<1> QED BY <1>1, <1>2, <1>3, <1>4 DEF IInv

(* The server forgets the plan.                                            *)
LEMMA PlanGoneKeeps ==
  ASSUME IInv, PlanGone
  PROVE  IInv'
<1>1. TypeOK'
  BY DEF IInv, PlanGone, progress, TypeOK, Options, Stages, TaskStates, Paths
<1>2. Untouched' /\ Tasks' /\ Queue' /\ Bundled' /\ Arrived'
  BY DEF IInv, PlanGone, progress, Untouched, Tasks, Landed, Pull, Push, TypeOK,
         Options, TaskStates, Queue, Bundled, Arrived
<1>3. LocalSide' /\ RemoteSide' /\ Guarded' /\ Told' /\ DeletionsLast'
  BY EngineAssumption DEF IInv, PlanGone, progress, LocalSide, Pull, Push, RemoteSide,
                          Guarded, Told, GrownInBundle, DeletionsLast, Paths
<1> QED BY <1>1, <1>2, <1>3 DEF IInv

-----------------------------------------------------------------------------
(* The theorems.                                                           *)

(* Before the call, nothing has happened.                                  *)
LEMMA InitHolds ==
  ASSUME Init
  PROVE  IInv
<1>1. TypeOK
  BY DEF Init, TypeOK, Options, Stages, TaskStates, NoReport
<1>2. Untouched /\ Tasks /\ Queue /\ Bundled /\ Arrived
  BY DEF Init, Untouched, Tasks, Queue, Bundled, Arrived, Landed, Pull, Push
<1>3. LocalSide /\ RemoteSide /\ Guarded /\ Told /\ DeletionsLast
  BY DEF Init, LocalSide, RemoteSide, Guarded, Told, DeletionsLast, NoReport, Pull, Push
<1> QED BY <1>1, <1>2, <1>3 DEF IInv

(* Every step of the call, of the server and of the host keeps IInv.       *)
LEMMA StepKeeps ==
  ASSUME IInv, [Next]_vars
  PROVE  IInv'
<1>1. CASE UNCHANGED vars
  BY <1>1 DEF vars, IInv, TypeOK, Untouched, Tasks, Queue, Bundled, Arrived, LocalSide,
              RemoteSide, Guarded, Told, DeletionsLast, Landed, GrownInBundle, Pull, Push
<1>2. CASE FailEarly \/ OpenPlan \/ ReceivePlan \/ RejectPlan
  BY <1>2, FailEarlyKeeps, OpenPlanKeeps, ReceivePlanKeeps, RejectPlanKeeps
<1>3. CASE \E files, batch \in SUBSET Files, extra \in SUBSET Extra :
             AcceptPlan(files, extra, batch)
  BY <1>3, AcceptPlanKeeps
<1>4. ASSUME NEW f \in Files,
             TaskFails(f) \/ WriteLocal(f) \/ WriteLocalFails(f) \/ EndDownload(f)
               \/ StartUpload(f) \/ EndUpload(f) \/ RemoteWrite(f) \/ JoinTask(f)
      PROVE  IInv'
  BY <1>4, TaskFailsKeeps, WriteLocalKeeps, WriteLocalFailsKeeps, EndDownloadKeeps,
     StartUploadKeeps, EndUploadKeeps, RemoteWriteKeeps, JoinTaskKeeps
<1>5. ASSUME NEW f \in Files,
             BundleWrite(f) \/ BundleWriteFails(f) \/ CopyFile(f) \/ CopyGrown(f)
      PROVE  IInv'
  BY <1>5, BundleWriteKeeps, BundleWriteFailsKeeps, CopyFileKeeps, CopyGrownKeeps
<1>6. CASE TransfersDone \/ TransfersFailed \/ BundleBroken \/ UploadFailed \/ BundleDone
  BY <1>6, TransfersDoneKeeps, TransfersFailedKeeps, BundleBrokenKeeps, UploadFailedKeeps,
     BundleDoneKeeps
<1>7. CASE \E p \in Extra : DeleteLocal(p) \/ DeleteLocalFails(p)
  BY <1>7, DeleteLocalKeeps, DeleteLocalFailsKeeps
<1>8. CASE CommitLocal \/ \E some, lost \in SUBSET Databases : CommitLocalFails(some, lost)
  BY <1>8, CommitLocalKeeps, CommitLocalFailsKeeps
<1>9. CASE (\E some \in SUBSET Paths : CommitRemote(some)) \/ CommitAnswered \/ CommitFailed
  BY <1>9, CommitRemoteKeeps, CommitAnsweredKeeps, CommitFailedKeeps
<1>10. CASE Released \/ Cancel \/ PlanGone
  BY <1>10, ReleasedKeeps, CancelKeeps, PlanGoneKeeps
<1> QED
  BY <1>1, <1>2, <1>3, <1>4, <1>5, <1>6, <1>7, <1>8, <1>9, <1>10 DEF Next

(* IInv holds in every state of a call, for every set of files and every   *)
(* concurrency.                                                            *)
THEOREM Invariance == Spec => []IInv
<1>1. Init => IInv
  BY InitHolds
<1>2. IInv /\ [Next]_vars => IInv'
  BY StepKeeps
<1> QED BY <1>1, <1>2, PTL DEF Spec

(* The engine's local variables keep their types.                          *)
THEOREM TypeCorrect == Spec => []TypeOK
<1>1. IInv => TypeOK
  BY DEF IInv
<1> QED BY <1>1, Invariance, PTL

(* What pull reports to its host about the workspace is true: no change is *)
(* hidden, nothing staged is counted, and a success counts everything.     *)
THEOREM LocalReportTrue == Spec => []LocalChangesReported
<1>1. IInv => LocalChangesReported
  BY DEF IInv, Told, LocalSide, LocalChangesReported, Reported
<1> QED BY <1>1, Invariance, PTL

(* A direct push that fails without remote_maybe_changed has not changed   *)
(* the server, and no request still being handled will.                    *)
THEOREM RemoteReportTrue == Spec => []RemoteChangesReported
<1>1. IInv => RemoteChangesReported
  BY DEF IInv, Told, RemoteChangesReported, Reported
<1> QED BY <1>1, Invariance, PTL

(* No Mirror deletion precedes the arrival of a planned file.              *)
THEOREM TransfersFirst == Spec => []DeletionsLast
<1>1. IInv => DeletionsLast
  BY DEF IInv
<1> QED BY <1>1, Invariance, PTL

(* RemotePlan: no way out of a call that holds a plan with databases leaves *)
(* it open without an abort.                                               *)
THEOREM PlanReleased == Spec => GuardReleased
<1> DEFINE Let == at \notin {"start", "requested"} /\ at' = "over" /\ options.databases =>
                    plan' = "gone" \/ abort'
<1>1. ASSUME IInv, [Next]_vars
      PROVE  [Let]_vars
  <2> SUFFICES ASSUME Next, at \notin {"start", "requested"}, at' = "over", options.databases
               PROVE  plan' = "gone" \/ abort'
    BY <1>1
  <2>1. CASE at = "over"
    <3>1. CASE PlanGone
      BY <3>1 DEF PlanGone
    <3>2. CASE \E f \in Files : RemoteWrite(f)
      BY <3>2, <2>1, <1>1 DEF RemoteWrite, IInv, TypeOK, Guarded
    <3> QED
      BY <3>1, <3>2, <2>1
      DEF Next, FailEarly, OpenPlan, ReceivePlan, RejectPlan, AcceptPlan, TaskFails,
          WriteLocal, WriteLocalFails, EndDownload, StartUpload, EndUpload, JoinTask,
          BundleWrite, BundleWriteFails, CopyFile, CopyGrown, TransfersDone,
          TransfersFailed, BundleBroken, UploadFailed, BundleDone, DeleteLocal,
          DeleteLocalFails, CommitLocal, CommitLocalFails, CommitRemote, CommitAnswered,
          CommitFailed, Released, Cancel
  <2>2. CASE at = "releasing"
    <3>1. abort
      BY <2>2, <1>1 DEF IInv, Guarded
    <3>2. Released \/ Cancel \/ PlanGone \/ \E f \in Files : RemoteWrite(f)
      BY <2>2
      DEF Next, FailEarly, OpenPlan, ReceivePlan, RejectPlan, AcceptPlan, TaskFails,
          WriteLocal, WriteLocalFails, EndDownload, StartUpload, EndUpload, JoinTask,
          BundleWrite, BundleWriteFails, CopyFile, CopyGrown, TransfersDone,
          TransfersFailed, BundleBroken, UploadFailed, BundleDone, DeleteLocal,
          DeleteLocalFails, CommitLocal, CommitLocalFails, CommitRemote, CommitAnswered,
          CommitFailed
    <3> QED BY <3>1, <3>2 DEF Released, Cancel, PlanGone, RemoteWrite
  <2>3. CASE at \notin {"releasing", "over"}
    <3>1. guard
      BY <2>3, <1>1 DEF IInv, TypeOK, Stages, Guarded
    <3>2. CASE RejectPlan \/ Cancel
      BY <3>1, <3>2 DEF RejectPlan, Cancel
    <3>3. CASE CommitAnswered
      BY <3>3, <1>1 DEF CommitAnswered, IInv, Arrived
    <3>4. CASE CommitLocal
      BY <3>1, <3>4, <1>1 DEF CommitLocal, Conclude, Pull, Push
    <3>5. CASE \/ TransfersFailed \/ BundleBroken \/ UploadFailed \/ CommitFailed
               \/ \E f \in Files : BundleWriteFails(f)
               \/ \E p \in Extra : DeleteLocalFails(p)
               \/ \E some, lost \in SUBSET Databases : CommitLocalFails(some, lost)
      BY <3>1, <3>5 DEF TransfersFailed, BundleBroken, UploadFailed, CommitFailed,
         BundleWriteFails, DeleteLocalFails, CommitLocalFails, FailWith, Conclude
    <3> QED
      BY <2>3, <3>2, <3>3, <3>4, <3>5
      DEF Next, FailEarly, OpenPlan, ReceivePlan, AcceptPlan, TaskFails, WriteLocal,
          WriteLocalFails, EndDownload, StartUpload, EndUpload, RemoteWrite, JoinTask,
          BundleWrite, CopyFile, CopyGrown, TransfersDone, BundleDone, DeleteLocal,
          CommitRemote, Released, PlanGone
  <2> QED BY <2>1, <2>2, <2>3
<1> QED BY <1>1, Invariance, PTL DEF Spec, GuardReleased
=============================================================================
