----------------------------- MODULE PlanServer -----------------------------
(***************************************************************************)
(* The transfer half of the TT-Sync server: the table of open plans        *)
(* (ttsync-http/src/server/plans.rs), the handlers that create, use and    *)
(* consume plans (server/handlers.rs), and the prepared storage that owns  *)
(* the database lock while any of them still refers to it                  *)
(* (ttsync-fs/src/manifest_store.rs).                                      *)
(*                                                                         *)
(* A handler is a process that interleaves with the others at every await; *)
(* its future may be dropped there when the client goes away.  The store   *)
(* of a plan is reference counted: the plan table, every handler that      *)
(* cloned it and the blocking publication job hold a reference, and the    *)
(* guard inside the store is released with the last one.                   *)
(*                                                                         *)
(* A database namespace is one item here, as is an ordinary file; the      *)
(* files of a namespace and the two renames that publish it are the        *)
(* subject of DatabaseTransfer.                                            *)
(***************************************************************************)
EXTENDS Naturals, FiniteSets

CONSTANTS
  Devices,      \* paired devices (DeviceId)
  PlanIds,      \* plan identifiers; a fresh one per plan (Uuid::new_v4)
  Requests,     \* handler slots: how many requests are in flight at once
  Namespaces,   \* database namespaces (directories db-<name>)
  Plain,        \* ordinary synced files
  Grants,       \* the permission sets an operator gives out
  NoPlan, Free, NoDevice, Revoked,
  Original, Absent

Items == Namespaces \cup Plain

(* Contents of an item: what was there first, nothing, or what plan p wrote. *)
Versions == PlanIds \cup {Original, Absent}

ASSUME ConstantsAssumption ==
  /\ NoPlan \notin PlanIds /\ Free \notin PlanIds
  /\ Original \notin PlanIds /\ Absent \notin PlanIds
  /\ Original # Absent
  /\ Namespaces \cap Plain = {}
  /\ NoDevice \notin Devices
  /\ Revoked \notin Grants
  /\ Grants \subseteq SUBSET {"read", "write", "mirror_delete"}

VARIABLES
  peers,    \* peers.json: the grant of a device, or Revoked
  table,    \* PlanStore.records: the plans that can still be used
  elapsed,  \* plans whose PLAN_TTL_MS has passed
  plan,     \* what PlanRecord holds about a plan
  scan,     \* the manifest a plan was computed from (history once planned)
  staged,   \* namespaces completely received in a plan's staging directory
  job,      \* DatabaseTransfer::commit on its blocking thread, per plan
  left,     \* namespaces the job still has to publish
  lock,     \* database_lock: the plan whose store holds the guard, or Free
  live,     \* the data directory
  req       \* the handlers in flight

vars == <<peers, table, elapsed, plan, scan, staged, job, left, lock, live, req>>

-----------------------------------------------------------------------------

PlanRecord ==
  [owner : Devices, direction : {"pull", "push"},
   mode : {"incremental", "mirror"}, db : BOOLEAN,
   transfer : SUBSET Items, delete : SUBSET Items]

ASSUME NoPlanAssumption == NoPlan \notin PlanRecord

(* Where a handler can be suspended. *)
Phases == {"idle", "authenticated", "prepared", "scanned", "uploading",
           "downloading", "deleting", "publishing", "saving"}

Idle == [at |-> "idle", who |-> NoDevice, grant |-> {},
         target |-> NoPlan, todo |-> {}]

Request ==
  [at : Phases, who : Devices \cup {NoDevice},
   grant : SUBSET {"read", "write", "mirror_delete"},
   target : PlanIds \cup {NoPlan}, todo : SUBSET Items]

(* The plan table, the plans and the handlers have the types of the source: *)
(* in particular, only grants somebody gave out are ever in peers.json.    *)
TypeOK ==
  /\ peers \in [Devices -> Grants \cup {Revoked}]
  /\ table \subseteq PlanIds
  /\ elapsed \subseteq PlanIds
  /\ plan \in [PlanIds -> PlanRecord \cup {NoPlan}]
  /\ scan \in [PlanIds -> [Items -> Versions]]
  /\ staged \in [PlanIds -> SUBSET Namespaces]
  /\ job \in [PlanIds -> {"none", "running", "ok", "failed"}]
  /\ left \in [PlanIds -> SUBSET Namespaces]
  /\ lock \in PlanIds \cup {Free}
  /\ live \in [Items -> Versions]
  /\ req \in [Requests -> Request]

-----------------------------------------------------------------------------
(* References to a prepared store.                                         *)

(* The phases in which a handler keeps an Arc of the store: between        *)
(* prepare and insert, while it streams (download moves the Arc into the   *)
(* response body), and while it deletes.  store.commit() consumes the      *)
(* handler's Arc, so from then on only the job has it.                     *)
Holding == {"prepared", "scanned", "uploading", "downloading", "deleting"}

HeldByRequest(p) == \E r \in Requests : req[r].target = p /\ req[r].at \in Holding

Referenced(p) == p \in table \/ HeldByRequest(p) \/ job[p] = "running"

(* Dropping the last Arc drops the OwnedMutexGuard. *)
DropUnreferenced ==
  lock' = IF \E p \in PlanIds : lock = p /\ ~Referenced(p)' THEN Free ELSE lock

(* retain_unexpired: every access to the table forgets what has expired.   *)
Unexpired == table \ elapsed

-----------------------------------------------------------------------------

Init ==
  /\ peers \in [Devices -> Grants]
  /\ table = {} /\ elapsed = {}
  /\ plan = [p \in PlanIds |-> NoPlan]
  /\ scan = [p \in PlanIds |-> [x \in Items |-> Absent]]
  /\ staged = [p \in PlanIds |-> {}]
  /\ job = [p \in PlanIds |-> "none"]
  /\ left = [p \in PlanIds |-> {}]
  /\ lock = Free
  /\ live \in [Items -> {Original, Absent}]
  /\ req = [r \in Requests |-> Idle]

(* authenticate_peer: the handler works with the grant read here, whatever *)
(* happens to peers.json afterwards.  A request without a valid session    *)
(* stops before this step.                                                 *)
Authenticate(r, d) ==
  /\ req[r] = Idle
  /\ peers[d] # Revoked
  /\ req' = [req EXCEPT ![r] = [at |-> "authenticated", who |-> d, grant |-> peers[d],
                                target |-> NoPlan, todo |-> {}]]
  /\ UNCHANGED <<peers, table, elapsed, plan, scan, staged, job, left, lock, live>>

(* The handler goes on to another await, with what it now works on. *)
Continue(r, at, target, todo) ==
  req' = [req EXCEPT ![r] = [at |-> at, who |-> req[r].who, grant |-> req[r].grant,
                             target |-> target, todo |-> todo]]

Finish(r) == req' = [req EXCEPT ![r] = Idle]

(* A handler returns or its future is dropped at an await: every Arc it    *)
(* holds goes with it.  A publication job it started keeps running.        *)
EndRequest(r) ==
  /\ req[r] # Idle
  /\ Finish(r)
  /\ UNCHANGED <<peers, table, elapsed, plan, scan, staged, job, left, live>>
  /\ DropUnreferenced

(* A request refused by the plan table (unknown, expired or foreign plan,  *)
(* path not in the plan, wrong direction, missing permission) has already  *)
(* purged the expired records.                                             *)
Refuse(r) ==
  /\ req[r].at = "authenticated"
  /\ table' = Unexpired
  /\ Finish(r)
  /\ UNCHANGED <<peers, elapsed, plan, scan, staged, job, left, live>>
  /\ DropUnreferenced

-----------------------------------------------------------------------------
(* pull_plan and push_plan.                                                *)

(* Mutant: mirror_delete is not asked for. *)
ModeAlwaysAllowed(grant, mode) == TRUE

ModeAllowed(grant, mode) == mode = "mirror" => "mirror_delete" \in grant

PermissionFor(direction) == IF direction = "pull" THEN "read" ELSE "write"

(* prepare: a selection with the database dataset must find the lock free  *)
(* (try_lock_owned); any other selection shares the base store.            *)
PreparePlan(r, p, direction, mode, db) ==
  /\ req[r].at = "authenticated"
  /\ plan[p] = NoPlan
  /\ ModeAllowed(req[r].grant, mode)
  /\ PermissionFor(direction) \in req[r].grant
  /\ db => lock = Free
  /\ lock' = IF db THEN p ELSE lock
  /\ plan' = [plan EXCEPT ![p] =
       [owner |-> req[r].who, direction |-> direction, mode |-> mode,
        db |-> db, transfer |-> {}, delete |-> {}]]
  /\ Continue(r, "prepared", p, {})
  /\ UNCHANGED <<peers, table, elapsed, scan, staged, job, left, live>>

ScanStore(r) ==
  /\ req[r].at = "prepared"
  /\ scan' = [scan EXCEPT ![req[r].target] = live]
  /\ Continue(r, "scanned", req[r].target, {})
  /\ UNCHANGED <<peers, table, elapsed, plan, staged, job, left, lock, live>>

Scope(p) == IF plan[p].db THEN Items ELSE Plain

(* The plans compute_plan_for_policy can return, over the manifests a      *)
(* client may send: a pull transfers what the server has; a push transfers *)
(* anything in scope and, in Mirror mode, deletes scanned items it does    *)
(* not transfer.  A pull's deletions are the client's work.                *)
Planned(p, transfer, delete) ==
  LET present == {x \in Scope(p) : scan[p][x] # Absent} IN
  /\ transfer \subseteq IF plan[p].direction = "pull" THEN present ELSE Scope(p)
  /\ delete \subseteq IF plan[p].direction = "push" /\ plan[p].mode = "mirror"
                        THEN present \ transfer ELSE {}

(* compute_plan_for_policy, set_plan and PlanStore::insert. *)
InsertPlan(r, transfer, delete) ==
  LET p == req[r].target IN
  /\ req[r].at = "scanned"
  /\ Planned(p, transfer, delete)
  /\ plan' = [plan EXCEPT ![p] =
       [owner |-> plan[p].owner, direction |-> plan[p].direction, mode |-> plan[p].mode,
        db |-> plan[p].db, transfer |-> transfer, delete |-> delete]]
  /\ table' = Unexpired \cup {p}
  /\ Finish(r)
  /\ UNCHANGED <<peers, elapsed, scan, staged, job, left, live>>
  /\ DropUnreferenced

-----------------------------------------------------------------------------
(* upload, bundle_upload, download, bundle_download.                       *)

(* transfer_meta and snapshot: find the plan, check its owner, clone the   *)
(* store, and let the handler check direction and permission.              *)
OpenStore(r, p, direction) ==
  /\ req[r].at = "authenticated"
  /\ p \in Unexpired
  /\ plan[p].owner = req[r].who
  /\ plan[p].direction = direction
  /\ PermissionFor(direction) \in req[r].grant
  /\ table' = Unexpired
  /\ UNCHANGED <<peers, elapsed, plan, scan, staged, job, left, live>>

StartUpload(r, p, items) ==
  /\ OpenStore(r, p, "push")
  /\ items \in {{x} : x \in plan[p].transfer} \cup {plan[p].transfer}
  /\ Continue(r, "uploading", p, items)
  /\ DropUnreferenced

StartDownload(r, p) ==
  /\ OpenStore(r, p, "pull")
  /\ Continue(r, "downloading", p, {})
  /\ DropUnreferenced

(* write_file on an ordinary file replaces the destination at once.  The   *)
(* end of the stream is checked only afterwards, so a refused upload may   *)
(* have been written.                                                      *)
WriteFile(r, x) ==
  /\ req[r].at = "uploading"
  /\ x \in req[r].todo
  /\ live' = [live EXCEPT ![x] = req[r].target]
  /\ Continue(r, "uploading", req[r].target, req[r].todo \ {x})
  /\ UNCHANGED <<peers, table, elapsed, plan, scan, staged, job, left, lock>>

(* write_file on database files goes to the staging directory. *)
StageNamespace(r, n) ==
  /\ req[r].at = "uploading"
  /\ n \in req[r].todo
  /\ staged' = [staged EXCEPT ![req[r].target] = @ \cup {n}]
  /\ Continue(r, "uploading", req[r].target, req[r].todo \ {n})
  /\ UNCHANGED <<peers, table, elapsed, plan, scan, job, left, lock, live>>

-----------------------------------------------------------------------------
(* commit and abort.                                                       *)

(* Mutant: the record stays in the table. *)
PeekPlan(r, p) ==
  /\ req[r].at = "authenticated"
  /\ p \in Unexpired
  /\ plan[p].owner = req[r].who
  /\ table' = Unexpired
  /\ UNCHANGED <<peers, elapsed, plan, scan, staged, job, left, live>>

(* take_if removes the record under the table's mutex.                     *)
TakePlan(r, p) ==
  /\ req[r].at = "authenticated"
  /\ p \in Unexpired
  /\ plan[p].owner = req[r].who
  /\ table' = Unexpired \ {p}
  /\ UNCHANGED <<peers, elapsed, plan, scan, staged, job, left, live>>

Abort(r, p) ==
  /\ TakePlan(r, p)
  /\ Finish(r)
  /\ DropUnreferenced

StartCommit(r, p) ==
  /\ TakePlan(r, p)
  /\ plan[p].direction = "push"
  /\ "write" \in req[r].grant
  /\ ModeAllowed(req[r].grant, plan[p].mode)
  /\ Continue(r, "deleting", p, IF plan[p].mode = "mirror" THEN plan[p].delete ELSE {})
  /\ DropUnreferenced

(* delete_file leaves namespaces to the publication.                       *)
DeleteFile(r, x) ==
  /\ req[r].at = "deleting"
  /\ x \in req[r].todo
  /\ live' = IF x \in Namespaces THEN live ELSE [live EXCEPT ![x] = Absent]
  /\ Continue(r, "deleting", req[r].target, req[r].todo \ {x})
  /\ UNCHANGED <<peers, table, elapsed, plan, scan, staged, job, left, lock>>

(* store.commit(): nothing to do without a database transfer ... *)
CommitFiles(r) ==
  /\ req[r].at = "deleting"
  /\ req[r].todo = {}
  /\ ~plan[req[r].target].db
  /\ Continue(r, "saving", req[r].target, {})
  /\ UNCHANGED <<peers, table, elapsed, plan, scan, staged, job, left, lock, live>>

(* Mutant: the job borrows the transfer and the guard is dropped. *)
StartUnguardedPublication(r) ==
  LET p == req[r].target IN
  /\ req[r].at = "deleting"
  /\ req[r].todo = {}
  /\ plan[p].db
  /\ job' = [job EXCEPT ![p] = "running"]
  /\ left' = [left EXCEPT ![p] = (plan[p].transfer \cup plan[p].delete) \cap Namespaces]
  /\ lock' = Free
  /\ Continue(r, "publishing", p, {})
  /\ UNCHANGED <<peers, table, elapsed, plan, scan, staged, live>>

(* ... otherwise the store moves into a blocking job that no cancellation  *)
(* reaches, with the namespaces set_plan grouped.                          *)
StartPublication(r) ==
  LET p == req[r].target IN
  /\ req[r].at = "deleting"
  /\ req[r].todo = {}
  /\ plan[p].db
  /\ job' = [job EXCEPT ![p] = "running"]
  /\ left' = [left EXCEPT ![p] = (plan[p].transfer \cup plan[p].delete) \cap Namespaces]
  /\ Continue(r, "publishing", p, {})
  /\ UNCHANGED <<peers, table, elapsed, plan, scan, staged, lock, live>>

(* Mutant: incomplete namespaces are published. *)
PublishUnchecked(p, n) ==
  /\ job[p] = "running"
  /\ n \in left[p]
  /\ live' = [live EXCEPT ![n] = IF n \in plan[p].transfer THEN p ELSE Absent]
  /\ left' = [left EXCEPT ![p] = @ \ {n}]
  /\ UNCHANGED <<peers, table, elapsed, plan, scan, staged, job, lock, req>>

(* One namespace of the job.  Its order among the namespaces is left open. *)
PublishNamespace(p, n) ==
  /\ job[p] = "running"
  /\ n \in left[p]
  /\ n \in plan[p].transfer => n \in staged[p]
  /\ live' = [live EXCEPT ![n] = IF n \in plan[p].transfer THEN p ELSE Absent]
  /\ left' = [left EXCEPT ![p] = @ \ {n}]
  /\ UNCHANGED <<peers, table, elapsed, plan, scan, staged, job, lock, req>>

(* The job stops at a namespace that is incomplete or cannot be renamed;   *)
(* the old directory is put back unless that fails as well.                *)
PublishFails(p, n) ==
  /\ job[p] = "running"
  /\ n \in left[p]
  /\ \/ UNCHANGED live
     \/ n \in plan[p].transfer \cap staged[p] /\ live' = [live EXCEPT ![n] = Absent]
  /\ job' = [job EXCEPT ![p] = "failed"]
  /\ UNCHANGED <<peers, table, elapsed, plan, scan, staged, left, req>>
  /\ DropUnreferenced

PublishDone(p) ==
  /\ job[p] = "running"
  /\ left[p] = {}
  /\ job' = [job EXCEPT ![p] = "ok"]
  /\ UNCHANGED <<peers, table, elapsed, plan, scan, staged, left, live, req>>
  /\ DropUnreferenced

(* The handler resumes with the job's result. *)
ResumeCommit(r) ==
  LET p == req[r].target IN
  /\ req[r].at = "publishing"
  /\ job[p] = "ok"
  /\ Continue(r, "saving", p, {})
  /\ UNCHANGED <<peers, table, elapsed, plan, scan, staged, job, left, lock, live>>

(* Mutant: the peer is saved with default permissions. *)
SaveDefaultGrant(r) ==
  /\ req[r].at = "saving"
  /\ peers' = [peers EXCEPT ![req[r].who] = {}]
  /\ Finish(r)
  /\ UNCHANGED <<table, elapsed, plan, scan, staged, job, left, lock, live>>

(* save_peer with the grant authenticate_peer read (and last_sync_ms). *)
SaveGrant(r) ==
  /\ req[r].at = "saving"
  /\ peers' = [peers EXCEPT ![req[r].who] = req[r].grant]
  /\ Finish(r)
  /\ UNCHANGED <<table, elapsed, plan, scan, staged, job, left, lock, live>>

-----------------------------------------------------------------------------
(* Time, the operator, and restarts.                                       *)

TtlElapses(p) ==
  /\ p \in table \ elapsed
  /\ elapsed' = elapsed \cup {p}
  /\ UNCHANGED <<peers, table, plan, scan, staged, job, left, lock, live, req>>

(* Mutant: expiry unlocks at once, whoever still uses the store. *)
ExpiryUnlocks(p) ==
  /\ p \in elapsed \cap table
  /\ plan[p].db
  /\ table' = table \ {p}
  /\ lock' = IF lock = p THEN Free ELSE lock
  /\ UNCHANGED <<peers, elapsed, plan, scan, staged, job, left, live, req>>

(* Mutant: the task runs for the plans that own no lock. *)
ExpiryOfPlainPlans(p) ==
  /\ p \in elapsed \cap table
  /\ ~plan[p].db
  /\ table' = table \ {p}
  /\ UNCHANGED <<peers, elapsed, plan, scan, staged, job, left, live, req>>
  /\ DropUnreferenced

(* The task insert spawns for a plan that owns the database lock. *)
ExpiryTask(p) ==
  /\ p \in elapsed \cap table
  /\ plan[p].db
  /\ table' = table \ {p}
  /\ UNCHANGED <<peers, elapsed, plan, scan, staged, job, left, live, req>>
  /\ DropUnreferenced

(* tt-sync peers / the TUI, through a peer store of their own. *)
ChangeGrant(d, g) ==
  /\ peers[d] # g
  /\ peers' = [peers EXCEPT ![d] = g]
  /\ UNCHANGED <<table, elapsed, plan, scan, staged, job, left, lock, live, req>>

(* The process dies: everything in memory is gone; a job killed between    *)
(* its two renames leaves the namespace away from its place.               *)
Restart ==
  /\ table' = {} /\ elapsed' = {} /\ lock' = Free
  /\ req' = [r \in Requests |-> Idle]
  /\ job' = [p \in PlanIds |-> IF job[p] = "running" THEN "failed" ELSE job[p]]
  /\ \/ UNCHANGED live
     \/ \E p \in PlanIds : \E n \in left[p] :
          /\ job[p] = "running"
          /\ n \in plan[p].transfer => n \in staged[p]
          /\ live' = [live EXCEPT ![n] = Absent]
  /\ UNCHANGED <<peers, plan, scan, staged, left>>

-----------------------------------------------------------------------------

Handler(r) ==
  \/ \E d \in Devices : Authenticate(r, d)
  \/ EndRequest(r)
  \/ Refuse(r)
  \/ \E p \in PlanIds, direction \in {"pull", "push"},
        mode \in {"incremental", "mirror"}, db \in BOOLEAN :
        PreparePlan(r, p, direction, mode, db)
  \/ ScanStore(r)
  \/ \E transfer, delete \in SUBSET Items : InsertPlan(r, transfer, delete)
  \/ \E p \in PlanIds, items \in SUBSET Items : StartUpload(r, p, items)
  \/ \E p \in PlanIds : StartDownload(r, p)
  \/ \E x \in Plain : WriteFile(r, x)
  \/ \E n \in Namespaces : StageNamespace(r, n)
  \/ \E p \in PlanIds : Abort(r, p)
  \/ \E p \in PlanIds : StartCommit(r, p)
  \/ \E x \in Items : DeleteFile(r, x)
  \/ CommitFiles(r)
  \/ StartPublication(r)
  \/ ResumeCommit(r)
  \/ SaveGrant(r)

Publication(p) ==
  \/ \E n \in Namespaces : PublishNamespace(p, n)
  \/ \E n \in Namespaces : PublishFails(p, n)
  \/ PublishDone(p)

Next ==
  \/ \E r \in Requests : Handler(r)
  \/ \E p \in PlanIds : Publication(p)
  \/ \E p \in PlanIds : TtlElapses(p)
  \/ \E p \in PlanIds : ExpiryTask(p)
  \/ \E d \in Devices, g \in Grants \cup {Revoked} : ChangeGrant(d, g)
  \/ Restart

Spec == Init /\ [][Next]_vars

(* Time passes, and timers and blocking jobs run.  A handler may be        *)
(* suspended for ever: the server sets no limit to how long a request or   *)
(* an idle connection lasts.                                               *)
Fairness ==
  \A p \in PlanIds : WF_vars(TtlElapses(p)) /\ WF_vars(ExpiryTask(p)) /\ WF_vars(Publication(p))

FairSpec == Spec /\ Fairness
-----------------------------------------------------------------------------
(* Properties.                                                             *)

IsDatabase(p) == plan[p] # NoPlan /\ plan[p].db

(* "Prepared storage owns exclusive database access": two plans that still *)
(* have a handler, a table entry or a publication job referring to their   *)
(* database store are the same plan.                                       *)
DatabaseExclusive ==
  \A p, q \in PlanIds :
    IsDatabase(p) /\ IsDatabase(q) /\ Referenced(p) /\ Referenced(q) => p = q

Scanned(p) ==
  \/ p \in table
  \/ \E r \in Requests : req[r].target = p /\ req[r].at \in Holding \ {"prepared"}
  \/ job[p] = "running"

(* "... from scanning through commit": until its own commit replaces it, a *)
(* namespace is as the plan's scan found it, however long the plan waits   *)
(* and whatever other plans are aborted, expire or commit meanwhile.       *)
ScanStaysTrue ==
  \A p \in PlanIds : IsDatabase(p) /\ Scanned(p) =>
    \A n \in Namespaces :
      \/ job[p] = "none"
      \/ job[p] = "running" /\ (n \in left[p] \/ n \notin plan[p].transfer \cup plan[p].delete)
      => live[n] = scan[p][n]

(* A namespace shows a plan's data only if all of it was received and the  *)
(* plan was committed: an aborted, expired or abandoned plan leaves no     *)
(* database behind.                                                        *)
PublishedByCommit ==
  \A p \in PlanIds, n \in Namespaces :
    live[n] = p => n \in plan[p].transfer \cap staged[p] /\ job[p] # "none"

Committing == {"deleting", "publishing", "saving"}

(* take_if hands a plan to one commit only: while a handler commits it no  *)
(* other handler does, and it cannot be used for new transfers.            *)
CommittedOnce ==
  \A r \in Requests : req[r].at \in Committing =>
    /\ req[r].target \notin table
    /\ \A s \in Requests \ {r} :
         req[s].target = req[r].target => req[s].at \notin Committing

(* An ordinary file disappears only while a commit of a Mirror plan, whose *)
(* handler saw the mirror_delete permission, works off its delete list.    *)
DeletesAuthorized ==
  [][\A x \in Plain : live[x] # Absent /\ live'[x] = Absent =>
       \E r \in Requests :
         /\ req[r].at = "deleting" /\ x \in req[r].todo
         /\ "mirror_delete" \in req[r].grant
         /\ plan[req[r].target].mode = "mirror"]_vars

(* "Plans now own storage guards.  Expire them even when no further request *)
(* arrives": neither the plan table nor a publication keeps the database   *)
(* lock for ever, and no sequence of requests that come and go does.  Only *)
(* one handler that never ends can: a stream whose peer has vanished.      *)
LockReleased ==
  \A p \in PlanIds :
    <>[](lock = p) =>
      \E r \in Requests : <>[](req[r].target = p /\ req[r].at \in Holding)

(* A device the operator revoked stays revoked until the operator (or a new *)
(* pairing) grants it access: no handler brings it back.                   *)
RevocationSticks ==
  [][\A d \in Devices : peers[d] = Revoked /\ peers'[d] # Revoked => UNCHANGED req]_vars

(* The promise the server makes about its databases, with the lock as the  *)
(* right of access and the namespaces of the data directory as the data.   *)
Promise == INSTANCE ExclusiveDatabase WITH
  Sync <- PlanIds, holder <- lock, data <- [n \in Namespaces |-> live[n]]

ImplementsExclusiveDatabase == Promise!Spec

=============================================================================
