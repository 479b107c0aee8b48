-------------------------- MODULE PlanServerProofs --------------------------
(***************************************************************************)
(* Proofs about PlanServer, for any number of devices, plans, requests,    *)
(* namespaces and files.                                                   *)
(***************************************************************************)
EXTENDS PlanServer, TLAPS

Creating == {"prepared", "scanned"}

(* A handler past authentication acts for a device under a grant that      *)
(* device had, and a handler that works on a plan names one that exists.   *)
RequestsSane ==
  \A r \in Requests :
    /\ req[r].at # "idle" => req[r].who \in Devices /\ req[r].grant \in Grants
    /\ req[r].at \in Holding \cup Committing =>
         req[r].target \in PlanIds /\ plan[req[r].target] # NoPlan
    /\ req[r].at \in {"idle", "authenticated"} => req[r].target = NoPlan

(* A plan under construction belongs to one handler and is nowhere else. *)
CreatedOnce ==
  \A r \in Requests : req[r].at \in Creating =>
    /\ req[r].target \notin table
    /\ job[req[r].target] = "none"
    /\ \A s \in Requests \ {r} : req[s].target # req[r].target

(* The life of a plan: created, in the table, taken by a commit, published. *)
PlansSane ==
  /\ \A p \in table : plan[p] # NoPlan /\ job[p] = "none"
  /\ \A p \in PlanIds : job[p] # "none" => IsDatabase(p)
  /\ \A p \in PlanIds : job[p] = "running" => left[p] \subseteq plan[p].transfer \cup plan[p].delete
  /\ \A r \in Requests : req[r].at = "deleting" => job[req[r].target] = "none"

(* Only a Mirror commit that may delete has deletions to do. *)
DeletesSane ==
  \A r \in Requests : req[r].at = "deleting" /\ req[r].todo # {} =>
    "mirror_delete" \in req[r].grant /\ plan[req[r].target].mode = "mirror"

(* The lock is held by the store of exactly one plan, as long as something *)
(* refers to that store.                                                   *)
LockInv ==
  \A p \in PlanIds : lock = p <=> IsDatabase(p) /\ Referenced(p)

IInv ==
  /\ TypeOK
  /\ RequestsSane
  /\ CreatedOnce
  /\ CommittedOnce
  /\ PlansSane
  /\ DeletesSane
  /\ LockInv
  /\ ScanStaysTrue
  /\ PublishedByCommit

(* Authenticate_peer: the handler learns its device and grant. *)
LEMMA AuthenticateStep ==
  ASSUME IInv, NEW r \in Requests, NEW d \in Devices, Authenticate(r, d)
  PROVE  IInv'
<1> USE ConstantsAssumption DEF Authenticate, IInv, Idle, Holding, Committing, Creating
<1>1. TypeOK'
  BY DEF TypeOK, RequestsSane, PlansSane, IsDatabase, Items, Versions, PlanRecord, Phases, Request
<1>2. RequestsSane'
  BY NoPlanAssumption DEF TypeOK, RequestsSane, PlansSane, Request, PlanRecord
<1>3. CreatedOnce' /\ CommittedOnce' /\ PlansSane'
  BY NoPlanAssumption DEF TypeOK, RequestsSane, CreatedOnce, CommittedOnce, PlansSane,
        IsDatabase, Request, PlanRecord
<1>4. LockInv'
  BY NoPlanAssumption DEF TypeOK, LockInv, RequestsSane, CreatedOnce, PlansSane, IsDatabase,
        Referenced, HeldByRequest, Request, PlanRecord
<1>5. ScanStaysTrue'
  BY DEF TypeOK, LockInv, RequestsSane, CreatedOnce, PlansSane, IsDatabase, Referenced,
        HeldByRequest, ScanStaysTrue, Scanned, Request, PlanRecord, Items
<1>6. PublishedByCommit'
  BY DEF TypeOK, LockInv, RequestsSane, CreatedOnce, PlansSane, IsDatabase,
        PublishedByCommit, Request, PlanRecord, Items
<1>7. DeletesSane'
  BY DEF TypeOK, RequestsSane, CreatedOnce, DeletesSane, ModeAllowed, Request, PlanRecord, Phases
<1> QED
  BY <1>1, <1>2, <1>3, <1>4, <1>5, <1>6, <1>7

(* A handler returns or is dropped, with the store references it has. *)
LEMMA EndRequestStep ==
  ASSUME IInv, NEW r \in Requests, EndRequest(r)
  PROVE  IInv'
<1> USE ConstantsAssumption DEF EndRequest, Finish, DropUnreferenced, IInv, Idle, Holding, Committing, Creating
<1>1. TypeOK'
  BY DEF TypeOK, RequestsSane, PlansSane, IsDatabase, Items, Versions, PlanRecord, Phases, Request
<1>2. RequestsSane'
  BY NoPlanAssumption DEF TypeOK, RequestsSane, PlansSane, Request, PlanRecord
<1>3. CreatedOnce' /\ CommittedOnce' /\ PlansSane'
  BY NoPlanAssumption DEF TypeOK, RequestsSane, CreatedOnce, CommittedOnce, PlansSane,
        IsDatabase, Request, PlanRecord
<1>4. LockInv'
  BY NoPlanAssumption DEF TypeOK, LockInv, RequestsSane, CreatedOnce, PlansSane, IsDatabase,
        Referenced, HeldByRequest, Request, PlanRecord
<1>5. ScanStaysTrue'
  BY DEF TypeOK, LockInv, RequestsSane, CreatedOnce, PlansSane, IsDatabase, Referenced,
        HeldByRequest, ScanStaysTrue, Scanned, Request, PlanRecord, Items
<1>6. PublishedByCommit'
  BY DEF TypeOK, LockInv, RequestsSane, CreatedOnce, PlansSane, IsDatabase,
        PublishedByCommit, Request, PlanRecord, Items
<1>7. DeletesSane'
  BY DEF TypeOK, RequestsSane, CreatedOnce, DeletesSane, ModeAllowed, Request, PlanRecord, Phases
<1> QED
  BY <1>1, <1>2, <1>3, <1>4, <1>5, <1>6, <1>7

(* A refused lookup purges the expired plans. *)
LEMMA RefuseStep ==
  ASSUME IInv, NEW r \in Requests, Refuse(r)
  PROVE  IInv'
<1> USE ConstantsAssumption DEF Refuse, Finish, DropUnreferenced, Unexpired, IInv, Idle, Holding, Committing, Creating
<1>1. TypeOK'
  BY DEF TypeOK, RequestsSane, PlansSane, IsDatabase, Items, Versions, PlanRecord, Phases, Request
<1>2. RequestsSane'
  BY NoPlanAssumption DEF TypeOK, RequestsSane, PlansSane, Request, PlanRecord
<1>3. CreatedOnce' /\ CommittedOnce' /\ PlansSane'
  BY NoPlanAssumption DEF TypeOK, RequestsSane, CreatedOnce, CommittedOnce, PlansSane,
        IsDatabase, Request, PlanRecord
<1>4. LockInv'
  BY NoPlanAssumption DEF TypeOK, LockInv, RequestsSane, CreatedOnce, PlansSane, IsDatabase,
        Referenced, HeldByRequest, Request, PlanRecord
<1>5. ScanStaysTrue'
  BY DEF TypeOK, LockInv, RequestsSane, CreatedOnce, PlansSane, IsDatabase, Referenced,
        HeldByRequest, ScanStaysTrue, Scanned, Request, PlanRecord, Items
<1>6. PublishedByCommit'
  BY DEF TypeOK, LockInv, RequestsSane, CreatedOnce, PlansSane, IsDatabase,
        PublishedByCommit, Request, PlanRecord, Items
<1>7. DeletesSane'
  BY DEF TypeOK, RequestsSane, CreatedOnce, DeletesSane, ModeAllowed, Request, PlanRecord, Phases
<1> QED
  BY <1>1, <1>2, <1>3, <1>4, <1>5, <1>6, <1>7

(* Prepare takes the lock for a fresh plan. *)
LEMMA PreparePlanStep ==
  ASSUME IInv, NEW r \in Requests, NEW p \in PlanIds, NEW direction \in {"pull", "push"},
         NEW mode \in {"incremental", "mirror"},
         NEW db \in BOOLEAN, PreparePlan(r, p, direction, mode, db)
  PROVE  IInv'
<1> USE ConstantsAssumption DEF PreparePlan, Continue, IInv, Idle, Holding, Committing, Creating
<1>1. TypeOK'
  BY DEF TypeOK, RequestsSane, PlansSane, IsDatabase, Items, Versions, PlanRecord, Phases, Request
<1>2. RequestsSane'
  BY NoPlanAssumption DEF TypeOK, RequestsSane, PlansSane, Request, PlanRecord
<1>3. CreatedOnce' /\ CommittedOnce' /\ PlansSane'
  <2>1. \A s \in Requests : req[s].target # p
    BY DEF TypeOK, RequestsSane, Request, Phases
  <2>2. p \notin table /\ job[p] = "none"
    BY DEF TypeOK, PlansSane, IsDatabase
  <2>3. CreatedOnce' /\ CommittedOnce'
    BY <2>1, <2>2 DEF TypeOK, CreatedOnce, CommittedOnce, Request
  <2>4. PlansSane'
    BY <2>1, <2>2, NoPlanAssumption DEF TypeOK, PlansSane, IsDatabase, Request, PlanRecord
  <2> QED
    BY <2>3, <2>4
<1>4. LockInv'
  BY NoPlanAssumption DEF TypeOK, LockInv, RequestsSane, CreatedOnce, PlansSane, IsDatabase,
        Referenced, HeldByRequest, Request, PlanRecord
<1>5. ScanStaysTrue'
  BY DEF TypeOK, LockInv, RequestsSane, CreatedOnce, PlansSane, IsDatabase, Referenced,
        HeldByRequest, ScanStaysTrue, Scanned, Request, PlanRecord, Items
<1>6. PublishedByCommit'
  BY DEF TypeOK, LockInv, RequestsSane, CreatedOnce, PlansSane, IsDatabase,
        PublishedByCommit, Request, PlanRecord, Items
<1>7. DeletesSane'
  BY DEF TypeOK, RequestsSane, CreatedOnce, DeletesSane, ModeAllowed, Request, PlanRecord, Phases
<1> QED
  BY <1>1, <1>2, <1>3, <1>4, <1>5, <1>6, <1>7

(* The scan is true when it is made. *)
LEMMA ScanStoreStep ==
  ASSUME IInv, NEW r \in Requests, ScanStore(r)
  PROVE  IInv'
<1> USE ConstantsAssumption DEF ScanStore, Continue, IInv, Idle, Holding, Committing, Creating
<1>1. TypeOK'
  BY DEF TypeOK, RequestsSane, PlansSane, IsDatabase, Items, Versions, PlanRecord, Phases, Request
<1>2. RequestsSane'
  BY NoPlanAssumption DEF TypeOK, RequestsSane, PlansSane, Request, PlanRecord
<1>3. CreatedOnce' /\ CommittedOnce' /\ PlansSane'
  BY NoPlanAssumption DEF TypeOK, RequestsSane, CreatedOnce, CommittedOnce, PlansSane,
        IsDatabase, Request, PlanRecord
<1>4. LockInv'
  BY NoPlanAssumption DEF TypeOK, LockInv, RequestsSane, CreatedOnce, PlansSane, IsDatabase,
        Referenced, HeldByRequest, Request, PlanRecord
<1>5. ScanStaysTrue'
  BY DEF TypeOK, LockInv, RequestsSane, CreatedOnce, PlansSane, IsDatabase, Referenced,
        HeldByRequest, ScanStaysTrue, Scanned, Request, PlanRecord, Items
<1>6. PublishedByCommit'
  BY DEF TypeOK, LockInv, RequestsSane, CreatedOnce, PlansSane, IsDatabase,
        PublishedByCommit, Request, PlanRecord, Items
<1>7. DeletesSane'
  BY DEF TypeOK, RequestsSane, CreatedOnce, DeletesSane, ModeAllowed, Request, PlanRecord, Phases
<1> QED
  BY <1>1, <1>2, <1>3, <1>4, <1>5, <1>6, <1>7

(* The reference moves from the handler to the plan table. *)
LEMMA InsertPlanStep ==
  ASSUME IInv, NEW r \in Requests, NEW transfer \in SUBSET Items,
         NEW delete \in SUBSET Items, InsertPlan(r, transfer, delete)
  PROVE  IInv'
<1> USE ConstantsAssumption DEF InsertPlan, Finish, DropUnreferenced, Unexpired, IInv, Idle, Holding, Committing, Creating
<1>1. TypeOK'
  BY DEF TypeOK, RequestsSane, PlansSane, IsDatabase, Items, Versions, PlanRecord, Phases, Request
<1>2. RequestsSane'
  BY NoPlanAssumption DEF TypeOK, RequestsSane, PlansSane, Request, PlanRecord
<1>3. CreatedOnce' /\ CommittedOnce' /\ PlansSane'
  BY NoPlanAssumption DEF TypeOK, RequestsSane, CreatedOnce, CommittedOnce, PlansSane,
        IsDatabase, Request, PlanRecord
<1>4. LockInv'
  BY NoPlanAssumption DEF TypeOK, LockInv, RequestsSane, CreatedOnce, PlansSane, IsDatabase,
        Referenced, HeldByRequest, Request, PlanRecord
<1>5. ScanStaysTrue'
  BY DEF TypeOK, LockInv, RequestsSane, CreatedOnce, PlansSane, IsDatabase, Referenced,
        HeldByRequest, ScanStaysTrue, Scanned, Request, PlanRecord, Items
<1>6. PublishedByCommit'
  BY DEF TypeOK, LockInv, RequestsSane, CreatedOnce, PlansSane, IsDatabase,
        PublishedByCommit, Request, PlanRecord, Items
<1>7. DeletesSane'
  BY DEF TypeOK, RequestsSane, CreatedOnce, DeletesSane, ModeAllowed, Request, PlanRecord, Phases
<1> QED
  BY <1>1, <1>2, <1>3, <1>4, <1>5, <1>6, <1>7

(* An upload clones the store of a plan in the table. *)
LEMMA StartUploadStep ==
  ASSUME IInv, NEW r \in Requests, NEW p \in PlanIds,
         NEW items \in SUBSET Items, StartUpload(r, p, items)
  PROVE  IInv'
<1> USE ConstantsAssumption DEF StartUpload, OpenStore, Continue, DropUnreferenced, Unexpired, IInv, Idle, Holding, Committing, Creating
<1>1. TypeOK'
  BY DEF TypeOK, RequestsSane, PlansSane, IsDatabase, Items, Versions, PlanRecord, Phases, Request
<1>2. RequestsSane'
  BY NoPlanAssumption DEF TypeOK, RequestsSane, PlansSane, Request, PlanRecord
<1>3. CreatedOnce' /\ CommittedOnce' /\ PlansSane'
  BY NoPlanAssumption DEF TypeOK, RequestsSane, CreatedOnce, CommittedOnce, PlansSane,
        IsDatabase, Request, PlanRecord
<1>4. LockInv'
  BY NoPlanAssumption DEF TypeOK, LockInv, RequestsSane, CreatedOnce, PlansSane, IsDatabase,
        Referenced, HeldByRequest, Request, PlanRecord
<1>5. ScanStaysTrue'
  BY DEF TypeOK, LockInv, RequestsSane, CreatedOnce, PlansSane, IsDatabase, Referenced,
        HeldByRequest, ScanStaysTrue, Scanned, Request, PlanRecord, Items
<1>6. PublishedByCommit'
  BY DEF TypeOK, LockInv, RequestsSane, CreatedOnce, PlansSane, IsDatabase,
        PublishedByCommit, Request, PlanRecord, Items
<1>7. DeletesSane'
  BY DEF TypeOK, RequestsSane, CreatedOnce, DeletesSane, ModeAllowed, Request, PlanRecord, Phases
<1> QED
  BY <1>1, <1>2, <1>3, <1>4, <1>5, <1>6, <1>7

(* A download clones the store of a plan in the table. *)
LEMMA StartDownloadStep ==
  ASSUME IInv, NEW r \in Requests, NEW p \in PlanIds, StartDownload(r, p)
  PROVE  IInv'
<1> USE ConstantsAssumption DEF StartDownload, OpenStore, Continue, DropUnreferenced, Unexpired, IInv, Idle, Holding, Committing, Creating
<1>1. TypeOK'
  BY DEF TypeOK, RequestsSane, PlansSane, IsDatabase, Items, Versions, PlanRecord, Phases, Request
<1>2. RequestsSane'
  BY NoPlanAssumption DEF TypeOK, RequestsSane, PlansSane, Request, PlanRecord
<1>3. CreatedOnce' /\ CommittedOnce' /\ PlansSane'
  BY NoPlanAssumption DEF TypeOK, RequestsSane, CreatedOnce, CommittedOnce, PlansSane,
        IsDatabase, Request, PlanRecord
<1>4. LockInv'
  BY NoPlanAssumption DEF TypeOK, LockInv, RequestsSane, CreatedOnce, PlansSane, IsDatabase,
        Referenced, HeldByRequest, Request, PlanRecord
<1>5. ScanStaysTrue'
  BY DEF TypeOK, LockInv, RequestsSane, CreatedOnce, PlansSane, IsDatabase, Referenced,
        HeldByRequest, ScanStaysTrue, Scanned, Request, PlanRecord, Items
<1>6. PublishedByCommit'
  BY DEF TypeOK, LockInv, RequestsSane, CreatedOnce, PlansSane, IsDatabase,
        PublishedByCommit, Request, PlanRecord, Items
<1>7. DeletesSane'
  BY DEF TypeOK, RequestsSane, CreatedOnce, DeletesSane, ModeAllowed, Request, PlanRecord, Phases
<1> QED
  BY <1>1, <1>2, <1>3, <1>4, <1>5, <1>6, <1>7

(* An ordinary file is replaced; namespaces are untouched. *)
LEMMA WriteFileStep ==
  ASSUME IInv, NEW r \in Requests, NEW x \in Plain, WriteFile(r, x)
  PROVE  IInv'
<1> USE ConstantsAssumption DEF WriteFile, Continue, IInv, Idle, Holding, Committing, Creating
<1>1. TypeOK'
  BY DEF TypeOK, RequestsSane, PlansSane, IsDatabase, Items, Versions, PlanRecord, Phases, Request
<1>2. RequestsSane'
  BY NoPlanAssumption DEF TypeOK, RequestsSane, PlansSane, Request, PlanRecord
<1>3. CreatedOnce' /\ CommittedOnce' /\ PlansSane'
  BY NoPlanAssumption DEF TypeOK, RequestsSane, CreatedOnce, CommittedOnce, PlansSane,
        IsDatabase, Request, PlanRecord
<1>4. LockInv'
  BY NoPlanAssumption DEF TypeOK, LockInv, RequestsSane, CreatedOnce, PlansSane, IsDatabase,
        Referenced, HeldByRequest, Request, PlanRecord
<1>5. ScanStaysTrue'
  BY DEF TypeOK, LockInv, RequestsSane, CreatedOnce, PlansSane, IsDatabase, Referenced,
        HeldByRequest, ScanStaysTrue, Scanned, Request, PlanRecord, Items
<1>6. PublishedByCommit'
  BY DEF TypeOK, LockInv, RequestsSane, CreatedOnce, PlansSane, IsDatabase,
        PublishedByCommit, Request, PlanRecord, Items
<1>7. DeletesSane'
  BY DEF TypeOK, RequestsSane, CreatedOnce, DeletesSane, ModeAllowed, Request, PlanRecord, Phases
<1> QED
  BY <1>1, <1>2, <1>3, <1>4, <1>5, <1>6, <1>7

(* Database files arrive in the staging directory only. *)
LEMMA StageNamespaceStep ==
  ASSUME IInv, NEW r \in Requests, NEW n \in Namespaces, StageNamespace(r, n)
  PROVE  IInv'
<1> USE ConstantsAssumption DEF StageNamespace, Continue, IInv, Idle, Holding, Committing, Creating
<1>1. TypeOK'
  BY DEF TypeOK, RequestsSane, PlansSane, IsDatabase, Items, Versions, PlanRecord, Phases, Request
<1>2. RequestsSane'
  BY NoPlanAssumption DEF TypeOK, RequestsSane, PlansSane, Request, PlanRecord
<1>3. CreatedOnce' /\ CommittedOnce' /\ PlansSane'
  BY NoPlanAssumption DEF TypeOK, RequestsSane, CreatedOnce, CommittedOnce, PlansSane,
        IsDatabase, Request, PlanRecord
<1>4. LockInv'
  BY NoPlanAssumption DEF TypeOK, LockInv, RequestsSane, CreatedOnce, PlansSane, IsDatabase,
        Referenced, HeldByRequest, Request, PlanRecord
<1>5. ScanStaysTrue'
  BY DEF TypeOK, LockInv, RequestsSane, CreatedOnce, PlansSane, IsDatabase, Referenced,
        HeldByRequest, ScanStaysTrue, Scanned, Request, PlanRecord, Items
<1>6. PublishedByCommit'
  BY DEF TypeOK, LockInv, RequestsSane, CreatedOnce, PlansSane, IsDatabase,
        PublishedByCommit, Request, PlanRecord, Items
<1>7. DeletesSane'
  BY DEF TypeOK, RequestsSane, CreatedOnce, DeletesSane, ModeAllowed, Request, PlanRecord, Phases
<1> QED
  BY <1>1, <1>2, <1>3, <1>4, <1>5, <1>6, <1>7

(* A plan leaves the table; its store may stay referenced. *)
LEMMA AbortStep ==
  ASSUME IInv, NEW r \in Requests, NEW p \in PlanIds, Abort(r, p)
  PROVE  IInv'
<1> USE ConstantsAssumption DEF Abort, TakePlan, Finish, DropUnreferenced, Unexpired, IInv, Idle, Holding, Committing, Creating
<1>1. TypeOK'
  BY DEF TypeOK, RequestsSane, PlansSane, IsDatabase, Items, Versions, PlanRecord, Phases, Request
<1>2. RequestsSane'
  BY NoPlanAssumption DEF TypeOK, RequestsSane, PlansSane, Request, PlanRecord
<1>3. CreatedOnce' /\ CommittedOnce' /\ PlansSane'
  BY NoPlanAssumption DEF TypeOK, RequestsSane, CreatedOnce, CommittedOnce, PlansSane,
        IsDatabase, Request, PlanRecord
<1>4. LockInv'
  BY NoPlanAssumption DEF TypeOK, LockInv, RequestsSane, CreatedOnce, PlansSane, IsDatabase,
        Referenced, HeldByRequest, Request, PlanRecord
<1>5. ScanStaysTrue'
  BY DEF TypeOK, LockInv, RequestsSane, CreatedOnce, PlansSane, IsDatabase, Referenced,
        HeldByRequest, ScanStaysTrue, Scanned, Request, PlanRecord, Items
<1>6. PublishedByCommit'
  BY DEF TypeOK, LockInv, RequestsSane, CreatedOnce, PlansSane, IsDatabase,
        PublishedByCommit, Request, PlanRecord, Items
<1>7. DeletesSane'
  BY DEF TypeOK, RequestsSane, CreatedOnce, DeletesSane, ModeAllowed, Request, PlanRecord, Phases
<1> QED
  BY <1>1, <1>2, <1>3, <1>4, <1>5, <1>6, <1>7

(* Take_if moves the plan from the table to one handler. *)
LEMMA StartCommitStep ==
  ASSUME IInv, NEW r \in Requests, NEW p \in PlanIds, StartCommit(r, p)
  PROVE  IInv'
<1> USE ConstantsAssumption DEF StartCommit, TakePlan, Continue, DropUnreferenced, Unexpired, IInv, Idle, Holding, Committing, Creating
<1>1. TypeOK'
  BY DEF TypeOK, RequestsSane, PlansSane, IsDatabase, Items, Versions, PlanRecord, Phases, Request
<1>2. RequestsSane'
  BY NoPlanAssumption DEF TypeOK, RequestsSane, PlansSane, Request, PlanRecord
<1>3. CreatedOnce' /\ CommittedOnce' /\ PlansSane'
  BY NoPlanAssumption DEF TypeOK, RequestsSane, CreatedOnce, CommittedOnce, PlansSane,
        IsDatabase, Request, PlanRecord
<1>4. LockInv'
  BY NoPlanAssumption DEF TypeOK, LockInv, RequestsSane, CreatedOnce, PlansSane, IsDatabase,
        Referenced, HeldByRequest, Request, PlanRecord
<1>5. ScanStaysTrue'
  BY DEF TypeOK, LockInv, RequestsSane, CreatedOnce, PlansSane, IsDatabase, Referenced,
        HeldByRequest, ScanStaysTrue, Scanned, Request, PlanRecord, Items
<1>6. PublishedByCommit'
  BY DEF TypeOK, LockInv, RequestsSane, CreatedOnce, PlansSane, IsDatabase,
        PublishedByCommit, Request, PlanRecord, Items
<1>7. DeletesSane'
  BY DEF TypeOK, RequestsSane, CreatedOnce, DeletesSane, ModeAllowed, Request, PlanRecord, Phases
<1> QED
  BY <1>1, <1>2, <1>3, <1>4, <1>5, <1>6, <1>7

(* A Mirror deletion; namespaces are untouched. *)
LEMMA DeleteFileStep ==
  ASSUME IInv, NEW r \in Requests, NEW x \in Items, DeleteFile(r, x)
  PROVE  IInv'
<1> USE ConstantsAssumption DEF DeleteFile, Continue, IInv, Idle, Holding, Committing, Creating
<1>1. TypeOK'
  BY DEF TypeOK, RequestsSane, PlansSane, IsDatabase, Items, Versions, PlanRecord, Phases, Request
<1>2. RequestsSane'
  BY NoPlanAssumption DEF TypeOK, RequestsSane, PlansSane, Request, PlanRecord
<1>3. CreatedOnce' /\ CommittedOnce' /\ PlansSane'
  BY NoPlanAssumption DEF TypeOK, RequestsSane, CreatedOnce, CommittedOnce, PlansSane,
        IsDatabase, Request, PlanRecord
<1>4. LockInv'
  BY NoPlanAssumption DEF TypeOK, LockInv, RequestsSane, CreatedOnce, PlansSane, IsDatabase,
        Referenced, HeldByRequest, Request, PlanRecord
<1>5. ScanStaysTrue'
  BY DEF TypeOK, LockInv, RequestsSane, CreatedOnce, PlansSane, IsDatabase, Referenced,
        HeldByRequest, ScanStaysTrue, Scanned, Request, PlanRecord, Items
<1>6. PublishedByCommit'
  BY DEF TypeOK, LockInv, RequestsSane, CreatedOnce, PlansSane, IsDatabase,
        PublishedByCommit, Request, PlanRecord, Items
<1>7. DeletesSane'
  BY DEF TypeOK, RequestsSane, CreatedOnce, DeletesSane, ModeAllowed, Request, PlanRecord, Phases
<1> QED
  BY <1>1, <1>2, <1>3, <1>4, <1>5, <1>6, <1>7

(* A commit without databases has nothing to publish. *)
LEMMA CommitFilesStep ==
  ASSUME IInv, NEW r \in Requests, CommitFiles(r)
  PROVE  IInv'
<1> USE ConstantsAssumption DEF CommitFiles, Continue, IInv, Idle, Holding, Committing, Creating
<1>1. TypeOK'
  BY DEF TypeOK, RequestsSane, PlansSane, IsDatabase, Items, Versions, PlanRecord, Phases, Request
<1>2. RequestsSane'
  BY NoPlanAssumption DEF TypeOK, RequestsSane, PlansSane, Request, PlanRecord
<1>3. CreatedOnce' /\ CommittedOnce' /\ PlansSane'
  BY NoPlanAssumption DEF TypeOK, RequestsSane, CreatedOnce, CommittedOnce, PlansSane,
        IsDatabase, Request, PlanRecord
<1>4. LockInv'
  BY NoPlanAssumption DEF TypeOK, LockInv, RequestsSane, CreatedOnce, PlansSane, IsDatabase,
        Referenced, HeldByRequest, Request, PlanRecord
<1>5. ScanStaysTrue'
  BY DEF TypeOK, LockInv, RequestsSane, CreatedOnce, PlansSane, IsDatabase, Referenced,
        HeldByRequest, ScanStaysTrue, Scanned, Request, PlanRecord, Items
<1>6. PublishedByCommit'
  BY DEF TypeOK, LockInv, RequestsSane, CreatedOnce, PlansSane, IsDatabase,
        PublishedByCommit, Request, PlanRecord, Items
<1>7. DeletesSane'
  BY DEF TypeOK, RequestsSane, CreatedOnce, DeletesSane, ModeAllowed, Request, PlanRecord, Phases
<1> QED
  BY <1>1, <1>2, <1>3, <1>4, <1>5, <1>6, <1>7

(* The reference moves from the handler to the blocking job. *)
LEMMA StartPublicationStep ==
  ASSUME IInv, NEW r \in Requests, StartPublication(r)
  PROVE  IInv'
<1> USE ConstantsAssumption DEF StartPublication, Continue, IInv, Idle, Holding, Committing, Creating
<1>1. TypeOK'
  BY DEF TypeOK, RequestsSane, PlansSane, IsDatabase, Items, Versions, PlanRecord, Phases, Request
<1>2. RequestsSane'
  BY NoPlanAssumption DEF TypeOK, RequestsSane, PlansSane, Request, PlanRecord
<1>3. CreatedOnce' /\ CommittedOnce' /\ PlansSane'
  BY NoPlanAssumption DEF TypeOK, RequestsSane, CreatedOnce, CommittedOnce, PlansSane,
        IsDatabase, Request, PlanRecord
<1>4. LockInv'
  BY NoPlanAssumption DEF TypeOK, LockInv, RequestsSane, CreatedOnce, PlansSane, IsDatabase,
        Referenced, HeldByRequest, Request, PlanRecord
<1>5. ScanStaysTrue'
  BY DEF TypeOK, LockInv, RequestsSane, CreatedOnce, PlansSane, IsDatabase, Referenced,
        HeldByRequest, ScanStaysTrue, Scanned, Request, PlanRecord, Items
<1>6. PublishedByCommit'
  BY DEF TypeOK, LockInv, RequestsSane, CreatedOnce, PlansSane, IsDatabase,
        PublishedByCommit, Request, PlanRecord, Items
<1>7. DeletesSane'
  BY DEF TypeOK, RequestsSane, CreatedOnce, DeletesSane, ModeAllowed, Request, PlanRecord, Phases
<1> QED
  BY <1>1, <1>2, <1>3, <1>4, <1>5, <1>6, <1>7

(* The handler resumes after the job. *)
LEMMA ResumeCommitStep ==
  ASSUME IInv, NEW r \in Requests, ResumeCommit(r)
  PROVE  IInv'
<1> USE ConstantsAssumption DEF ResumeCommit, Continue, IInv, Idle, Holding, Committing, Creating
<1>1. TypeOK'
  BY DEF TypeOK, RequestsSane, PlansSane, IsDatabase, Items, Versions, PlanRecord, Phases, Request
<1>2. RequestsSane'
  BY NoPlanAssumption DEF TypeOK, RequestsSane, PlansSane, Request, PlanRecord
<1>3. CreatedOnce' /\ CommittedOnce' /\ PlansSane'
  BY NoPlanAssumption DEF TypeOK, RequestsSane, CreatedOnce, CommittedOnce, PlansSane,
        IsDatabase, Request, PlanRecord
<1>4. LockInv'
  BY NoPlanAssumption DEF TypeOK, LockInv, RequestsSane, CreatedOnce, PlansSane, IsDatabase,
        Referenced, HeldByRequest, Request, PlanRecord
<1>5. ScanStaysTrue'
  BY DEF TypeOK, LockInv, RequestsSane, CreatedOnce, PlansSane, IsDatabase, Referenced,
        HeldByRequest, ScanStaysTrue, Scanned, Request, PlanRecord, Items
<1>6. PublishedByCommit'
  BY DEF TypeOK, LockInv, RequestsSane, CreatedOnce, PlansSane, IsDatabase,
        PublishedByCommit, Request, PlanRecord, Items
<1>7. DeletesSane'
  BY DEF TypeOK, RequestsSane, CreatedOnce, DeletesSane, ModeAllowed, Request, PlanRecord, Phases
<1> QED
  BY <1>1, <1>2, <1>3, <1>4, <1>5, <1>6, <1>7

(* The commit writes the grant it authenticated with. *)
LEMMA SaveGrantStep ==
  ASSUME IInv, NEW r \in Requests, SaveGrant(r)
  PROVE  IInv'
<1> USE ConstantsAssumption DEF SaveGrant, Finish, IInv, Idle, Holding, Committing, Creating
<1>1. TypeOK'
  BY DEF TypeOK, RequestsSane, PlansSane, IsDatabase, Items, Versions, PlanRecord, Phases, Request
<1>2. RequestsSane'
  BY NoPlanAssumption DEF TypeOK, RequestsSane, PlansSane, Request, PlanRecord
<1>3. CreatedOnce' /\ CommittedOnce' /\ PlansSane'
  BY NoPlanAssumption DEF TypeOK, RequestsSane, CreatedOnce, CommittedOnce, PlansSane,
        IsDatabase, Request, PlanRecord
<1>4. LockInv'
  BY NoPlanAssumption DEF TypeOK, LockInv, RequestsSane, CreatedOnce, PlansSane, IsDatabase,
        Referenced, HeldByRequest, Request, PlanRecord
<1>5. ScanStaysTrue'
  BY DEF TypeOK, LockInv, RequestsSane, CreatedOnce, PlansSane, IsDatabase, Referenced,
        HeldByRequest, ScanStaysTrue, Scanned, Request, PlanRecord, Items
<1>6. PublishedByCommit'
  BY DEF TypeOK, LockInv, RequestsSane, CreatedOnce, PlansSane, IsDatabase,
        PublishedByCommit, Request, PlanRecord, Items
<1>7. DeletesSane'
  BY DEF TypeOK, RequestsSane, CreatedOnce, DeletesSane, ModeAllowed, Request, PlanRecord, Phases
<1> QED
  BY <1>1, <1>2, <1>3, <1>4, <1>5, <1>6, <1>7

(* The job, which holds the lock, replaces one namespace. *)
LEMMA PublishNamespaceStep ==
  ASSUME IInv, NEW p \in PlanIds, NEW n \in Namespaces, PublishNamespace(p, n)
  PROVE  IInv'
<1> USE ConstantsAssumption DEF PublishNamespace, IInv, Idle, Holding, Committing, Creating
<1>1. TypeOK'
  BY DEF TypeOK, RequestsSane, PlansSane, IsDatabase, Items, Versions, PlanRecord, Phases, Request
<1>2. RequestsSane'
  BY NoPlanAssumption DEF TypeOK, RequestsSane, PlansSane, Request, PlanRecord
<1>3. CreatedOnce' /\ CommittedOnce' /\ PlansSane'
  BY NoPlanAssumption DEF TypeOK, RequestsSane, CreatedOnce, CommittedOnce, PlansSane,
        IsDatabase, Request, PlanRecord
<1>4. LockInv'
  BY NoPlanAssumption DEF TypeOK, LockInv, RequestsSane, CreatedOnce, PlansSane, IsDatabase,
        Referenced, HeldByRequest, Request, PlanRecord
<1>5. ScanStaysTrue'
  BY DEF TypeOK, LockInv, RequestsSane, CreatedOnce, PlansSane, IsDatabase, Referenced,
        HeldByRequest, ScanStaysTrue, Scanned, Request, PlanRecord, Items
<1>6. PublishedByCommit'
  BY DEF TypeOK, LockInv, RequestsSane, CreatedOnce, PlansSane, IsDatabase,
        PublishedByCommit, Request, PlanRecord, Items
<1>7. DeletesSane'
  BY DEF TypeOK, RequestsSane, CreatedOnce, DeletesSane, ModeAllowed, Request, PlanRecord, Phases
<1> QED
  BY <1>1, <1>2, <1>3, <1>4, <1>5, <1>6, <1>7

(* The job stops; its reference goes. *)
LEMMA PublishFailsStep ==
  ASSUME IInv, NEW p \in PlanIds, NEW n \in Namespaces, PublishFails(p, n)
  PROVE  IInv'
<1> USE ConstantsAssumption DEF PublishFails, DropUnreferenced, IInv, Idle, Holding, Committing, Creating
<1>1. TypeOK'
  BY DEF TypeOK, RequestsSane, PlansSane, IsDatabase, Items, Versions, PlanRecord, Phases, Request
<1>2. RequestsSane'
  BY NoPlanAssumption DEF TypeOK, RequestsSane, PlansSane, Request, PlanRecord
<1>3. CreatedOnce' /\ CommittedOnce' /\ PlansSane'
  BY NoPlanAssumption DEF TypeOK, RequestsSane, CreatedOnce, CommittedOnce, PlansSane,
        IsDatabase, Request, PlanRecord
<1>4. LockInv'
  BY NoPlanAssumption DEF TypeOK, LockInv, RequestsSane, CreatedOnce, PlansSane, IsDatabase,
        Referenced, HeldByRequest, Request, PlanRecord
<1>5. ScanStaysTrue'
  BY DEF TypeOK, LockInv, RequestsSane, CreatedOnce, PlansSane, IsDatabase, Referenced,
        HeldByRequest, ScanStaysTrue, Scanned, Request, PlanRecord, Items
<1>6. PublishedByCommit'
  BY DEF TypeOK, LockInv, RequestsSane, CreatedOnce, PlansSane, IsDatabase,
        PublishedByCommit, Request, PlanRecord, Items
<1>7. DeletesSane'
  BY DEF TypeOK, RequestsSane, CreatedOnce, DeletesSane, ModeAllowed, Request, PlanRecord, Phases
<1> QED
  BY <1>1, <1>2, <1>3, <1>4, <1>5, <1>6, <1>7

(* The job is done; its reference goes. *)
LEMMA PublishDoneStep ==
  ASSUME IInv, NEW p \in PlanIds, PublishDone(p)
  PROVE  IInv'
<1> USE ConstantsAssumption DEF PublishDone, DropUnreferenced, IInv, Idle, Holding, Committing, Creating
<1>1. TypeOK'
  BY DEF TypeOK, RequestsSane, PlansSane, IsDatabase, Items, Versions, PlanRecord, Phases, Request
<1>2. RequestsSane'
  BY NoPlanAssumption DEF TypeOK, RequestsSane, PlansSane, Request, PlanRecord
<1>3. CreatedOnce' /\ CommittedOnce' /\ PlansSane'
  BY NoPlanAssumption DEF TypeOK, RequestsSane, CreatedOnce, CommittedOnce, PlansSane,
        IsDatabase, Request, PlanRecord
<1>4. LockInv'
  BY NoPlanAssumption DEF TypeOK, LockInv, RequestsSane, CreatedOnce, PlansSane, IsDatabase,
        Referenced, HeldByRequest, Request, PlanRecord
<1>5. ScanStaysTrue'
  BY DEF TypeOK, LockInv, RequestsSane, CreatedOnce, PlansSane, IsDatabase, Referenced,
        HeldByRequest, ScanStaysTrue, Scanned, Request, PlanRecord, Items
<1>6. PublishedByCommit'
  BY DEF TypeOK, LockInv, RequestsSane, CreatedOnce, PlansSane, IsDatabase,
        PublishedByCommit, Request, PlanRecord, Items
<1>7. DeletesSane'
  BY DEF TypeOK, RequestsSane, CreatedOnce, DeletesSane, ModeAllowed, Request, PlanRecord, Phases
<1> QED
  BY <1>1, <1>2, <1>3, <1>4, <1>5, <1>6, <1>7

(* Time passes. *)
LEMMA TtlElapsesStep ==
  ASSUME IInv, NEW p \in PlanIds, TtlElapses(p)
  PROVE  IInv'
<1> USE ConstantsAssumption DEF TtlElapses, IInv, Idle, Holding, Committing, Creating
<1>1. TypeOK'
  BY DEF TypeOK, RequestsSane, PlansSane, IsDatabase, Items, Versions, PlanRecord, Phases, Request
<1>2. RequestsSane'
  BY NoPlanAssumption DEF TypeOK, RequestsSane, PlansSane, Request, PlanRecord
<1>3. CreatedOnce' /\ CommittedOnce' /\ PlansSane'
  BY NoPlanAssumption DEF TypeOK, RequestsSane, CreatedOnce, CommittedOnce, PlansSane,
        IsDatabase, Request, PlanRecord
<1>4. LockInv'
  BY NoPlanAssumption DEF TypeOK, LockInv, RequestsSane, CreatedOnce, PlansSane, IsDatabase,
        Referenced, HeldByRequest, Request, PlanRecord
<1>5. ScanStaysTrue'
  BY DEF TypeOK, LockInv, RequestsSane, CreatedOnce, PlansSane, IsDatabase, Referenced,
        HeldByRequest, ScanStaysTrue, Scanned, Request, PlanRecord, Items
<1>6. PublishedByCommit'
  BY DEF TypeOK, LockInv, RequestsSane, CreatedOnce, PlansSane, IsDatabase,
        PublishedByCommit, Request, PlanRecord, Items
<1>7. DeletesSane'
  BY DEF TypeOK, RequestsSane, CreatedOnce, DeletesSane, ModeAllowed, Request, PlanRecord, Phases
<1> QED
  BY <1>1, <1>2, <1>3, <1>4, <1>5, <1>6, <1>7

(* The expiry task removes a plan from the table. *)
LEMMA ExpiryTaskStep ==
  ASSUME IInv, NEW p \in PlanIds, ExpiryTask(p)
  PROVE  IInv'
<1> USE ConstantsAssumption DEF ExpiryTask, DropUnreferenced, IInv, Idle, Holding, Committing, Creating
<1>1. TypeOK'
  BY DEF TypeOK, RequestsSane, PlansSane, IsDatabase, Items, Versions, PlanRecord, Phases, Request
<1>2. RequestsSane'
  BY NoPlanAssumption DEF TypeOK, RequestsSane, PlansSane, Request, PlanRecord
<1>3. CreatedOnce' /\ CommittedOnce' /\ PlansSane'
  BY NoPlanAssumption DEF TypeOK, RequestsSane, CreatedOnce, CommittedOnce, PlansSane,
        IsDatabase, Request, PlanRecord
<1>4. LockInv'
  BY NoPlanAssumption DEF TypeOK, LockInv, RequestsSane, CreatedOnce, PlansSane, IsDatabase,
        Referenced, HeldByRequest, Request, PlanRecord
<1>5. ScanStaysTrue'
  BY DEF TypeOK, LockInv, RequestsSane, CreatedOnce, PlansSane, IsDatabase, Referenced,
        HeldByRequest, ScanStaysTrue, Scanned, Request, PlanRecord, Items
<1>6. PublishedByCommit'
  BY DEF TypeOK, LockInv, RequestsSane, CreatedOnce, PlansSane, IsDatabase,
        PublishedByCommit, Request, PlanRecord, Items
<1>7. DeletesSane'
  BY DEF TypeOK, RequestsSane, CreatedOnce, DeletesSane, ModeAllowed, Request, PlanRecord, Phases
<1> QED
  BY <1>1, <1>2, <1>3, <1>4, <1>5, <1>6, <1>7

(* The operator edits peers.json. *)
LEMMA ChangeGrantStep ==
  ASSUME IInv, NEW d \in Devices, NEW g \in Grants \cup {Revoked}, ChangeGrant(d, g)
  PROVE  IInv'
<1> USE ConstantsAssumption DEF ChangeGrant, IInv, Idle, Holding, Committing, Creating
<1>1. TypeOK'
  BY DEF TypeOK, RequestsSane, PlansSane, IsDatabase, Items, Versions, PlanRecord, Phases, Request
<1>2. RequestsSane'
  BY NoPlanAssumption DEF TypeOK, RequestsSane, PlansSane, Request, PlanRecord
<1>3. CreatedOnce' /\ CommittedOnce' /\ PlansSane'
  BY NoPlanAssumption DEF TypeOK, RequestsSane, CreatedOnce, CommittedOnce, PlansSane,
        IsDatabase, Request, PlanRecord
<1>4. LockInv'
  BY NoPlanAssumption DEF TypeOK, LockInv, RequestsSane, CreatedOnce, PlansSane, IsDatabase,
        Referenced, HeldByRequest, Request, PlanRecord
<1>5. ScanStaysTrue'
  BY DEF TypeOK, LockInv, RequestsSane, CreatedOnce, PlansSane, IsDatabase, Referenced,
        HeldByRequest, ScanStaysTrue, Scanned, Request, PlanRecord, Items
<1>6. PublishedByCommit'
  BY DEF TypeOK, LockInv, RequestsSane, CreatedOnce, PlansSane, IsDatabase,
        PublishedByCommit, Request, PlanRecord, Items
<1>7. DeletesSane'
  BY DEF TypeOK, RequestsSane, CreatedOnce, DeletesSane, ModeAllowed, Request, PlanRecord, Phases
<1> QED
  BY <1>1, <1>2, <1>3, <1>4, <1>5, <1>6, <1>7

(* A restart drops every reference and the lock with it. *)
LEMMA RestartStep ==
  ASSUME IInv, Restart
  PROVE  IInv'
<1> USE ConstantsAssumption DEF Restart, IInv, Idle, Holding, Committing, Creating
<1>1. TypeOK'
  <2>1. live' \in [Items -> Versions]
    BY DEF TypeOK, Versions, Items
  <2>2. req' \in [Requests -> Request]
    BY DEF TypeOK, Request, Phases
  <2>3. job' \in [PlanIds -> {"none", "running", "ok", "failed"}]
    BY DEF TypeOK
  <2> QED
    BY <2>1, <2>2, <2>3 DEF TypeOK
<1>2. RequestsSane'
  BY NoPlanAssumption DEF TypeOK, RequestsSane, PlansSane, Request, PlanRecord
<1>3. CreatedOnce' /\ CommittedOnce' /\ PlansSane'
  BY NoPlanAssumption DEF TypeOK, RequestsSane, CreatedOnce, CommittedOnce, PlansSane,
        IsDatabase, Request, PlanRecord
<1>4. LockInv'
  BY NoPlanAssumption DEF TypeOK, LockInv, RequestsSane, CreatedOnce, PlansSane, IsDatabase,
        Referenced, HeldByRequest, Request, PlanRecord
<1>5. ScanStaysTrue'
  BY DEF TypeOK, LockInv, RequestsSane, CreatedOnce, PlansSane, IsDatabase, Referenced,
        HeldByRequest, ScanStaysTrue, Scanned, Request, PlanRecord, Items
<1>6. PublishedByCommit'
  BY DEF TypeOK, LockInv, RequestsSane, CreatedOnce, PlansSane, IsDatabase,
        PublishedByCommit, Request, PlanRecord, Items
<1>7. DeletesSane'
  BY DEF TypeOK, RequestsSane, CreatedOnce, DeletesSane, ModeAllowed, Request, PlanRecord, Phases
<1> QED
  BY <1>1, <1>2, <1>3, <1>4, <1>5, <1>6, <1>7

(* Nothing is referenced, taken or published at the start. *)
LEMMA InitIInv == Init => IInv
  BY ConstantsAssumption
  DEF Init, IInv, TypeOK, RequestsSane, CreatedOnce, CommittedOnce, PlansSane, DeletesSane,
      LockInv, ScanStaysTrue, PublishedByCommit, IsDatabase, Referenced, HeldByRequest,
      Scanned, Idle, Holding, Committing, Creating, Request, Phases, Versions, Items

(* The invariant depends on the variables only. *)
LEMMA StutterIInv == IInv /\ UNCHANGED vars => IInv'
  BY DEF vars, IInv, TypeOK, RequestsSane, CreatedOnce, CommittedOnce, PlansSane, DeletesSane,
         LockInv, ScanStaysTrue, PublishedByCommit, IsDatabase, Referenced, HeldByRequest, Scanned

(* Every step of the server preserves the invariant. *)
LEMMA NextIInv == IInv /\ [Next]_vars => IInv'
<1> SUFFICES ASSUME IInv, Next PROVE IInv'
  BY StutterIInv
<1>1. ASSUME NEW r \in Requests, Handler(r) PROVE IInv'
  BY <1>1, AuthenticateStep, EndRequestStep, RefuseStep, PreparePlanStep, ScanStoreStep,
     InsertPlanStep, StartUploadStep, StartDownloadStep, WriteFileStep, StageNamespaceStep,
     AbortStep, StartCommitStep, DeleteFileStep, CommitFilesStep, StartPublicationStep,
     ResumeCommitStep, SaveGrantStep
  DEF Handler
<1>2. ASSUME NEW p \in PlanIds, Publication(p) PROVE IInv'
  BY <1>2, PublishNamespaceStep, PublishFailsStep, PublishDoneStep DEF Publication
<1> QED
  BY <1>1, <1>2, TtlElapsesStep, ExpiryTaskStep, ChangeGrantStep, RestartStep DEF Next

(* The inductive invariant: how table, handlers, jobs and the lock agree. *)
THEOREM Invariance == Spec => []IInv
  BY InitIInv, NextIInv, PTL DEF Spec

(* Every variable of the server keeps its type. *)
THEOREM TypeCorrect == Spec => []TypeOK
  BY Invariance, PTL DEF IInv

(* At most one plan's database store is in use, for any number of plans    *)
(* and of concurrent requests.                                             *)
THEOREM Exclusive == Spec => []DatabaseExclusive
<1>1. IInv => DatabaseExclusive
  BY DEF IInv, LockInv, DatabaseExclusive
<1> QED
  BY <1>1, Invariance, PTL

(* What a database plan was computed from stays true until its own commit. *)
THEOREM ScanTrueUntilCommit == Spec => []ScanStaysTrue
  BY Invariance, PTL DEF IInv

(* Only committed plans whose data was received show up in a namespace. *)
THEOREM Published == Spec => []PublishedByCommit
  BY Invariance, PTL DEF IInv

(* No plan is committed by two handlers, or used while it is committed. *)
THEOREM TakenOnce == Spec => []CommittedOnce
  BY Invariance, PTL DEF IInv

-----------------------------------------------------------------------------
(* The steps that do more than keep the data and perhaps drop the lock. *)
NotableStep ==
  \/ \E r \in Requests, p \in PlanIds, direction \in {"pull", "push"},
        mode \in {"incremental", "mirror"}, db \in BOOLEAN :
        PreparePlan(r, p, direction, mode, db)
  \/ \E r \in Requests, x \in Items : DeleteFile(r, x)
  \/ \E r \in Requests, x \in Plain : WriteFile(r, x)
  \/ \E p \in PlanIds, n \in Namespaces : PublishNamespace(p, n)
  \/ \E p \in PlanIds, n \in Namespaces : PublishFails(p, n)
  \/ Restart

(* Any other step keeps the data directory and at most drops the lock. *)
LEMMA OtherSteps ==
  ASSUME Next, ~NotableStep
  PROVE  UNCHANGED live /\ lock' \in {lock, Free}
<1>1. ASSUME NEW r \in Requests,
             \/ \E d \in Devices : Authenticate(r, d)
             \/ EndRequest(r) \/ Refuse(r) \/ ScanStore(r)
             \/ \E transfer, delete \in SUBSET Items : InsertPlan(r, transfer, delete)
      PROVE  UNCHANGED live /\ lock' \in {lock, Free}
  BY <1>1 DEF Authenticate, EndRequest, Refuse, ScanStore, InsertPlan, DropUnreferenced
<1>2. ASSUME NEW r \in Requests,
             \/ \E p \in PlanIds, items \in SUBSET Items : StartUpload(r, p, items)
             \/ \E p \in PlanIds : StartDownload(r, p)
             \/ \E n \in Namespaces : StageNamespace(r, n)
      PROVE  UNCHANGED live /\ lock' \in {lock, Free}
  BY <1>2 DEF StartUpload, StartDownload, OpenStore, StageNamespace, DropUnreferenced
<1>3. ASSUME NEW r \in Requests,
             \/ \E p \in PlanIds : Abort(r, p) \/ StartCommit(r, p)
             \/ CommitFiles(r) \/ StartPublication(r) \/ ResumeCommit(r) \/ SaveGrant(r)
      PROVE  UNCHANGED live /\ lock' \in {lock, Free}
  BY <1>3 DEF Abort, StartCommit, TakePlan, CommitFiles, StartPublication, ResumeCommit,
              SaveGrant, DropUnreferenced
<1>4. ASSUME NEW p \in PlanIds, PublishDone(p) \/ TtlElapses(p) \/ ExpiryTask(p)
      PROVE  UNCHANGED live /\ lock' \in {lock, Free}
  BY <1>4 DEF PublishDone, TtlElapses, ExpiryTask, DropUnreferenced
<1>5. ASSUME NEW d \in Devices, NEW g \in Grants \cup {Revoked}, ChangeGrant(d, g)
      PROVE  UNCHANGED live /\ lock' \in {lock, Free}
  BY <1>5 DEF ChangeGrant
<1>6. ASSUME NEW r \in Requests, Handler(r)
      PROVE  UNCHANGED live /\ lock' \in {lock, Free}
  BY <1>1, <1>2, <1>3, <1>6 DEF Handler, NotableStep
<1>7. ASSUME NEW p \in PlanIds, Publication(p)
      PROVE  UNCHANGED live /\ lock' \in {lock, Free}
  BY <1>4, <1>7 DEF Publication, NotableStep
<1> QED
  BY <1>4, <1>5, <1>6, <1>7 DEF Next, NotableStep

(* Ordinary files are removed only by Mirror commits that may delete. *)
THEOREM DeletionsAuthorized == Spec => DeletesAuthorized
<1> DEFINE Authorized(x) ==
      \E r \in Requests :
        /\ req[r].at = "deleting" /\ x \in req[r].todo
        /\ "mirror_delete" \in req[r].grant
        /\ plan[req[r].target].mode = "mirror"
<1>1. ASSUME IInv, Next, NEW x \in Plain, live[x] # Absent, live'[x] = Absent
      PROVE  Authorized(x)
  <2> USE <1>1, ConstantsAssumption DEF IInv, TypeOK, Items
  <2>1. ASSUME NEW r \in Requests, NEW y \in Items, DeleteFile(r, y) PROVE Authorized(x)
    BY <2>1 DEF DeleteFile, DeletesSane
  <2>2. ASSUME NEW r \in Requests, NEW y \in Plain, WriteFile(r, y) PROVE FALSE
    BY <2>2 DEF WriteFile, RequestsSane, Holding
  <2>3. ASSUME NEW p \in PlanIds, NEW n \in Namespaces, PublishNamespace(p, n) \/ PublishFails(p, n)
        PROVE  FALSE
    BY <2>3 DEF PublishNamespace, PublishFails
  <2>4. CASE Restart
    BY <2>4 DEF Restart
  <2>5. ASSUME UNCHANGED live PROVE FALSE
    BY <2>5
  <2>6. ASSUME NEW r \in Requests, NEW p \in PlanIds, NEW direction \in {"pull", "push"},
               NEW mode \in {"incremental", "mirror"}, NEW db \in BOOLEAN,
               PreparePlan(r, p, direction, mode, db)
        PROVE  FALSE
    BY <2>5, <2>6 DEF PreparePlan
  <2> QED
    BY <2>1, <2>2, <2>3, <2>4, <2>5, <2>6, OtherSteps DEF NotableStep
<1>2. IInv /\ [Next]_vars =>
        [\A x \in Plain : live[x] # Absent /\ live'[x] = Absent => Authorized(x)]_vars
  BY <1>1
<1> QED
  BY <1>2, Invariance, PTL DEF Spec, DeletesAuthorized

-----------------------------------------------------------------------------
(* Refinement.                                                             *)

(* A step that leaves the namespaces alone and at most gives the lock up   *)
(* is a Release or nothing at all.                                         *)
LEMMA QuietStep ==
  ASSUME TypeOK, \A n \in Namespaces : live'[n] = live[n], lock' \in {lock, Free}
  PROVE  [Promise!Next]_<<lock, [n \in Namespaces |-> live[n]]>>
  BY ConstantsAssumption DEF TypeOK, Promise!Next, Promise!Release

(* Whoever publishes holds the lock. *)
LEMMA PublisherHolds ==
  ASSUME IInv, NEW p \in PlanIds, job[p] = "running"
  PROVE  lock = p
  BY DEF IInv, PlansSane, LockInv, Referenced

(* A change of one namespace by a running job is a Replace of its plan. *)
LEMMA ReplaceStep ==
  ASSUME IInv, NEW p \in PlanIds, NEW n \in Namespaces, job[p] = "running",
         lock' \in {p, Free}, NEW v \in {p, Absent}, live' = [live EXCEPT ![n] = v]
  PROVE  [Promise!Next]_<<lock, [m \in Namespaces |-> live[m]]>>
<1> DEFINE data == [m \in Namespaces |-> live[m]]
<1>1. lock = p
  BY PublisherHolds
<1>2. data' = [data EXCEPT ![n] = v]
  BY DEF IInv, TypeOK, Items
<1>3. Promise!Replace(p, n)
  BY <1>1, <1>2 DEF Promise!Replace
<1> QED
  BY <1>3 DEF Promise!Next

(* Every step of the server is a step of ExclusiveDatabase or a stutter. *)
LEMMA StepSimulation ==
  IInv /\ [Next]_vars => [Promise!Next]_<<lock, [n \in Namespaces |-> live[n]]>>
<1> SUFFICES ASSUME IInv, [Next]_vars
             PROVE  [Promise!Next]_<<lock, [n \in Namespaces |-> live[n]]>>
  OBVIOUS
<1> DEFINE Quiet == (\A n \in Namespaces : live'[n] = live[n]) /\ lock' \in {lock, Free}
<1> USE ConstantsAssumption DEF IInv
<1>1. ASSUME NEW r \in Requests, NEW p \in PlanIds, NEW direction \in {"pull", "push"},
             NEW mode \in {"incremental", "mirror"}, NEW db \in BOOLEAN,
             PreparePlan(r, p, direction, mode, db)
      PROVE  [Promise!Next]_<<lock, [n \in Namespaces |-> live[n]]>>
  BY <1>1 DEF PreparePlan, Promise!Next, Promise!Acquire
<1>2. ASSUME NEW r \in Requests, NEW x \in Items, DeleteFile(r, x) PROVE Quiet
  BY <1>2 DEF DeleteFile, TypeOK, Items
<1>3. ASSUME NEW r \in Requests, NEW x \in Plain, WriteFile(r, x) PROVE Quiet
  BY <1>3 DEF WriteFile, TypeOK, Items
<1>4. ASSUME NEW p \in PlanIds, NEW n \in Namespaces, PublishNamespace(p, n)
      PROVE  [Promise!Next]_<<lock, [m \in Namespaces |-> live[m]]>>
  <2>1. lock' \in {p, Free} /\ \E v \in {p, Absent} : live' = [live EXCEPT ![n] = v]
    BY <1>4, PublisherHolds DEF PublishNamespace
  <2> QED
    BY <1>4, <2>1, ReplaceStep DEF PublishNamespace
<1>5. ASSUME NEW p \in PlanIds, NEW n \in Namespaces, PublishFails(p, n)
      PROVE  [Promise!Next]_<<lock, [m \in Namespaces |-> live[m]]>>
  <2>1. lock' \in {p, Free} /\ lock = p
    BY <1>5, PublisherHolds DEF PublishFails, DropUnreferenced
  <2>2. CASE UNCHANGED live
    BY <2>1, <2>2, QuietStep
  <2>3. CASE live' = [live EXCEPT ![n] = Absent]
    BY <1>5, <2>1, <2>3, ReplaceStep DEF PublishFails
  <2> QED
    BY <1>5, <2>2, <2>3 DEF PublishFails
<1>6. ASSUME Restart PROVE [Promise!Next]_<<lock, [m \in Namespaces |-> live[m]]>>
  <2>1. CASE UNCHANGED live
    BY <1>6, <2>1, QuietStep DEF Restart
  <2>2. ASSUME NEW p \in PlanIds, NEW n \in left[p], job[p] = "running",
               live' = [live EXCEPT ![n] = Absent]
        PROVE  [Promise!Next]_<<lock, [m \in Namespaces |-> live[m]]>>
    <3>1. n \in Namespaces /\ lock' \in {p, Free}
      BY <1>6 DEF TypeOK, Restart
    <3> QED
      BY <2>2, <3>1, ReplaceStep
  <2> QED
    BY <1>6, <2>1, <2>2 DEF Restart
<1>7. ASSUME UNCHANGED live, lock' \in {lock, Free} PROVE Quiet
  BY <1>7
<1>8. ASSUME Quiet PROVE [Promise!Next]_<<lock, [m \in Namespaces |-> live[m]]>>
  BY <1>8, QuietStep
<1>9. CASE UNCHANGED vars
  BY <1>7, <1>8, <1>9 DEF vars
<1> QED
  BY <1>1, <1>2, <1>3, <1>4, <1>5, <1>6, <1>7, <1>8, <1>9, OtherSteps DEF NotableStep

(* The server implements the exclusive database: the lock is the right of  *)
(* access and every change of a namespace is made by its holder.           *)
THEOREM Refinement == Spec => ImplementsExclusiveDatabase
<1>1. Init => Promise!Init
  BY DEF Init, Promise!Init, Items
<1> QED
  BY <1>1, StepSimulation, Invariance, PTL DEF Spec, Promise!Spec, ImplementsExclusiveDatabase
=============================================================================
