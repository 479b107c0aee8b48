# TT-Sync: a verification project

TLA+ modules for the core of TT-Sync, TLC configurations that check them on
small instances, and TLAPS proofs of the results that matter most. Paths below
are relative to the repository's root; `tla/PROJECT.json` maps every definition
to the lines it models.

## 1. The system

TT-Sync keeps the data directory of a SillyTavern/TauriTavern installation in
step with a server over HTTPS. A client runs *rounds*: it opens a session, scans
the files its dataset selection covers, asks the server for a plan (which files
to transfer and, in Mirror mode, to delete), transfers them one by one or as one
bundle, applies the deletions and commits. Databases are directories
(`db-<name>`) that are only ever replaced as a whole.

| Component | State it keeps | Operations | What is hard |
|---|---|---|---|
| Plan table and transfer handlers (`ttsync-http/src/server/{plans,handlers,auth}.rs`, `ttsync-fs/src/manifest_store.rs`) | open plans with owner, scope, expiry and a reference-counted store; the process-wide database lock | pull-plan, push-plan, download, upload, bundle download and upload, commit, abort, expiry | handlers interleave at every await and can be dropped there; a stream outlives its plan; the guard must be released by the last user, and always is |
| Database transfer (`ttsync-fs/src/databases.rs`) | staging directory, planned groups, `applied`, `rollback_failed` | set_plan, write_file, commit (two renames per namespace), Drop | failure or death between the renames; late uploads; truth of the report |
| Planner (`ttsync-core/src/plan.rs`) | none | compute_plan, scope validation | Exact / PreferNewer, Incremental / Mirror, namespaces as groups, ties |
| Client engine (`ttsync-client/src/{engine,bundle,workspace}.rs`) | plan, task set, change tracker, remote guard | pull, direct_push | concurrent transfers, first error, lost answers, cancellation, what the host is told |
| Synchronization round (engine and server together) | the files of both sides | scan, plan, transfer, delete, publish | edits between scan, read and write; interrupted rounds and what the next one makes of them |
| File writer (`ttsync-fs/src/writer.rs`) | the destination and its temporary file | write_file_atomic, rename_with_retry, set mtime, delete_file | a temporary path shared by concurrent writes; rename before time stamp; pruning a tree others use |
| Session manager (`ttsync-core/src/session.rs`) | nonces, sessions | open_session, validate_session | delayed and repeated requests; the clock is read before the mutexes are taken |
| Peer store and pairing (`ttsync-fs/src/peer_store.rs`, `ttsync-http/src/pairing_store.rs`, `ttsync-core/src/pairing.rs`) | `peers.json`, one file per pairing token | save, remove, list; insert, take, remove | several processes write one file; one-time tokens |
| Dataset policy, manifest scan, layout (`ttsync-core/src/dataset`, `ttsync-fs/src/{manifest,layout}.rs`) | none | resolve a selection, classify, descend, scan, map to mounts | two sets of rules that must agree; runs that end and files that vanish during the scan |
| Bundle streams (`ttsync-core/src/bundle.rs`, `server/bundle.rs`) | none | frame, copy exactly, expect the end | short and long files, trailing bytes |
| Command line and terminal interface (`ttsync-cli`) | `config.toml`, `identity.json`, screens, an in-process server | init, serve, pair, doctor, cert, peers; onboarding, pairing, peers, serve and doctor screens | several processes on the same files without a lock; files written in place; lists that are stale when used |
| TLS identity (`ttsync-http/src/{tls,client}.rs`) | `tls/key.pem`, `tls/cert.pem` | load or create, rotate, verify the pin | created by whoever comes first, `doctor` included; a pin that was handed out must stay good |
| Service managers (`ttsync-cli/src/{systemd,launch_agent,windows_task_scheduler,user_service}.rs`) | the installed unit, whether it is to run | install, start, stop, is_active | the port is still taken when the service starts; each manager restarts differently |

Interactions: the handlers call the plan table, which owns the prepared store,
which owns the database guard and the database transfer; both the server's store
and the client's workspace write through the file writer; the session manager
and the peer store authenticate every handler; the engine drives everything over
HTTP, where any answer can be lost; operators change `peers.json` behind the
server's back.

What makes each component correct:

* plan table: exclusive access to databases from scan to publication; a plan is
  consumed once; deletions need the permission; the lock is given back as soon as no
  handler uses its plan any more, at the latest when the plan expires;
* database transfer: a namespace is the old one, the planned one or absent, never
  a mixture; old data is not lost; the report is true;
* planner and rounds: equal stamps mean equal bytes; a round leaves what the
  policy says and repeating it does nothing; PreferNewer never goes back;
* engine: the host is told of every change; deletions last; guards released;
* writer: the destination is whole, a planned time stands on its own bytes;
* scan: every selected file that is there is listed, once, and no file of an active run; what is
  outside the selection does not make it fail;
  pruning never reaches a scan root;
* sessions: a signed request is good for one session (up to deliveries at both ends of its
  time window);
* peers and pairing: a token pairs once, a replaced one not at all (unless its file could not
  be removed); the screens ask about every new device; `peers.json` stays readable and loses
  no change;
* host: a pin and a device id that were given out stay good; files are readable unless
  their writer was killed; a service that is wanted comes up.

## 2. Modules

| Module | Models | Used by |
|---|---|---|
| `PlanServer` | handlers, plan table, prepared store, expiry, restart, grants | `MCPlanServer`, `PlanServerProofs` |
| `ExclusiveDatabase` | abstract specification: one holder, namespaces replaced as a whole by it | `PlanServer` (refinement mapping) |
| `DatabaseTransfer` | one transfer of database files, down to the renames | `MCDatabaseTransfer`, `StorageProofs` |
| `Planner` | compute_plan as operators on manifests | `SyncRound` |
| `SyncRound` | rounds of both sides, one after the other, while files are edited | `MCSyncRound`, `SyncRoundProofs` |
| `ClientEngine` | one call of `pull` or `direct_push` | `MCClientEngine`, `ClientEngineProofs` |
| `FileWriter` | `write_file_to_path` on inodes and paths | `MCFileWriter`, `StorageProofs` |
| `DatasetPolicy` | catalog, rules, profiles, resolved selections, prune boundaries, as operators | `WorkspaceScan` |
| `WorkspaceScan` | mounts, the scan entry by entry, `delete_file` with pruning, the application at work | `MCWorkspaceScan`, `WorkspaceScanProofs` |
| `PeerAdmin` | peers.json, tokens, pair_complete, command line, pairing and peers screens | `MCPeerAdmin`, `PeerAdminProofs` |
| `Host` | config.toml, identity.json, key pair, the commands and screens that use them, the service manager | `MCHost`, `HostProofs` |
| `Session` | `SessionManager` with late and repeated requests | `MCSession`, `SessionProofs` |

### PlanServer

A handler (`req`) is a process with the phase it is suspended in, its device, the
grant read by `authenticate_peer`, its plan and what it has left to do. The
handlers are split where they await, so everything else, a dropped connection
included (`EndRequest`), can happen in between, and a handler may stay where it is for
ever. `Referenced(p)` says who holds an
`Arc` of the plan's store: the table, a handler between prepare and insert, a
stream, a deleting commit, or the blocking publication job; `DropUnreferenced`
frees the lock with the last of them, exactly as dropping the
`OwnedMutexGuard` does. Every access to the table forgets expired plans
(`Unexpired`). The publication runs on a blocking thread and goes on when its
handler is dropped. `ChangeGrant` is the operator (command line or terminal
interface, another process). A namespace is one item here; what is inside is the
matter of `DatabaseTransfer`. Left open: which files differ (a plan is any set the
planner may return for the scanned scope).

`ImplementsExclusiveDatabase` maps the holder to the plan that holds the lock and
the data to the live namespaces.

### DatabaseTransfer

The live directory, the staged one and `old-<name>` per namespace; uploads that
write a temporary file in the staging directory and rename it; the commit, which
refuses an incomplete namespace, moves the old directory out and the staged one
in, and moves the old one back if that fails; `Drop`, which removes the staging
directory unless a restore failed; death of the process at any point. Every rename
may fail. The order of the namespaces is left open (the code iterates over a map).

### Planner and SyncRound

`Planner` is `compute_plan`: strictly newer targets are kept under PreferNewer, a
namespace by its maximum time; Mirror deletes what only the target has, except in
a namespace that is preserved. `SyncRound` runs any number of rounds. A file is its
size, modification time and, invisible to the planner, the edit its bytes come from
and whether they are a mixture. Reading yields exactly the planned number of bytes
or fails; the write gives them the planned time. `Interrupt` ends a round anywhere, but what
the round has asked for may take effect later (`late`): the upload handler goes on when its
client has gone, so does a commit with its deletions, and a file operation whose caller was
cancelled. `LateChange` is that effect, between rounds or in the middle of one; `overlapped`
records the paths for which a round began before it. `WriteUnstamped` and `LateUnstamped` are
writes that end between rename and time stamp. The publication of databases goes on too, but
it keeps the database lock, so that no round of the databases can begin before it has ended.

### ClientEngine

The stages of `pull` and `direct_push` up to the plan, both transports, the task set
with `file_concurrency`, the tracker, deletions, the local and the remote commit, the
guard of the remote plan with `release` and `Drop`, and cancellation by the host at
every await. The server is what the engine sees: it may apply an upload after the
client has given it up, a commit may succeed, partly fail, be refused, or lose its
answer.

### FileWriter

Inodes and the two paths. A write continues on the file it opened, even when another
call renames it away or truncates it; the time stamp is set by path. `shared` records
that two calls for the destination overlapped, as two plans may (inside one round they
do not); `Replaces` says whether rename replaces an existing file.

### DatasetPolicy and WorkspaceScan

A path is the sequence of its components. `DatasetPolicy` has the two questions the code asks of
a rule: does it match this file (`Matches`), may it match something below this directory
(`MayMatchDescendant`). They are written independently in the code, and a disagreement loses
files silently. `WorkspaceScan` walks the tree with an explicit stack: `read_dir` takes a
listing, each entry is judged when its turn comes, with the run file as it is then. A vanished
directory or file fails the scan, and so does what cannot be read: a directory that `read_dir`
cannot list (`closed`), a name that is not UTF-8 (`undecodable`), a file for which `make_entry`
has no entry, with a time before 1970, a name `SyncPath` refuses or an I/O error (`unlistable`).
The application (external) creates and removes files and ends runs meanwhile; a run that has
ended does not start again. `delete_file` looks up its boundary, removes the file and climbs,
removing empty directories and trees without files, one file system call per step. `Place` says
where the application keeps a file in each layout (the table in `README_EN.md`),
`ResolveToLocal` where the code looks for it. `IsLayout` is what a configured workspace path may
be: in each layout the data directory, the user's directory in it, or for SillyTavern the one
above. `derive` tells these apart by their last component, so the directory above the data
directory must not be called `data` or `default-user` itself, and that of TauriTavern not
`default-user`.

### PeerAdmin

The server, the terminal interface and the command line load and later replace `peers.json`;
each does one save at a time, and they share no lock, but they share the temporary file. Where
two saves overlap (`alone` is false), a rename can therefore publish what the other one wrote,
or a mixture (`Torn`), and a save can report an error although it took effect; `FileWriter` has
the same races down to the inode. A handler whose connection is closed releases the store's
lock, while the file operation it waited for goes on in a blocking thread: that save moves to
the actor `dropped`. A file that is `Torn` is refused by every later load. `take` renames a
token file, which decides between two requests; `complete_pairing` and the save follow later.
The pairing screen keeps the list it polled last, the known devices, the queue of new ones, an
overlay and its token; it polls while an overlay is open. `RefreshToken` ignores that the old
token's file could not be removed, as the code does (`let _ = store.remove(old)`); `stuck`
records these tokens. The peers screen reads its list when it is entered, refreshed or has
saved, and not while an overlay is open. A grant is its permissions; the save of `last_sync_ms`
by commit is in `PlanServer`.

### Host

One machine from its first start on. Three processes run the program: the terminal
interface with the server it may run itself, one command line, and the user service
(`cmd_serve` under the manager; `serve` by hand is the same program). A command is a
sequence of steps (`StartServer`, `CmdInit`, `Onboard`, ...), each of them one file system
call or one decision; between two steps the others run, and a process can be killed.
`std::fs::write` truncates and then writes, so that a kill in between leaves a file `Torn`;
`write_atomic_text` is one step. `LoadTls` is `load_or_create` and `from_pem_files`: it
creates the key pair when one of the two files is missing, for whoever asks. The onboarding
dialogue is a form that ends in the choice between serving in-process and installing the
service; the latter stops the in-process server and starts the service while the port may
still be taken (`closing`, `ReleasePort`). The three managers differ in what they restart:
systemd after a failure, launchd always, the task scheduler never. By hand, the operator may
edit or remove `config.toml` and renew an external certificate (`EditConfig`,
`RenewExternal`, external). `raced` records that two processes were writing the key pair or
the identity at the same time, `damaged` which files lost their writer.

### Session

Requests carry the time of a device whose clock may be off by anything; a call reads
the server's clock once and later takes the two mutexes one after the other. The clock of the
server does not step back.

## 3. Runs

| Run | Configuration | Checks | Distinct states |
|---|---|---|---|
| `server_database` | 2 devices, 2 plans, 2 handlers, 1 namespace | TypeOK, DatabaseExclusive, ScanStaysTrue, PublishedByCommit, CommittedOnce, refinement of ExclusiveDatabase | about 400,000 |
| `server_expiry` | 1 device, 1 plan, 2 handlers, 1 namespace, 1 file, changing grants, fairness | LockReleased, DeletesAuthorized | 138,000 |
| `server_revocation` | as above, for a revoked device | RevocationSticks is violated | |
| `database_transfer` | 2 namespaces of 2 files, 2 uploads | TypeOK, NamespaceWhole, NothingLost, ReportIsTrue | |
| `round` | 1 file of 2 sizes, 1 namespace of 2 files, clock up to 4, every option | TypeOK, SameStampSameBytes, RoundDoesWhatItSays, RoundSettles, NoRegression | 1,657,000 |
| `session` | 2 requests, 2 calls, window 2, nonces kept for 4, clock up to 10 | RepeatedOnlyAtEnds | 224,000 |
| `writer` | 2 writes, payloads of different length, rename that does not replace | DestinationWhole, StampFitsBytes | 467,000 |
| `workspace_scan` | 13 files, 8 layouts and workspace paths, 8 selections, 2 edits with 1 deletion, or 2 deletions, or 1 thing that cannot be read | TypeOK, ManifestComplete, ManifestSound, FailureExplained, PruneStopsAtRoot | 149,000 |
| `engine` | 2 files and 1 database file to transfer, 1 of each to delete, 2 tasks | TypeOK, LocalChangesReported, RemoteChangesReported, DeletionsLast, GuardReleased | 53,000 |
| `peer_admin` | 2 devices, 2 tokens, 2 requests, 1 preset | TypeOK, TokenPairsOnce, ReplacedTokenDead, NewPeersReviewed, SavesKept | 1,027,000 |
| `peer_admin_panics` | as `peer_admin` | PairedDeviceListed is violated | |
| `host` | 2 configurations, 3 keys, 2 identities, 3 managers, 1 kill or change by hand, fairness | TypeOK, PinsHold, IdentityKept, FilesWhole, ServiceComesUp | 960,000 |

Why the bounds are enough. In `PlanServer` every property is about two plans or two
handlers that meet, so two of each reach every conflict; a third handler only repeats
one. The proofs remove these bounds for the safety properties. In `DatabaseTransfer`
two namespaces are needed for a publication that stops in the middle, two files for a
mixture, two uploads for a late one. A clock of 4 in `SyncRound` is three edits on top
of the initial files: one on each side and one during a round; the number of rounds is
not bounded. The file and the namespace are there together only before the first edit
(`Focus`): the planner treats them apart, and one round with both shows that they do not
disturb each other. At most one late change is pending, of the ordinary file (the only kind
there is), and once a round has begun while one is, that round is the last one: what follows is
excepted (`overlapped`), and the proofs need no such bound. `Session` has the code's relation of
the two durations, `NonceTtl = 2 * TimeWindow`, and enough time for a request to be signed early,
to be delivered at both ends of its window, and for its nonce to expire. `ClientEngine` has
more files than tasks, so that a task is started after another was joined. `PeerAdmin`
has two requests for one token, and a second device that arrives while the first is being
asked about; its properties do not depend on which permissions are granted, so one preset
is enough. Once saves have overlapped, only their ends are explored, and what follows if they
leave an unreadable file: SavesKept claims nothing of later saves, and the other properties
do not depend on which change of `peers.json` won.

`Host` lets one command at a time be under way in the terminal interface and the command
line (`Hands`), next to the service and its restarts, so that any two processes meet; one
mishap is a kill or a change by hand at any point, and each property is about what one of
them leaves behind. Three keys are the first one, one that replaces it and one a second
process makes at the same time. States in which two writers of the key pair or the identity
have met are checked and not explored further.

`WorkspaceScan` enumerates cases instead of the product of everything: all layouts on a quiet
tree, because mounts do not depend on who else is at work; all selections on one layout; two
edits around the runs; two deletions that prune the directories of the very tree that is
scanned, or one of them and an edit that fills a directory it is about to remove; one file,
directory or name that cannot be read, of each kind, inside the selection, outside it and behind
the link, in a selection that covers it and in one that does not. The tree has a
file of each kind the rules tell apart, a scan root that is a file, a link, a temporary file and
a tree without files. The proofs need none of these bounds.

Deadlock is checked except in `DatabaseTransfer`, `ClientEngine` and `WorkspaceScan`, whose
one transfer, call or scan ends.

### What the violations show

* `server_revocation`: `commit` saves, at its end, the grant it read when it was
  authenticated. A device revoked meanwhile is a peer again.
* `peer_admin_panics`: the pairing screen asks for the permissions of a new device and
  polls `peers.json` meanwhile. If the device is revoked elsewhere, it is no longer in the
  list when the choice is made, and the lookup that expects it panics.

More weaknesses are named by exceptions in properties that otherwise hold:

* `NoRegression` excepts paths with a write that ended between rename and time stamp
  (`write_file_to_path` renames first). Old bytes then have a new time, and a PreferNewer round
  in the other direction replaces a newer edit by them, although the planner says that "a stale
  source cannot revert the target's latest write" (plan.rs). It also excepts paths where a round
  began while a write of an earlier, given-up round was still to come (`overlapped`): nothing
  ends the upload handler of a client that has gone, nor a file operation whose caller was
  cancelled. If such a write puts old bytes back after a later round has scanned the file and
  before it reads it, they are sent with the newer time and replace a newer edit. The property
  shows that these are the only two ways in which a round reverts what it has scanned. That the
  late write itself may replace an edit made after *its* round's scan is true of every write
  (section 5) and not what the property is about.
* `SameStampSameBytes` excepts the paths in `overlapped`: two uploads of a file that is edited
  before the second one reads it, both planned with its old stamp, can end in the wrong order.
* `RepeatedOnlyAtEnds` leaves what the configuration allows: with `nonce_ttl_ms = 2 *
  time_window_ms` (session.rs) a request that is delivered in the first and again in the last
  millisecond of its window, or shortly before to a slow call, opens two sessions: a purge
  forgets the nonce when its time is up, while the window check, made earlier or with `<=`,
  still accepts the request. `NonceTtl > 2 * TimeWindow + MaxStall` would exclude it.
* `ReplacedTokenDead` excepts tokens whose file could not be removed when they were replaced
  (`stuck`): the error is ignored, and the code that was on the screen pairs until it expires.
* `DestinationWhole` and `StampFitsBytes` except destinations with overlapping calls
  (`shared`): the temporary path depends on the destination only, and two plans that write the
  same ordinary file at once can publish a mixture, although the function says "Write data to a
  file atomically" (writer.rs). One call after the other, however they fail, cannot.
* `RemoteChangesReported` excepts bundled files that grew since the scan: all planned bytes
  are sent before `expect_eof` fails, so the server has replaced the file, while the failure
  says `remote_maybe_changed = false`. Again there is no other way.
* `SavesKept` excepts overlapping saves of `peers.json`: the lock belongs to one store object
  and every user has another, and a dropped handler gives it back too early. A change is then
  lost, or the file becomes unreadable, and stays so because every save reads it first.
* `FilesWhole` excepts files whose writer was killed: `identity.json`, `config.toml` and the
  rotated certificate are written in place. A server then does not start until somebody
  repairs the file (`cert rotate-leaf` repairs the certificate).
* `PinsHold` and `IdentityKept` except two processes that create the same missing files at
  the same time; the certificate check of `doctor` is one of those that create.

### Fairness

Two runs need it. In `server_expiry`: weak fairness of `TtlElapses` and `ExpiryTask`: time
passes, and the task spawned by `PlanStore::insert` sleeps and then runs.
`Publication`: a blocking job runs to its end whatever becomes of its handler.
None is assumed of clients, which may never commit, abort or come back, nor of
`EndRequest`: `server.rs` sets no read or request timeout and no keepalive, so that the stream
of a peer that has vanished may stay open, and its handler keeps the store and with it the
database lock for ever, whatever becomes of the plan. LockReleased therefore says that a handler
that holds the store and never ends is the only thing that can keep the lock for ever: once
plans are expired as plans.rs says ("Expire them even when no further request arrives"), no
table, job or forgotten reference does.

In `host`: weak fairness of the steps of the service process (a started process runs),
of `ManagerRestart` (systemd and launchd restart what ended, by the `Restart=` and
`KeepAlive` the installed files ask for; systemd's limit on the number of starts is not
modelled) and of `ReleasePort` (a stopped server closes its listener). None is assumed of
people: ServiceComesUp is about a service that is wanted, has readable files and a free
address from some time on, and is no longer commanded.

## 4. Proofs

TLAPS proves, for any number of devices, plans, handlers, namespaces, files and
requests:

* `PlanServerProofs`: type correctness, DatabaseExclusive, ScanStaysTrue,
  PublishedByCommit, CommittedOnce, the action property DeletesAuthorized, and that
  `PlanServer` implements `ExclusiveDatabase`. Exclusiveness is not inductive: that no
  two stores are referenced follows from *every referenced database store is the one
  that holds the lock*, which in turn needs that a handler past `prepare` belongs to a
  plan of its own, that a plan in the table has been recorded, and that a running job
  belongs to a plan no longer in the table. `IInv` collects these facts, one lemma per
  action shows that it is kept, and the refinement uses that a publishing job holds
  the lock.
* `StorageProofs`, on `DatabaseTransfer`: type correctness, NamespaceWhole, NothingLost,
  ReportIsTrue. The invariant says where the data of a namespace is: applied, in
  place, or moved out with the old directory known to be whole and the staged one
  known to be complete; and that uploads in flight write only planned files, which is
  why a late upload cannot disturb a namespace that was found complete.
* `SessionProofs`: type correctness and RepeatedOnlyAtEnds, for any window, any lifetimes and
  any `MaxStall`. A request can be accepted from `stamp - TimeWindow` to `stamp + TimeWindow`,
  and a call can act `MaxStall` after it has read the clock. The invariant is that the nonce a
  call has recorded is kept until `NonceTtl` after the time it read, so that a call that
  records the same nonce again has read the clock `NonceTtl - MaxStall` later at least. With the
  program's `NonceTtl = 2 * TimeWindow` that leaves the two ends of the window.

* `StorageProofs`, on `FileWriter`: type correctness, DestinationWhole and StampFitsBytes, for
  any number of calls, files and payload lengths, whether or not rename replaces. The
  destination is whole because the temporary file was when it was renamed: the invariant follows
  that file from truncation to rename (its contents are the first `wrote` chunks of the one call
  that is at work), and says that it is never the destination and carries no planned time, also
  when it was left behind by a failed call. Type correctness holds for overlapping calls too: no
  write behind the end of a truncated file makes it longer than the longest payload.

* `SyncRoundProofs`: type correctness, SameStampSameBytes, RoundDoesWhatItSays, RoundSettles
  and the action property NoRegression, for any paths, namespaces, sizes, selections and
  number of edits. None of them is inductive. The argument rests on the clock: an edit gives
  its file a time that nothing else has (`Past`, and `ClientSide` between the two scans), so a
  file edited after a scan has another stamp than everything the manifests name. Bytes that
  were read carry the planned stamp, and wherever a file has that stamp it has those bytes
  (`InFlight`): that keeps SameStampSameBytes through the write. `Staging` and `TargetSide` say,
  path by path, what the round has done so far, given what is left of the plan (`Planned`) and
  that the source is as scanned where its user left it alone (`SourceSide`); at the end this is
  `Outcome`, and lemmas about `Planner` for arbitrary manifests (when a path is in the plan,
  which namespace is replaced, which kept) turn it into the winner the policy names. For
  NoRegression the invariant also orders edits (`EditsInOrder`): of two stamped files at one
  path, the one with the later time has the later edit. Late changes are bytes in flight of an
  earlier round (`ToCome`): between rounds they keep the facts about stamps and edits, and
  during a round they count as changes of somebody else (`touched`), which is why only paths
  whose round began before they took effect are excepted.
* `ClientEngineProofs`: type correctness, LocalChangesReported, RemoteChangesReported,
  DeletionsLast and the action property GuardReleased, for any finite set of files and any
  `file_concurrency` of at least 1. The tracker may lag behind the workspace only by what an
  `error_changed` task, or the flag it sets when it is joined, accounts for (`LocalSide`); a file
  that was sent has a task under way, or one that failed with the flag (`Tasks`), so that a
  failure without the flag has nothing sent (`Told`). `Told` is about sent files and not only
  about changed ones because the server may still apply an upload after the call is over.
  Deletions come last because the join loop does not stop with files left unless one has
  failed (`Queue`): this is where the number of tasks counts, as there is room for a task
  whenever none is running.
* `PeerAdminProofs`: type correctness, TokenPairsOnce, ReplacedTokenDead, NewPeersReviewed and
  SavesKept, for any number of tokens and requests and any finite set of devices. A token is at
  one place of its life: not created, a file, in the hands of one request, or spent
  (`TokensSpent`); `take` moves it from the second to the third for one request only. As long
  as no saves have overlapped, a save under way is the only one and has loaded what is still
  there (`Saves`); this holds for one that has outlived its handler too.
* `HostProofs`: type correctness, PinsHold, IdentityKept and FilesWhole, for any
  configurations, keys, identities and any number of kills and changes by hand, beyond the
  states the run explores: the proof has no constraint on how commands overlap. `Shapes` says
  where in its program a command can be and what it then has read; `Alone`, that two writers
  of the key pair or the identity at the same time are recorded in `raced`. Apart from those, a
  key is written only while there is no certificate (`TlsSafe`), and only what was read as a
  pair is served or handed out; since a certificate, once there, is at most torn and signed
  again with the same key, a pin stays good through kills, `doctor` and `rotate-leaf`. The
  argument for the identity is the same with one file (`IdSafe`), and an unreadable file has a
  writer at work or had one that was killed (`Whole`).

* `WorkspaceScanProofs`: type correctness, ManifestComplete, ManifestSound, FailureExplained and
  the action property PruneStopsAtRoot, for any finite set of names, any number of deletions and
  edits, any selection and every layout `IsLayout` allows. The proof has three layers.
  *Paths.* `ResolveIsPlace`: the code looks for every name where the application keeps it;
  `PlaceInjective` and its lemmas: names have different places, and one is above the other
  exactly if the names are (but for the root of the extensions, which a SillyTavern layout keeps
  apart, `Apart`). So the path of a file and its name can be exchanged during the walk.
  *Rules.* `MayMatchAbove`: whatever rule of the catalog matches a file, `may_match_descendant`
  is true of every directory above it; with `ExcludedBelow`, no directory on the way to a
  selected file is skipped. `Selection`: of a selection, the scan roots are without repetition
  and none is below another one, and every rule is below one of them.
  *The walk.* While the stack is not empty, `Spine` says that each directory on it is being read
  on behalf of the one before, which does not list it any more, that it was entered only after
  the run it belongs to had ended, and that it is still as it was read unless something was
  removed (`lost`). What is still to come is then well defined (`Pending`, `InStack`, `InRoots`,
  and the single files in `exact`), and two statements about it meet: `Nothing`, a wanted file
  is in the manifest or still to come, gives completeness; `Once`, a listed file is not to come
  again, gives soundness. `Past` and `Tree` say what the application and the deletions can have
  done meanwhile, and are kept by every step (`Meanwhile`). `Pruning` says of a deletion that
  whatever it is about to look at or remove is below its boundary, and that the boundary is a
  scan root. FailureExplained is a part of the invariant: a directory that `Spine` knows to be
  as it was read cannot have vanished, and the walk enters only directories the selection asks
  for (`Entered`), so that what it cannot read is in one of them.

The invariants were model-checked before they were proved, on the instances of the runs
(for `Host` also without the constraint, on 20 million states).

Assumptions on constants are named in the module that declares them and evaluated by TLC:
distinct model values and disjoint sets; finite sets of files (`ClientEngine`, `WorkspaceScan`) and
of devices (`PeerAdmin`); at least one task and a positive clock bound. `WorkspaceScan` assumes of
its names what holds in any file system, that no file is above another file or directory; of its
cases `IsLayout`; and, because the prover does not know it of string literals, that the components
the code names are strings.

Folds. `ScanRoots`, `ExpandDatasetIds` and `Retain` are folds over the selection (`FoldLeft`,
defined by a recursive function over sets of indices). What they compute is proved by an
induction made by hand: `NatSet` (a set with 0 and every successor has all naturals) comes from
the well-foundedness of `<` and the minimum of a set (`WFMin`), so no operator has to be
instantiated, and `FoldExists` builds the fold step by step.

Every safety and action property that a run checks is thus also proved, except the two that are
violated. Only model-checked are `LockReleased` and `ServiceComesUp`: liveness under
fairness is out of the prover's reach.

## 5. What is abstracted, and what is not modelled

* Signatures, TLS and tokens are assumed sound: only requests a device signed are
  delivered, only the owner of a session uses it.
* In `SyncRound` reads and directory scans are atomic snapshots (the scan itself is in
  `WorkspaceScan`, without sizes and times); a file edited while
  it is read is covered by `torn`. Two edits of a file have different modification
  times.
* `SyncRound`: database files are not edited during a round that selects them (the hosts freeze
  them, `ClientWorkspace::prepare`). A source that grew since the scan is always delivered
  truncated; in the code the transfer then also fails, which the model covers by `Interrupt`. Of
  a round that is given up, only what it has already asked for takes effect later: a write whose
  bytes were all read, and the deletions of a commit that has begun. `NoRegression` says nothing
  of a target edited after the scan: the write replaces it.
* `DatabaseTransfer`: one upload per file at a time; a temporary file left behind by a
  failed upload moves into the live directory with the staged one and is ignored.
* A cancelled `tokio::fs` operation may still take effect on its thread; `FileWriter`
  counts it as done before the cancellation or not at all.
* `WorkspaceScan`: names that match a pattern (`.tmp-*`, `db-*`, `*.json`) are members of small
  sets; the checks of one path (`exists`, `is_dir`, `metadata`, the reading of a run file) are
  one step; the listing `read_dir` gives is the one at its call. What cannot be read stays so
  for the whole scan; a run file that cannot be read is `broken`. A directory that may not be
  entered, so that `exists` answers false of what is in it, is left out, and so are errors of
  `delete_file` other than a file or directory that is gone and a directory that is not empty.
  The catalog keeps one or two datasets of every shape. A workspace path too short to have a
  parent and policy versions are left out.
* `PeerAdmin`: at most one save is running on without its handler. Rename and permissions on the
  peers screen save the grant of a list of any age; the model has the step, and nothing in the
  code promises otherwise.
* `Host`: places and addresses are usable; the temporary files of `write_atomic_text` are not
  modelled, nor connections a stopped server still finishes. `doctor` stops early where the state
  directory is missing, which is covered by a command that fails. Onboarding keeps a server
  that already runs in-process with the old configuration and shows pair URIs for the new one;
  no property is about that.
* `ClientEngine`: progress events, and panics of transfer tasks, are left out; the order
  of the files is left open.
* Not modelled: HTTP request building and decoding, menus, rendering, clipboard and languages,
  the text of unit files, scripts and certificates, framing of bundles, serialization of the
  contract types (see `components` in `PROJECT.json`). They keep no state that others change,
  and what they produce appears in the modules as the values it stands for.

## 6. Plan

Done: the server core with its abstract specification; the database transfer; planner and
rounds; writer; sessions; the engine; peers, pairing and the two screens, with shared temporary
files and dropped handlers; the host with its files, processes and services; datasets, scan,
layouts and pruning. All have proofs of their safety properties.

What could come next:

1. An abstract specification of one-time tokens that `PeerAdmin` implements.
2. `BundleStream`: framing and exact sizes, sender and receiver composed.
3. The totals of a plan with their width (`bytes_total`).
