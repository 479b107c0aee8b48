------------------------------- MODULE Host -------------------------------
(***************************************************************************)
(* The machine a TT-Sync server runs on: config.toml, the state directory  *)
(* (identity.json, tls/key.pem, tls/cert.pem), the processes that share    *)
(* them without any lock, and the service manager that keeps one of them   *)
(* alive.                                                                  *)
(*                                                                         *)
(* Three processes run the program: the terminal interface ("tui"), which  *)
(* may also serve in-process, one command-line invocation ("cli"), and the *)
(* user service ("service").  A command is a program of steps; between two *)
(* steps the other processes run, and any process may be killed.           *)
(*                                                                         *)
(* std::fs::write truncates the file and then fills it: two steps, and a   *)
(* kill between them leaves the file Torn.  write_atomic_text writes a     *)
(* temporary file and renames it: one step.  A key stands for its SPKI     *)
(* hash, a certificate for the key it was made for.  What is only printed, *)
(* the pairing token that `pair` stores (module PeerAdmin) and the         *)
(* connections a stopped server still finishes are left out.               *)
(***************************************************************************)
EXTENDS Integers, Sequences, FiniteSets

CONSTANTS
    Configs,     \* the configurations somebody may choose
    Keys,        \* TLS keys that can be generated, as numbers
    Ids,         \* device identities that can be generated, as numbers
    ExtKeys,     \* keys of the certificate the operator manages
    NoPin,       \* public_spki_sha256 is not set
    Absent,      \* no such file, no value yet
    Torn,        \* a file that exists and cannot be parsed
    Managers,    \* service managers considered
    Hands,       \* bound on the commands people have under way at once
    MaxMishaps   \* bound on kills and on changes made by hand, together

ASSUME HostAssumption ==
    /\ \A c \in Configs : c.tls \in {"self", "external"}
    /\ Keys \subseteq Int /\ Ids \subseteq Int
    /\ Managers \subseteq {"systemd", "launchd", "tasks"}
    /\ ExtKeys # {} /\ ExtKeys \cap Keys = {}
    /\ Absent # Torn
    /\ \A none \in {Absent, Torn} : none \notin Configs /\ none \notin Keys
                                   /\ none \notin Ids /\ none \notin ExtKeys
    /\ \A c \in Configs : c.pin \notin Keys
    /\ Hands \in Nat /\ MaxMishaps \in Nat

Procs == {"tui", "cli", "service"}
Servers == {"tui", "service"}

VARIABLES
    config,    \* config.toml
    identity,  \* identity.json
    key,       \* tls/key.pem
    cert,      \* tls/cert.pem
    ext,       \* the external certificate and its key
    run,       \* per process: the command it is executing
    server,    \* per process that serves: its server
    open,      \* the terminal interface is open
    closing,   \* addresses its stopped servers have not released yet
    manager,   \* the platform's service manager
    wanted,    \* the user service is to run
    shown,     \* user_service_active, as the Serve screen last read it
    pins,      \* history: pins given to devices
    ids,       \* history: identities a server has started with
    raced,     \* history: "tls", "identity" once two writers overlapped
    damaged,   \* history: files whose writer was killed
    mishaps    \* kills and changes made by hand so far

files == <<config, identity, key, cert, ext>>
ui == <<open, closing, shown>>
service == <<manager, wanted>>
history == <<pins, ids, damaged>>
vars == <<files, run, server, ui, service, history, raced, mishaps>>

Off == Absent
Idle == [step |-> "idle", todo |-> << >>, cfg |-> Absent, id |-> Absent, pem |-> Absent]

---------------------------------------------------------------------------
\* The commands, as programs.

\* start_server: the configuration, the identity, the certificate, the port.
StartServer == <<"config", "identity", "tls", "bind">>

\* `init`: only where no config.toml exists.
CmdInit == <<"unused", "save", "identity", "tls">>

\* `pair open` hands out a pair URI with the pin in it.
CmdPairOpen == <<"config", "tls", "hand_out">>

\* `doctor` also reads identity.json and peers.json and changes neither,
\* but its certificate check is load_tls, which creates what is missing.
CmdDoctor == <<"config", "tls">>
CmdCertShow == <<"config", "tls">>
CmdCertRotateLeaf == <<"config", "resign", "tls">>

\* Onboarding: a form filled from config.toml, written when confirmed, and
\* then the choice between this process and a user service.
Onboard == <<"prefill", "form", "save", "identity", "tls", "service_mode">>

Started(program) == [Idle EXCEPT !.step = Head(program), !.todo = Tail(program)]
Begin(p, program) == run' = [run EXCEPT ![p] = Started(program)]

\* The process record once its current step has returned.
Returned(r) ==
    IF r.todo = << >> THEN Idle
    ELSE [r EXCEPT !.step = Head(r.todo), !.todo = Tail(r.todo)]

At(p, step) == run[p].step = step
Return(p) == run' = [run EXCEPT ![p] = Returned(run[p])]
Running(p) == run[p] # Idle \/ (p \in Servers /\ server[p] # Off)

\* Another command may be started by hand.
HandFree ==
    Cardinality({p \in {"tui", "cli"} : run[p].step \notin {"idle", "form", "service_mode"}})
        < Hands

\* Every step of onboarding has the choice of service mode before it.
Onboarding ==
    LET r == run["tui"] IN r.todo # << >> /\ r.todo[Len(r.todo)] = "service_mode"

\* An error ends the command.  The terminal interface shows it and goes on,
\* except in onboarding, where handle_key returns it and the process exits
\* with the server it runs.
Fail(p) ==
    /\ run' = [run EXCEPT ![p] = Idle]
    /\ IF p = "tui" /\ Onboarding
       THEN /\ open' = FALSE
            /\ closing' = {}
            /\ server' = [server EXCEPT ![p] = Off]
            /\ UNCHANGED shown
       ELSE UNCHANGED <<server, ui>>

---------------------------------------------------------------------------
\* config.toml

LoadConfig(p) ==
    /\ At(p, "config")
    /\ \/ /\ config \in Configs
          /\ run' = [run EXCEPT ![p] = Returned([run[p] EXCEPT !.cfg = config])]
          /\ UNCHANGED <<server, ui>>
       \/ config \notin Configs /\ Fail(p)
    /\ UNCHANGED <<files, service, history, mishaps>>

\* A configuration that init or a first onboarding writes.
Fresh(c) == c.tls = "self" /\ c.pin = NoPin

RefuseInitialized(p) ==
    /\ At(p, "unused")
    /\ \/ /\ config = Absent
          /\ \E c \in Configs :
                /\ Fresh(c)
                /\ run' = [run EXCEPT ![p] = Returned([run[p] EXCEPT !.cfg = c])]
          /\ UNCHANGED <<server, ui>>
       \/ config # Absent /\ Fail(p)
    /\ UNCHANGED <<files, service, history, mishaps>>

\* What the form can yield: build_config keeps the TLS files and the explicit
\* pin that the form was filled with and does not show.
BuildConfig(c) ==
    IF config = Absent THEN Fresh(c) ELSE c.tls = config.tls /\ c.pin = config.pin

PrefillFromConfig(p) ==
    /\ At(p, "prefill")
    /\ \/ /\ config # Torn
          /\ \E c \in Configs :
                /\ BuildConfig(c)
                /\ run' = [run EXCEPT ![p] = Returned([run[p] EXCEPT !.cfg = c])]
          /\ UNCHANGED <<server, ui>>
       \/ config = Torn /\ Fail(p)
    /\ UNCHANGED <<files, service, history, mishaps>>

ConfirmWriteConfig(p) ==
    /\ At(p, "form") /\ HandFree
    /\ Return(p)
    /\ UNCHANGED <<files, server, ui, service, history, mishaps>>

\* Esc leaves the form, or the choice at its end.
LeaveForm(p) ==
    /\ At(p, "form") \/ At(p, "service_mode")
    /\ run' = [run EXCEPT ![p] = Idle]
    /\ UNCHANGED <<files, server, ui, service, history, mishaps>>

\* save_config: a plain std::fs::write.
TruncateConfig(p) ==
    /\ At(p, "save")
    /\ config' = Torn
    /\ run' = [run EXCEPT ![p].step = "write_config"]
    /\ UNCHANGED <<identity, key, cert, ext, server, ui, service, history, mishaps>>

WriteConfig(p) ==
    /\ At(p, "write_config")
    /\ config' = run[p].cfg
    /\ damaged' = damaged \ {"config"}
    /\ Return(p)
    /\ UNCHANGED <<identity, key, cert, ext, server, ui, service, pins, ids, mishaps>>

---------------------------------------------------------------------------
\* identity.json

UsedIds == {identity} \cup {run[q].id : q \in Procs} \cup ids
FreshIds == {i \in Ids \ UsedIds : \A j \in Ids \ UsedIds : i <= j}

\* Mutant: onboarding writes a new identity.
LoadOrCreateIdentityAnew(p) ==
    /\ At(p, "identity")
    /\ \/ /\ identity \in Ids /\ ~(p = "tui" /\ Onboarding)
          /\ run' = [run EXCEPT ![p] = Returned([run[p] EXCEPT !.id = identity])]
          /\ UNCHANGED <<server, ui>>
       \/ /\ identity # Torn /\ (identity = Absent \/ (p = "tui" /\ Onboarding))
          /\ \E i \in FreshIds :
                run' = [run EXCEPT ![p].id = i, ![p].step = "truncate_identity"]
          /\ UNCHANGED <<server, ui>>
       \/ identity = Torn /\ Fail(p)
    /\ UNCHANGED <<files, service, history, mishaps>>

\* load_or_create_identity: the file is created when it does not exist, and
\* an unreadable one is an error.
LoadOrCreateIdentity(p) ==
    /\ At(p, "identity")
    /\ \/ /\ identity \in Ids
          /\ run' = [run EXCEPT ![p] = Returned([run[p] EXCEPT !.id = identity])]
          /\ UNCHANGED <<server, ui>>
       \/ /\ identity = Absent
          /\ \E i \in FreshIds :
                run' = [run EXCEPT ![p].id = i, ![p].step = "truncate_identity"]
          /\ UNCHANGED <<server, ui>>
       \/ identity = Torn /\ Fail(p)
    /\ UNCHANGED <<files, service, history, mishaps>>

\* save_identity: a plain std::fs::write.
TruncateIdentity(p) ==
    /\ At(p, "truncate_identity")
    /\ identity' = Torn
    /\ run' = [run EXCEPT ![p].step = "write_identity"]
    /\ UNCHANGED <<config, key, cert, ext, server, ui, service, history, mishaps>>

WriteIdentity(p) ==
    /\ At(p, "write_identity")
    /\ identity' = run[p].id
    /\ damaged' = damaged \ {"identity"}
    /\ Return(p)
    /\ UNCHANGED <<config, key, cert, ext, server, ui, service, pins, ids, mishaps>>

---------------------------------------------------------------------------
\* The TLS key and certificate

\* tls_paths: the external files, or those of the state directory.
CertFile(c) == IF c.tls = "external" THEN ext ELSE cert
KeyFile(c) == IF c.tls = "external" THEN ext ELSE key

UsedKeys == {key, cert} \cup {run[q].pem : q \in Procs} \cup pins
            \cup {server[q].key : q \in {r \in Servers : server[r] # Off}}
FreshKeys == {k \in Keys \ UsedKeys : \A j \in Keys \ UsedKeys : k <= j}

\* Mutant: a certificate that cannot be read counts as missing.
LoadTlsUnreadable(p) ==
    /\ At(p, "tls")
    /\ LET found == run[p].cfg.tls = "external" \/ (key # Absent /\ cert \in Keys) IN
       \/ found /\ run' = [run EXCEPT ![p].step = "read_cert"]
       \/ /\ ~found
          /\ \E k \in FreshKeys :
                run' = [run EXCEPT ![p].pem = k, ![p].step = "write_key"]
    /\ UNCHANGED <<files, server, ui, service, history, mishaps>>

\* load_or_create: a new key unless both files exist, whatever they hold.
LoadTls(p) ==
    /\ At(p, "tls")
    /\ LET found == run[p].cfg.tls = "external" \/ (key # Absent /\ cert # Absent) IN
       \/ found /\ run' = [run EXCEPT ![p].step = "read_cert"]
       \/ /\ ~found
          /\ \E k \in FreshKeys :
                run' = [run EXCEPT ![p].pem = k, ![p].step = "write_key"]
    /\ UNCHANGED <<files, server, ui, service, history, mishaps>>

\* Mutant: a certificate that does not parse is used all the same.
ReadCertUnparsed(p) ==
    /\ At(p, "read_cert")
    /\ run' = [run EXCEPT ![p].pem = CertFile(run[p].cfg), ![p].step = "read_key"]
    /\ UNCHANGED <<files, server, ui, service, history, mishaps>>

\* from_pem_files reads the certificate, then the key, and refuses a pair
\* that does not belong together.
ReadCert(p) ==
    /\ At(p, "read_cert")
    /\ LET file == CertFile(run[p].cfg) IN
       \/ /\ file \notin {Absent, Torn}
          /\ run' = [run EXCEPT ![p].pem = file, ![p].step = "read_key"]
          /\ UNCHANGED <<server, ui>>
       \/ file \in {Absent, Torn} /\ Fail(p)
    /\ UNCHANGED <<files, service, history, mishaps>>

ReadKey(p) ==
    /\ At(p, "read_key")
    /\ \/ /\ KeyFile(run[p].cfg) = run[p].pem
          /\ Return(p)
          /\ UNCHANGED <<server, ui>>
       \/ KeyFile(run[p].cfg) # run[p].pem /\ Fail(p)
    /\ UNCHANGED <<files, service, history, mishaps>>

WriteKey(p) ==
    /\ At(p, "write_key")
    /\ key' = run[p].pem
    /\ run' = [run EXCEPT ![p].step = "write_cert"]
    /\ UNCHANGED <<config, identity, cert, ext, server, ui, service, history, mishaps>>

WriteCert(p) ==
    /\ At(p, "write_cert")
    /\ cert' = run[p].pem
    /\ damaged' = damaged \ {"cert"}
    /\ Return(p)
    /\ UNCHANGED <<config, identity, key, ext, server, ui, service, pins, ids, mishaps>>

\* cert rotate-leaf: a certificate for the key on disk, self-managed only.
ReadKeyToSign(p) ==
    /\ At(p, "resign")
    /\ \/ /\ run[p].cfg.tls = "self" /\ key \in Keys
          /\ run' = [run EXCEPT ![p].pem = key, ![p].step = "truncate_cert"]
          /\ UNCHANGED <<server, ui>>
       \/ ~(run[p].cfg.tls = "self" /\ key \in Keys) /\ Fail(p)
    /\ UNCHANGED <<files, service, history, mishaps>>

\* The new certificate is saved by a plain std::fs::write.
TruncateCert(p) ==
    /\ At(p, "truncate_cert")
    /\ cert' = Torn
    /\ run' = [run EXCEPT ![p].step = "rewrite_cert"]
    /\ UNCHANGED <<config, identity, key, ext, server, ui, service, history, mishaps>>

\* Mutant: the certificate is made with a key pair of its own.
RewriteCertNewPair(p) ==
    /\ At(p, "rewrite_cert")
    /\ \E k \in FreshKeys : cert' = k
    /\ damaged' = damaged \ {"cert"}
    /\ Return(p)
    /\ UNCHANGED <<config, identity, key, ext, server, ui, service, pins, ids, mishaps>>

RewriteCert(p) ==
    /\ At(p, "rewrite_cert")
    /\ cert' = run[p].pem
    /\ damaged' = damaged \ {"cert"}
    /\ Return(p)
    /\ UNCHANGED <<config, identity, key, ext, server, ui, service, pins, ids, mishaps>>

---------------------------------------------------------------------------
\* Pins and servers

\* The pin a pair URI and the status answer carry.
PairingSpki(c, pem) == IF c.pin # NoPin THEN c.pin ELSE pem

\* The pinned verifier of the client: the hash of the presented key, and
\* nothing else about the certificate.
Accepts(pin, presented) == presented = pin

HandOut(p) ==
    /\ At(p, "hand_out")
    /\ pins' = pins \cup {PairingSpki(run[p].cfg, run[p].pem)}
    /\ Return(p)
    /\ UNCHANGED <<files, server, ui, service, ids, damaged, mishaps>>

Busy(listen) ==
    \/ listen \in closing
    \/ \E q \in Servers : server[q] # Off /\ server[q].listen = listen

\* spawn_server: the port is the only thing two servers cannot share.
Bind(p) ==
    /\ At(p, "bind")
    /\ LET r == run[p] IN
       \/ /\ ~Busy(r.cfg.listen)
          /\ server' = [server EXCEPT ![p] =
                [listen |-> r.cfg.listen, tls |-> r.cfg.tls, key |-> r.pem, id |-> r.id]]
          /\ pins' = pins \cup {PairingSpki(r.cfg, r.pem)}
          /\ ids' = ids \cup {r.id}
          /\ Return(p)
          /\ UNCHANGED ui
       \/ Busy(r.cfg.listen) /\ Fail(p) /\ UNCHANGED <<pins, ids>>
    /\ UNCHANGED <<files, service, damaged, mishaps>>

Step(p) ==
    \/ LoadConfig(p) \/ RefuseInitialized(p) \/ TruncateConfig(p) \/ WriteConfig(p)
    \/ LoadOrCreateIdentity(p) \/ TruncateIdentity(p) \/ WriteIdentity(p)
    \/ LoadTls(p) \/ ReadCert(p) \/ ReadKey(p) \/ WriteKey(p) \/ WriteCert(p)
    \/ ReadKeyToSign(p) \/ TruncateCert(p) \/ RewriteCert(p)
    \/ HandOut(p) \/ Bind(p)

---------------------------------------------------------------------------
\* The service manager (systemd --user, launchd, Task Scheduler)

\* The file a killed process was in the middle of writing.
Hurt(p) ==
    CASE At(p, "write_config") -> {"config"}
      [] At(p, "write_identity") -> {"identity"}
      [] At(p, "rewrite_cert") -> {"cert"}
      [] OTHER -> {}

Kill(p) ==
    /\ run' = [run EXCEPT ![p] = Idle]
    /\ server' = [q \in Servers |-> IF q = p THEN Off ELSE server[q]]
    /\ damaged' = damaged \cup Hurt(p)

\* A new service process; one that is running is killed for it.
Respawn ==
    /\ Begin("service", StartServer)
    /\ server' = [server EXCEPT !["service"] = Off]
    /\ damaged' = damaged \cup Hurt("service")

Spawn ==
    \/ ~Running("service") /\ Respawn
    \/ Running("service") /\ UNCHANGED <<run, server, damaged>>

\* systemctl enable --now leaves a running service alone.
SystemdInstall == manager = "systemd" /\ Spawn

\* launchctl bootout, bootstrap and kickstart -k.
LaunchdInstall == manager = "launchd" /\ Respawn

\* The script stops a running task, registers it anew and starts it.
TasksInstall == manager = "tasks" /\ Respawn

InstallEnableNow ==
    /\ wanted' = TRUE
    /\ SystemdInstall \/ LaunchdInstall \/ TasksInstall

\* launchctl kickstart -k replaces a running service, too; the others do
\* nothing when it runs.
StartService ==
    /\ wanted' = TRUE
    /\ IF manager = "launchd" THEN Respawn ELSE Spawn

StopService ==
    /\ wanted' = FALSE
    /\ Kill("service")

\* is_active: launchd knows whether the job is loaded, the others whether
\* its process runs.
IsActive == IF manager = "launchd" THEN wanted ELSE Running("service")

\* Mutant: a unit without Restart=.
ManagerRestartKeepAlive ==
    /\ manager = "launchd"
    /\ wanted /\ ~Running("service")
    /\ Respawn
    /\ UNCHANGED <<files, ui, service, pins, ids, mishaps>>

\* Restart=on-failure and KeepAlive; a scheduled task is not started again.
Restarting == {"systemd", "launchd"}

ManagerRestart ==
    /\ manager \in Restarting
    /\ wanted /\ ~Running("service")
    /\ Respawn
    /\ UNCHANGED <<files, ui, service, pins, ids, mishaps>>

---------------------------------------------------------------------------
\* The terminal interface

TuiIdle == open /\ run["tui"] = Idle

\* run_with refuses an unreadable config.toml.
OpenTui ==
    /\ ~open /\ config # Torn
    /\ open' = TRUE
    /\ shown' = IsActive
    /\ UNCHANGED <<files, run, server, closing, service, history, mishaps>>

\* Leaving the interface ends its process, and every server in it.
QuitTui ==
    /\ TuiIdle \/ At("tui", "form") \/ At("tui", "service_mode")
    /\ Kill("tui")
    /\ open' = FALSE
    /\ closing' = {}
    /\ UNCHANGED <<files, shown, service, pins, ids, mishaps>>

TuiBegin(program) ==
    /\ TuiIdle /\ HandFree
    /\ Begin("tui", program)
    /\ UNCHANGED <<files, server, ui, service, history, mishaps>>

StartOnboard == TuiBegin(Onboard)
StartForeground == server["tui"] = Off /\ TuiBegin(StartServer)
StartPairing == TuiBegin(CmdPairOpen)
RunDoctor == TuiBegin(CmdDoctor)

\* ServerHandle::shutdown asks the server to stop and does not wait for it.
ShutDownForeground ==
    closing' = IF server["tui"] = Off THEN closing
               ELSE closing \cup {server["tui"].listen}

StopForeground ==
    /\ TuiIdle /\ server["tui"] # Off
    /\ ShutDownForeground
    /\ server' = [server EXCEPT !["tui"] = Off]
    /\ UNCHANGED <<files, run, open, shown, service, history, mishaps>>

ReleasePort(listen) ==
    /\ listen \in closing
    /\ closing' = closing \ {listen}
    /\ UNCHANGED <<files, run, server, open, shown, service, history, mishaps>>

EnterServe ==
    /\ TuiIdle
    /\ shown' = IsActive
    /\ UNCHANGED <<files, run, server, open, closing, service, history, mishaps>>

\* The Serve screen offers to start or to stop the service by what it last
\* read, and reads again after each of the three commands.
InstallUserService ==
    /\ TuiIdle
    /\ InstallEnableNow
    /\ shown' = TRUE
    /\ UNCHANGED <<files, open, closing, manager, pins, ids, mishaps>>

StartUserService ==
    /\ TuiIdle /\ ~shown
    /\ StartService
    /\ shown' = TRUE
    /\ UNCHANGED <<files, open, closing, manager, pins, ids, mishaps>>

StopUserService ==
    /\ TuiIdle /\ shown
    /\ StopService
    /\ shown' = FALSE
    /\ UNCHANGED <<files, open, closing, manager, pins, ids, mishaps>>

\* The last step of onboarding: the in-process server makes room for the
\* user service, or is started.
OnboardUserService ==
    /\ At("tui", "service_mode")
    /\ ShutDownForeground
    /\ wanted' = TRUE
    /\ LET keeps == manager = "systemd" /\ Running("service")
       IN  /\ run' = [run EXCEPT !["tui"] = Idle,
                                 !["service"] = IF keeps THEN @ ELSE Started(StartServer)]
           /\ server' = [server EXCEPT !["tui"] = Off,
                                       !["service"] = IF keeps THEN @ ELSE Off]
           /\ damaged' = damaged \cup (IF keeps THEN {} ELSE Hurt("service"))
    /\ UNCHANGED <<files, open, shown, manager, pins, ids, mishaps>>

OnboardForeground ==
    /\ At("tui", "service_mode") /\ HandFree
    /\ IF server["tui"] = Off THEN Begin("tui", StartServer) ELSE Return("tui")
    /\ UNCHANGED <<files, server, ui, service, history, mishaps>>

Tui ==
    \/ OpenTui \/ QuitTui \/ StartOnboard \/ StartForeground \/ StartPairing \/ RunDoctor
    \/ PrefillFromConfig("tui") \/ ConfirmWriteConfig("tui") \/ LeaveForm("tui")
    \/ StopForeground \/ EnterServe
    \/ OnboardUserService \/ OnboardForeground

ServiceCommand == InstallUserService \/ StartUserService \/ StopUserService

---------------------------------------------------------------------------
\* The command line, and what the operator does by hand

CliBegin(program) ==
    /\ ~Running("cli") /\ HandFree
    /\ Begin("cli", program)
    /\ UNCHANGED <<files, server, ui, service, history, mishaps>>

Cli ==
    \/ CliBegin(CmdInit)
    \/ CliBegin(CmdPairOpen)
    \/ CliBegin(CmdDoctor)
    \/ CliBegin(CmdCertShow)
    \/ CliBegin(CmdCertRotateLeaf)

EditConfig ==
    /\ mishaps < MaxMishaps
    /\ \E c \in Configs \cup {Absent} : c # config /\ config' = c
    /\ damaged' = damaged \ {"config"}
    /\ mishaps' = mishaps + 1
    /\ UNCHANGED <<identity, key, cert, ext, run, server, ui, service, pins, ids>>

RenewExternal ==
    /\ mishaps < MaxMishaps
    /\ \E k \in ExtKeys : k # ext /\ ext' = k
    /\ mishaps' = mishaps + 1
    /\ UNCHANGED <<config, identity, key, cert, run, server, ui, service, history>>

Crash(p) ==
    /\ Running(p) \/ (p = "tui" /\ open)
    /\ mishaps < MaxMishaps
    /\ mishaps' = mishaps + 1
    /\ Kill(p)
    /\ IF p = "tui" THEN open' = FALSE /\ closing' = {} ELSE UNCHANGED <<open, closing>>
    /\ UNCHANGED <<files, shown, service, pins, ids>>

---------------------------------------------------------------------------
Init ==
    /\ config \in Configs \cup {Absent}
    /\ identity = Absent /\ key = Absent /\ cert = Absent
    /\ ext = CHOOSE k \in ExtKeys : TRUE
    /\ run = [p \in Procs |-> Idle]
    /\ server = [p \in Servers |-> Off]
    /\ open = FALSE /\ closing = {} /\ shown = FALSE
    /\ manager \in Managers /\ wanted = FALSE
    /\ pins = {} /\ ids = {} /\ raced = {} /\ damaged = {}
    /\ mishaps = 0

\* The steps between deciding to write the key pair (the identity) and
\* having written it.
Writing(file) ==
    {p \in Procs : run[p].step \in
        IF file = "tls" THEN {"write_key", "write_cert", "truncate_cert", "rewrite_cert"}
        ELSE {"truncate_identity", "write_identity"}}

Overlaps == {f \in {"tls", "identity"} : Cardinality(Writing(f)) > 1}

Move ==
    \/ \E p \in Procs : Step(p) \/ Crash(p)
    \/ ManagerRestart \/ Tui \/ ServiceCommand \/ Cli
    \/ \E c \in Configs : ReleasePort(c.listen)
    \/ EditConfig \/ RenewExternal

Next == Move /\ raced' = raced \cup Overlaps'

\* A started process goes on, a stopped server releases its port, and the
\* service manager restarts what has failed.
Fairness ==
    /\ WF_vars(Step("service") /\ raced' = raced \cup Overlaps')
    /\ WF_vars(ManagerRestart /\ raced' = raced \cup Overlaps')
    /\ \A l \in {c.listen : c \in Configs} :
          WF_vars(ReleasePort(l) /\ raced' = raced \cup Overlaps')

Spec == Init /\ [][Next]_vars /\ Fairness

---------------------------------------------------------------------------
\* Properties

\* Every variable keeps its shape: no unreadable file is ever taken for a
\* key, an identity or a configuration by a process that goes on.
TypeOK ==
    /\ config \in Configs \cup {Absent, Torn}
    /\ identity \in Ids \cup {Absent, Torn}
    /\ key \in Keys \cup {Absent}
    /\ cert \in Keys \cup {Absent, Torn}
    /\ ext \in ExtKeys
    /\ \A p \in Procs :
          /\ run[p].cfg \in Configs \cup {Absent}
          /\ run[p].id \in Ids \cup {Absent}
          /\ run[p].pem \in Keys \cup ExtKeys \cup {Absent}
    /\ \A p \in Servers : server[p] # Off =>
                /\ server[p].id \in Ids
                /\ server[p].key \in IF server[p].tls = "self" THEN Keys ELSE ExtKeys
    /\ open \in BOOLEAN /\ wanted \in BOOLEAN /\ shown \in BOOLEAN
    /\ run["tui"] # Idle \/ server["tui"] # Off \/ closing # {} => open
    /\ manager \in Managers
    /\ raced \subseteq {"tls", "identity"}
    /\ damaged \subseteq {"config", "identity", "cert"}
    /\ mishaps \in 0..MaxMishaps

\* A self-managed pin, once a device has it, stays good: it is the key on
\* disk, and every self-managed server that runs presents it, whatever
\* crashed, was rotated or was switched to external files and back.  Only
\* two processes that wrote the key pair at the same time can break it.
PinsHold ==
    "tls" \notin raced =>
        \A pin \in pins \cap Keys :
            /\ key = pin
            /\ \A p \in Servers : server[p] # Off /\ server[p].tls = "self"
                                  => Accepts(pin, server[p].key)

\* A server that has started with a device id is the only one paired
\* devices ever meet here: later starts use the same identity.json, unless
\* two processes were creating it at the same time.
IdentityKept == "identity" \notin raced => ids \subseteq {identity}

\* A file is unreadable only while it is being written or because its
\* writer was killed, and the certificate is never one for another key:
\* what rotate-leaf repairs is at most a torn certificate.
FilesWhole ==
    /\ config = Torn => "config" \in damaged \/ \E p \in Procs : At(p, "write_config")
    /\ identity = Torn => "identity" \in damaged \/ \E p \in Procs : At(p, "write_identity")
    /\ cert = Torn => "cert" \in damaged \/ \E p \in Procs : At(p, "rewrite_cert")
    /\ "tls" \notin raced => cert \in {Absent, Torn, key}

\* What a start needs: readable files, and an address no other process
\* serves on.  A stopped server that still holds the port is no obstacle.
Ready ==
    /\ wanted
    /\ config \in Configs
    /\ identity # Torn
    /\ config.tls = "self" => cert \in {Absent, key} \/ key = Absent
    /\ server["tui"] # Off => server["tui"].listen # config.listen

\* Where the manager restarts what fails, a wanted service serves in the
\* end, if its files stay readable, its address stays free and nobody goes
\* on pressing the service buttons: also when it was started while the
\* in-process server that made room for it still held the port.
ServiceComesUp ==
    manager \in Restarting =>
        (<>[]Ready /\ <>[][~ServiceCommand]_vars => <>[](server["service"] # Off))
===========================================================================
