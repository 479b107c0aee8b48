------------------------------ MODULE PeerAdmin ------------------------------
(***************************************************************************)
(* Who may synchronize: peers.json, the pairing tokens, and everybody who  *)
(* changes them - pair_complete on the server (ttsync-http/src/server/     *)
(* handlers.rs, pairing_store.rs, ttsync-fs/src/peer_store.rs), the        *)
(* commands of the operator (ttsync-cli/src/commands.rs), and the pairing  *)
(* and peers screens of the terminal interface (ttsync-cli/src/tui/).      *)
(*                                                                         *)
(* They are separate processes, or separate stores in one process, that    *)
(* share the files and no lock: a save loads the file and replaces it      *)
(* later, through a temporary file that all of them share.  A grant is     *)
(* reduced to its permissions.  That commit also saves a grant is part of  *)
(* PlanServer.                                                             *)
(***************************************************************************)
EXTENDS Naturals, SequencesExt

CONSTANTS
  Devices,
  Tokens,      \* pairing tokens, each created once
  Requests,    \* pair_complete requests in flight
  Presets,     \* permissions (PermissionPreset)
  ReadWrite,   \* the one the pairing screen gives out
  NoPeer, NoDevice, NoToken, NoSave, NoRequest,
  Torn         \* a peers.json that cannot be parsed

ASSUME AdminAssumption ==
  /\ IsFiniteSet(Devices)
  /\ ReadWrite \in Presets
  /\ NoPeer \notin Presets
  /\ NoDevice \notin Devices
  /\ NoToken \notin Tokens

(* Each has one JsonPeerStore, and so one save at a time: the handlers of  *)
(* the server wait for its lock, the other two do nothing else meanwhile.  *)
(* A handler whose connection is closed gives the lock back, but what it   *)
(* has handed to the blocking threads is done all the same: "dropped".     *)
Actors == {"server", "dropped", "tui", "cli"}

PeerMap == [Devices -> Presets \cup {NoPeer}]
Listed(map) == {d \in Devices : map[d] # NoPeer}

Save == [loaded : PeerMap, device : Devices, grant : Presets \cup {NoPeer}, alone : BOOLEAN]
PairRequest == [token : Tokens, device : Devices, at : {"took", "saving"}]
Overlay == [kind : {"none", "permissions", "continue", "rename", "revoke"},
            device : Devices \cup {NoDevice}]
NoOverlay == [kind |-> "none", device |-> NoDevice]

VARIABLES
  peers,     \* peers.json
  saving,    \* what save_peer or remove_peer of each actor has loaded and changes
  fresh,     \* tokens that were not created yet
  files,     \* token files
  expired,   \* tokens whose time has passed
  permits,   \* the permissions a token file holds
  request,   \* pair_complete
  screen,    \* where the terminal interface is
  list,      \* State.peers of the screen
  known,     \* known_peer_ids
  queue,     \* new_peers
  overlay,
  token,     \* the token the pairing screen shows
  shown,     \* the tokens it has shown since it was entered (history)
  stuck,     \* the ones of them it could not remove (history)
  settled,   \* the known devices it has nothing to ask about (history)
  paired,    \* how often a token has paired a device (history)
  ledger,    \* the changes that were made, one after the other (history)
  overlapped \* two saves were under way at the same time (history)

filevars == <<peers, saving, ledger, overlapped>>
tokenvars == <<fresh, files, expired, permits>>
screenvars == <<screen, list, known, queue, overlay, token, shown, stuck, settled>>
vars == <<filevars, tokenvars, request, screenvars, paired>>

(* The types of the files, requests and screens; a queue may name a device *)
(* more than once.                                                         *)
TypeOK ==
  /\ peers \in PeerMap \cup {Torn}
  /\ saving \in [Actors -> Save \cup {NoSave}]
  /\ fresh \subseteq Tokens /\ files \subseteq Tokens \ fresh /\ expired \subseteq Tokens \ fresh
  /\ permits \in [Tokens -> Presets]
  /\ request \in [Requests -> PairRequest \cup {NoRequest}]
  /\ screen \in {"home", "pairing", "peers", "panicked"}
  /\ list \in PeerMap
  /\ known \subseteq Devices
  /\ queue \in Seq(Devices)
  /\ overlay \in Overlay
  /\ token \in Tokens \cup {NoToken}
  /\ shown \subseteq Tokens /\ stuck \subseteq Tokens /\ settled \subseteq known
  /\ paired \in [Tokens -> Nat]
  /\ ledger \in PeerMap
  /\ overlapped \in BOOLEAN

Nobody == [d \in Devices |-> NoPeer]

Init ==
  /\ peers \in PeerMap
  /\ ledger = peers /\ overlapped = FALSE
  /\ saving = [a \in Actors |-> NoSave]
  /\ fresh = Tokens /\ files = {} /\ expired = {}
  /\ permits = [t \in Tokens |-> ReadWrite]
  /\ request = [r \in Requests |-> NoRequest]
  /\ screen = "home"
  /\ list = Nobody /\ known = {} /\ queue = <<>>
  /\ overlay = NoOverlay
  /\ token = NoToken /\ shown = {} /\ stuck = {} /\ settled = {}
  /\ paired = [t \in Tokens |-> 0]

-----------------------------------------------------------------------------
(* JsonPeerStore.                                                          *)

Underway == {a \in Actors : saving[a] # NoSave}

(* save_peer and remove_peer (grant NoPeer) load the file, which they do   *)
(* not overwrite when they cannot parse it ...                             *)
Load(a, d, grant) ==
  /\ saving[a] = NoSave
  /\ peers # Torn
  /\ saving' = [b \in Actors |->
       IF b = a
         THEN [loaded |-> peers, device |-> d, grant |-> grant, alone |-> Underway = {}]
         ELSE IF saving[b] = NoSave THEN NoSave ELSE [saving[b] EXCEPT !.alone = FALSE]]
  /\ overlapped' = (overlapped \/ Underway # {})
  /\ ledger' = IF overlapped' THEN Nobody ELSE ledger
  /\ UNCHANGED peers

Changed(save) == [save.loaded EXCEPT ![save.device] = save.grant]

(* ... and replace it by what they loaded, with their change.  Others that *)
(* are under way truncate and write the same temporary file: then it can   *)
(* be what they write that is renamed, or a mixture.                       *)
Replace(a) ==
  /\ saving[a] # NoSave
  /\ peers' \in {Changed(saving[a])} \cup
       (IF saving[a].alone THEN {} ELSE {Changed(saving[b]) : b \in Underway} \cup {Torn})
  /\ saving' = [saving EXCEPT ![a] = NoSave]
  /\ ledger' = IF overlapped THEN ledger ELSE [ledger EXCEPT ![saving[a].device] = saving[a].grant]
  /\ UNCHANGED overlapped

(* Mutant: peers.json is written in place. *)
GiveUpInPlace(a) ==
  /\ saving[a] # NoSave
  /\ peers' \in {peers, Torn}
  /\ saving' = [saving EXCEPT ![a] = NoSave]
  /\ UNCHANGED <<ledger, overlapped>>

(* Or they fail, and the file stays as it is, or as others have made it:   *)
(* what they wrote can have been renamed by another.                       *)
GiveUp(a) ==
  /\ saving[a] # NoSave
  /\ peers' \in {peers} \cup (IF saving[a].alone THEN {} ELSE {Changed(saving[a]), Torn})
  /\ saving' = [saving EXCEPT ![a] = NoSave]
  /\ UNCHANGED <<ledger, overlapped>>

(* list_peers, or nothing where it fails and the error is shown. *)
Readings == IF peers = Torn THEN {Nobody} ELSE {peers, Nobody}

-----------------------------------------------------------------------------
(* Tokens and the server.                                                  *)

(* Mutant: the same token may be made again. *)
InsertAgain(t, grant) ==
  /\ t \in fresh
  /\ permits' = [permits EXCEPT ![t] = grant]
  /\ UNCHANGED fresh

(* PairingTokenStore::insert of a random token. *)
Insert(t, grant) ==
  /\ t \in fresh
  /\ fresh' = fresh \ {t}
  /\ permits' = [permits EXCEPT ![t] = grant]

Expire(t) ==
  /\ t \notin fresh \cup expired
  /\ expired' = expired \cup {t}
  /\ UNCHANGED <<filevars, fresh, files, permits, request, screenvars, paired>>

(* Mutant: the token file is read, and removed only when the device is saved. *)
TakeLater(r, t, d) ==
  /\ request[r] = NoRequest
  /\ t \in files
  /\ t \notin expired
  /\ request' = [request EXCEPT ![r] = [token |-> t, device |-> d, at |-> "took"]]
  /\ UNCHANGED <<filevars, tokenvars, screenvars, paired>>

(* PairingTokenStore::take: the rename of the token file decides between   *)
(* two requests; an expired token is gone as well.                         *)
Take(r, t, d) ==
  /\ request[r] = NoRequest
  /\ t \in files
  /\ files' = files \ {t}
  /\ request' = IF t \in expired THEN request
                ELSE [request EXCEPT ![r] = [token |-> t, device |-> d, at |-> "took"]]
  /\ UNCHANGED <<filevars, fresh, expired, permits, screenvars, paired>>

(* complete_pairing has made a grant of the request at once, and save_peer *)
(* has now the lock of the server's store; the token may expire meanwhile. *)
CompletePairing(r) ==
  /\ request[r] # NoRequest /\ request[r].at = "took"
  /\ Load("server", request[r].device, permits[request[r].token])
  /\ request' = [request EXCEPT ![r] =
       [token |-> request[r].token, device |-> request[r].device, at |-> "saving"]]
  /\ UNCHANGED <<tokenvars, screenvars, paired>>

SavePairing(r) ==
  /\ request[r] # NoRequest /\ request[r].at = "saving"
  /\ Replace("server")
  /\ request' = [request EXCEPT ![r] = NoRequest]
  /\ paired' = [paired EXCEPT ![request[r].token] = paired[request[r].token] + 1]
  /\ UNCHANGED <<tokenvars, screenvars>>

(* An expired token, a key that is none, an I/O error or a connection that *)
(* was closed: the token is spent all the same.                            *)
PairingFails(r) ==
  /\ request[r] # NoRequest
  /\ IF request[r].at = "saving" THEN GiveUp("server") ELSE UNCHANGED filevars
  /\ request' = [request EXCEPT ![r] = NoRequest]
  /\ UNCHANGED <<tokenvars, screenvars, paired>>

(* The connection is closed while the save runs: the handler and its lock  *)
(* are gone, the write or the rename it waited for goes on, and the device *)
(* may be paired.                                                          *)
DropPairing(r) ==
  /\ request[r] # NoRequest /\ request[r].at = "saving"
  /\ saving["dropped"] = NoSave
  /\ saving' = [saving EXCEPT !["dropped"] = saving["server"], !["server"] = NoSave]
  /\ request' = [request EXCEPT ![r] = NoRequest]
  /\ paired' = [paired EXCEPT ![request[r].token] = paired[request[r].token] + 1]
  /\ UNCHANGED <<peers, ledger, overlapped, tokenvars, screenvars>>

DroppedEnds ==
  /\ Replace("dropped") \/ GiveUp("dropped")
  /\ UNCHANGED <<tokenvars, request, screenvars, paired>>

-----------------------------------------------------------------------------
(* The command line.                                                       *)

(* cmd_pair_open *)
PairOpen(t, grant) ==
  /\ Insert(t, grant)
  /\ files' = files \cup {t}
  /\ UNCHANGED <<filevars, expired, request, screenvars, paired>>

(* cmd_peers_revoke *)
PeersRevoke(d) ==
  /\ Load("cli", d, NoPeer)
  /\ UNCHANGED <<tokenvars, request, screenvars, paired>>

PeersRevoked ==
  /\ Replace("cli") \/ GiveUp("cli")
  /\ UNCHANGED <<tokenvars, request, screenvars, paired>>

-----------------------------------------------------------------------------
(* The pairing screen.                                                     *)

(* It runs its saves to the end before it looks at keys or the clock.      *)
On(s) == screen = s /\ saving["tui"] = NoSave

(* Mutant: a new device replaces what the overlay is about. *)
OpenNextNow(waiting) ==
  IF waiting # <<>>
    THEN overlay' = [kind |-> "permissions", device |-> Head(waiting)] /\ queue' = Tail(waiting)
    ELSE queue' = waiting /\ UNCHANGED overlay

(* maybe_open_next_new_peer *)
OpenNext(waiting) ==
  IF overlay = NoOverlay /\ waiting # <<>>
    THEN overlay' = [kind |-> "permissions", device |-> Head(waiting)] /\ queue' = Tail(waiting)
    ELSE queue' = waiting /\ UNCHANGED overlay

(* Mutant: the tokens shown before stay. *)
KeepOldToken(t) ==
  /\ Insert(t, ReadWrite)
  /\ files' = files \cup {t}
  /\ token' = t
  /\ UNCHANGED stuck

(* refresh_token removes the token it replaces, and goes on when that      *)
(* fails: the file stays.                                                  *)
RefreshToken(t) ==
  /\ Insert(t, ReadWrite)
  /\ \/ files' = (files \ {token}) \cup {t} /\ UNCHANGED stuck
     \/ token \in files /\ files' = files \cup {t} /\ stuck' = stuck \cup {token}
  /\ token' = t

(* start_pairing and enter: a new state, a snapshot of the peers, a token, *)
(* and the first poll, which finds the peers of the snapshot.              *)
EnterPairing(t) ==
  /\ On("home")
  /\ peers # Torn
  /\ screen' = "pairing"
  /\ Insert(t, ReadWrite)
  /\ files' = files \cup {t}
  /\ token' = t
  /\ shown' = {t} /\ stuck' = {}
  /\ list' = peers /\ known' = Listed(peers) /\ settled' = Listed(peers)
  /\ queue' = <<>> /\ overlay' = NoOverlay
  /\ UNCHANGED <<filevars, expired, request, paired>>

(* Without a token: the configuration cannot be read; or the snapshot      *)
(* fails, and the screen will take every peer for new.                     *)
EnterPairingFails ==
  /\ On("home")
  /\ screen' = "pairing"
  /\ token' = NoToken /\ shown' = {} /\ stuck' = {}
  /\ list' \in Readings
  /\ known' = Listed(list') /\ settled' = Listed(list')
  /\ queue' = <<>> /\ overlay' = NoOverlay
  /\ UNCHANGED <<filevars, tokenvars, request, paired>>

(* tick: poll_peers, also while an overlay is open. *)
Poll ==
  /\ On("pairing")
  /\ peers # Torn
  /\ list' = peers
  /\ known' = Listed(peers)
  /\ settled' = settled \cap Listed(peers)
  /\ OpenNext(queue \o SetToSeq(Listed(peers) \ known))
  /\ UNCHANGED <<filevars, tokenvars, request, screen, token, shown, stuck, paired>>

(* The key r, or "yes" in the overlay that asks whether to go on. *)
NextToken(t) ==
  /\ On("pairing")
  /\ overlay.kind \in {"none", "continue"}
  /\ RefreshToken(t)
  /\ shown' = shown \cup {t}
  /\ overlay' = NoOverlay
  /\ UNCHANGED <<filevars, expired, request, screen, list, known, queue, settled, paired>>

(* There is no new token: the configuration cannot be read, or the old     *)
(* token is removed, or not, and the new one cannot be written.            *)
NextTokenFails ==
  /\ On("pairing")
  /\ overlay.kind \in {"none", "continue"}
  /\ files' \in {files, files \ {token}}
  /\ overlay' = NoOverlay
  /\ UNCHANGED <<filevars, fresh, expired, permits, request, screen, list, known, queue, token,
                 shown, stuck, settled, paired>>

(* apply_permissions_for_overlay changes the grant the list has, which     *)
(* "must exist in peer list".                                              *)
ChoosePermissions(grant) ==
  /\ On("pairing")
  /\ overlay.kind = "permissions"
  /\ overlay.device \in Listed(list)
  /\ Load("tui", overlay.device, grant)
  /\ UNCHANGED <<tokenvars, request, screenvars, paired>>

ChoosePermissionsPanics ==
  /\ On("pairing")
  /\ overlay.kind = "permissions"
  /\ overlay.device \notin Listed(list)
  /\ screen' = "panicked"
  /\ UNCHANGED <<filevars, tokenvars, request, list, known, queue, overlay, token, shown,
                 stuck, settled, paired>>

PermissionsSaved ==
  /\ screen = "pairing"
  /\ Replace("tui")
  /\ overlay' = [kind |-> "continue", device |-> NoDevice]
  /\ settled' = settled \cup ({overlay.device} \cap known)
  /\ UNCHANGED <<tokenvars, request, screen, list, known, queue, token, shown, stuck, paired>>

(* Esc, or an error of the save. *)
CloseOverlay ==
  /\ screen = "pairing" /\ overlay # NoOverlay
  /\ IF saving["tui"] # NoSave THEN GiveUp("tui") ELSE UNCHANGED filevars
  /\ overlay' = NoOverlay
  /\ settled' = settled \cup ({overlay.device} \cap known)
  /\ UNCHANGED <<tokenvars, request, screen, list, known, queue, token, shown, stuck, paired>>

(* The main menu; the state of a screen is made anew when it is entered.   *)
Home ==
  /\ screen' = "home"
  /\ list' = Nobody /\ known' = {} /\ settled' = {} /\ queue' = <<>>
  /\ overlay' = NoOverlay
  /\ token' = NoToken /\ shown' = {} /\ stuck' = {}

(* Esc without an overlay, or "no" in the one that asks whether to go on. *)
LeavePairing ==
  /\ On("pairing")
  /\ overlay.kind \in {"none", "continue"}
  /\ Home
  /\ UNCHANGED <<filevars, tokenvars, request, paired>>

(* The key q, in every state of every screen, or a panic; and a new start. *)
Quit ==
  /\ screen # "home" /\ saving["tui"] = NoSave
  /\ Home
  /\ UNCHANGED <<filevars, tokenvars, request, paired>>

-----------------------------------------------------------------------------
(* The peers screen.                                                       *)

peerscreen == <<known, queue, token, shown, stuck, settled>>

(* start_peers and enter, or an enter that cannot read the file. *)
EnterPeers ==
  /\ On("home")
  /\ screen' = "peers"
  /\ list' \in Readings
  /\ overlay' = NoOverlay
  /\ UNCHANGED <<filevars, tokenvars, request, peerscreen, paired>>

(* The key r, which only the list itself knows. *)
Refresh ==
  /\ On("peers")
  /\ overlay = NoOverlay
  /\ peers # Torn
  /\ list' = peers
  /\ UNCHANGED <<filevars, tokenvars, request, screen, overlay, peerscreen, paired>>

(* By key or from the menu of actions, for the selected peer of the list. *)
OpenOverlay(kind, d) ==
  /\ On("peers")
  /\ overlay = NoOverlay
  /\ d \in Listed(list)
  /\ overlay' = [kind |-> kind, device |-> d]
  /\ UNCHANGED <<filevars, tokenvars, request, screen, list, peerscreen, paired>>

(* Rename saves the permissions the list has, with the new name. *)
Apply(grant) ==
  /\ On("peers")
  /\ \/ overlay.kind = "rename" /\ grant = list[overlay.device]
     \/ overlay.kind = "permissions" /\ grant # NoPeer
     \/ overlay.kind = "revoke" /\ grant = NoPeer
  /\ overlay.kind # "revoke" => overlay.device \in Listed(list)
  /\ Load("tui", overlay.device, grant)
  /\ UNCHANGED <<tokenvars, request, screenvars, paired>>

(* The save is done, and the list is read again, if it can be. *)
Applied ==
  /\ screen = "peers"
  /\ Replace("tui")
  /\ overlay' = NoOverlay
  /\ list' = IF peers' = Torn THEN list ELSE peers'
  /\ UNCHANGED <<tokenvars, request, screen, peerscreen, paired>>

(* Esc, or an error of the save. *)
Dismiss ==
  /\ screen = "peers" /\ overlay # NoOverlay
  /\ IF saving["tui"] # NoSave THEN GiveUp("tui") ELSE UNCHANGED filevars
  /\ overlay' = NoOverlay
  /\ UNCHANGED <<tokenvars, request, screen, list, peerscreen, paired>>

LeavePeers ==
  /\ On("peers")
  /\ overlay = NoOverlay
  /\ Home
  /\ UNCHANGED <<filevars, tokenvars, request, paired>>

Next ==
  \/ \E t \in Tokens :
       \/ Expire(t) \/ EnterPairing(t) \/ NextToken(t)
       \/ \E grant \in Presets : PairOpen(t, grant)
  \/ \E r \in Requests :
       \/ \E t \in Tokens, d \in Devices : Take(r, t, d)
       \/ CompletePairing(r) \/ SavePairing(r) \/ PairingFails(r) \/ DropPairing(r)
  \/ \E d \in Devices : PeersRevoke(d)
  \/ DroppedEnds \/ PeersRevoked
  \/ EnterPairingFails \/ Poll \/ NextTokenFails
  \/ \E grant \in Presets : ChoosePermissions(grant)
  \/ ChoosePermissionsPanics \/ PermissionsSaved \/ CloseOverlay \/ LeavePairing \/ Quit
  \/ EnterPeers \/ Refresh
  \/ \E kind \in {"rename", "permissions", "revoke"}, d \in Devices : OpenOverlay(kind, d)
  \/ \E grant \in Presets \cup {NoPeer} : Apply(grant)
  \/ Applied \/ Dismiss \/ LeavePeers

Spec == Init /\ [][Next]_vars
-----------------------------------------------------------------------------
(* Properties.                                                             *)

(* "One-time token": however many requests present it, and whatever the    *)
(* screen does with it meanwhile, a token pairs one device, once.          *)
TokenPairsOnce == \A t \in Tokens : paired[t] <= 1

(* The code on the screen is the only one of this visit that still pairs,  *)
(* through requests, expiry and refreshes that fail half-way: a token that *)
(* was replaced can no longer be presented, unless just its removal        *)
(* failed, of which the screen says nothing.                               *)
ReplacedTokenDead ==
  \A t \in shown \cap files : screen = "pairing" => t = token \/ t \in stuck

(* The pairing screen asks about every device that appeared while it was   *)
(* open: the device waits, is being asked about, or was dealt with.        *)
NewPeersReviewed ==
  screen = "pairing" => known \subseteq settled \cup Range(queue) \cup {overlay.device}

(* Saves that do not overlap lose nothing and break nothing: whoever fails *)
(* or is cut off, peers.json can be read and is what the changes that were *)
(* made, one after the other, have made of it.                             *)
SavesKept == overlapped \/ peers = ledger

(* "paired device must exist in peer list", as the pairing screen expects  *)
(* of the device its overlay is about.                                     *)
PairedDeviceListed ==
  On("pairing") /\ overlay.kind = "permissions" => overlay.device \in Listed(list)
=============================================================================
