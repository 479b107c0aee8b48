--------------------------- MODULE PeerAdminProofs ---------------------------
(***************************************************************************)
(* Proofs about PeerAdmin, for any number of devices, tokens and requests. *)
(*                                                                         *)
(* The state falls into three parts that few actions touch together, and   *)
(* the invariant has one group of facts for each of them: the file and the *)
(* saves under way (Saves), the life of a token from its creation over the *)
(* token file and the request to the pairing (TokensSpent), and what the   *)
(* screen has shown and asked (Screens).                                   *)
(***************************************************************************)
EXTENDS PeerAdmin, FiniteSetTheorems, SequenceTheorems, TLAPS

FileTypes ==
  /\ peers \in PeerMap \cup {Torn}
  /\ saving \in [Actors -> Save \cup {NoSave}]
  /\ ledger \in PeerMap
  /\ overlapped \in BOOLEAN

TokenTypes ==
  /\ fresh \subseteq Tokens /\ files \subseteq Tokens \ fresh /\ expired \subseteq Tokens \ fresh
  /\ permits \in [Tokens -> Presets]
  /\ request \in [Requests -> PairRequest \cup {NoRequest}]
  /\ paired \in [Tokens -> Nat]

ScreenTypes ==
  /\ screen \in {"home", "pairing", "peers", "panicked"}
  /\ list \in PeerMap
  /\ known \subseteq Devices
  /\ queue \in Seq(Devices)
  /\ overlay \in Overlay
  /\ token \in Tokens \cup {NoToken}
  /\ shown \subseteq Tokens /\ stuck \subseteq Tokens /\ settled \subseteq known

(* While no two saves have overlapped, a save is the only one and has      *)
(* loaded what is still there.                                             *)
Saves ==
  ~overlapped =>
    /\ peers = ledger
    /\ \A a \in Actors : saving[a] # NoSave =>
         /\ saving[a].alone
         /\ saving[a].loaded = peers
         /\ \A b \in Actors : saving[b] # NoSave => b = a

Holds(r, t) == request[r] # NoRequest /\ request[r].token = t

(* A token that can still be created, presented or used has paired nobody, *)
(* and only one of these is true of it.                                    *)
TokensSpent ==
  \A t \in Tokens :
    /\ paired[t] <= 1
    /\ t \in fresh \cup files => paired[t] = 0 /\ \A r \in Requests : ~Holds(r, t)
    /\ \A r \in Requests : Holds(r, t) =>
         paired[t] = 0 /\ \A q \in Requests : Holds(q, t) => q = r

(* Shown tokens are not fresh, and only the last one still has its file,   *)
(* and the ones that could not be removed.                                 *)
ShownTokens ==
  /\ shown \cap fresh = {}
  /\ ReplacedTokenDead

(* An overlay that asks about a device has one.                            *)
OverlayDevice ==
  /\ overlay.kind \in {"none", "continue"} => overlay.device = NoDevice
  /\ overlay.kind \in {"permissions", "rename", "revoke"} => overlay.device \in Devices

IInv ==
  /\ FileTypes /\ TokenTypes /\ ScreenTypes
  /\ Saves
  /\ TokensSpent
  /\ ShownTokens
  /\ OverlayDevice
  /\ NewPeersReviewed

(* SetToSeq lists the elements of a finite set. *)
LEMMA SetToSeqOf ==
  ASSUME NEW S, IsFiniteSet(S)
  PROVE  SetToSeq(S) \in Seq(S) /\ Range(SetToSeq(S)) = S
<1> DEFINE n == Cardinality(S)
<1>1. n \in Nat /\ ExistsBijection(1 .. n, S)  BY FS_CardinalityType
<1>2. PICK g \in [1 .. n -> S] : IsInjective(g)
  BY <1>1 DEF ExistsBijection, Bijection, Injection, IsInjective
<1>3. SetToSeq(S) \in [1 .. n -> S] /\ IsInjective(SetToSeq(S))
  BY <1>2 DEF SetToSeq
<1>4. SetToSeq(S) \in Injection(1 .. n, S)  BY <1>3 DEF Injection
<1>5. Cardinality(1 .. n) = n  BY <1>1, FS_Interval
<1>6. SetToSeq(S) \in Surjection(1 .. n, S)  BY <1>4, <1>5, FS_Injection
<1>7. Range(SetToSeq(S)) = S  BY <1>3, <1>6 DEF Surjection, Range
<1> QED  BY <1>1, <1>3, <1>7

(* A sequence that is not empty holds its head and what its tail holds.    *)
LEMMA RangeHeadTail ==
  ASSUME NEW S, NEW s \in Seq(S), s # <<>>
  PROVE  Range(s) = {Head(s)} \cup Range(Tail(s))
<1>1. Len(s) \in Nat \ {0} /\ DOMAIN s = 1 .. Len(s)  OBVIOUS
<1>2. /\ DOMAIN Tail(s) = 1 .. Len(s) - 1
      /\ \A i \in 1 .. Len(s) - 1 : Tail(s)[i] = s[i + 1]
  OBVIOUS
<1>3. Head(s) = s[1] /\ 1 \in DOMAIN s  BY <1>1
<1>4. ASSUME NEW i \in DOMAIN s PROVE s[i] \in {Head(s)} \cup Range(Tail(s))
  <2>1. CASE i = 1  BY <2>1, <1>3
  <2>2. CASE i # 1
    <3>1. i - 1 \in DOMAIN Tail(s) /\ Tail(s)[i - 1] = s[i]  BY <1>1, <1>2, <2>2
    <3> QED  BY <3>1 DEF Range
  <2> QED  BY <2>1, <2>2
<1>5. ASSUME NEW i \in DOMAIN Tail(s) PROVE Tail(s)[i] \in Range(s)
  <2>1. i + 1 \in DOMAIN s /\ Tail(s)[i] = s[i + 1]  BY <1>1, <1>2
  <2> QED  BY <2>1 DEF Range
<1>6. Range(s) \subseteq {Head(s)} \cup Range(Tail(s))  BY <1>4 DEF Range
<1>7. {Head(s)} \cup Range(Tail(s)) \subseteq Range(s)  BY <1>3, <1>5 DEF Range
<1> QED  BY <1>6, <1>7

(* Two sequences after each other hold what each of them holds.            *)
LEMMA RangeOfConcatenation ==
  ASSUME NEW S, NEW s \in Seq(S), NEW t \in Seq(S)
  PROVE  Range(s \o t) = Range(s) \cup Range(t)
<1>1. /\ Len(s) \in Nat /\ DOMAIN s = 1 .. Len(s)
      /\ Len(t) \in Nat /\ DOMAIN t = 1 .. Len(t)
      /\ DOMAIN (s \o t) = 1 .. Len(s) + Len(t)
  OBVIOUS
<1>2. \A i \in DOMAIN (s \o t) : (s \o t)[i] = IF i <= Len(s) THEN s[i] ELSE t[i - Len(s)]
  BY <1>1
<1>3. ASSUME NEW i \in DOMAIN (s \o t) PROVE (s \o t)[i] \in Range(s) \cup Range(t)
  <2>1. CASE i <= Len(s)
    <3>1. i \in DOMAIN s /\ (s \o t)[i] = s[i]  BY <1>1, <1>2, <2>1
    <3> QED  BY <3>1 DEF Range
  <2>2. CASE ~(i <= Len(s))
    <3>1. i - Len(s) \in DOMAIN t /\ (s \o t)[i] = t[i - Len(s)]  BY <1>1, <1>2, <2>2
    <3> QED  BY <3>1 DEF Range
  <2> QED  BY <2>1, <2>2
<1>4. ASSUME NEW i \in DOMAIN s PROVE s[i] \in Range(s \o t)
  <2>1. i \in DOMAIN (s \o t) /\ (s \o t)[i] = s[i]  BY <1>1, <1>2
  <2> QED  BY <2>1 DEF Range
<1>5. ASSUME NEW i \in DOMAIN t PROVE t[i] \in Range(s \o t)
  <2>1. Len(s) + i \in DOMAIN (s \o t) /\ ~(Len(s) + i <= Len(s)) /\ (Len(s) + i) - Len(s) = i
    BY <1>1
  <2>2. (s \o t)[Len(s) + i] = t[i]  BY <1>2, <2>1
  <2> QED  BY <2>1, <2>2 DEF Range
<1>6. Range(s \o t) \subseteq Range(s) \cup Range(t)  BY <1>3 DEF Range
<1>7. Range(s) \cup Range(t) \subseteq Range(s \o t)  BY <1>4, <1>5 DEF Range
<1> QED  BY <1>6, <1>7

-----------------------------------------------------------------------------
(* The file and the saves.                                                 *)

(* A save that starts keeps the invariant of the file: if no other is      *)
(* under way it has loaded what is there.                                  *)
LEMMA LoadSaves ==
  ASSUME FileTypes, Saves, NEW a \in Actors, NEW d \in Devices, NEW grant \in Presets \cup {NoPeer},
         Load(a, d, grant)
  PROVE  FileTypes' /\ Saves'
<1> DEFINE record == [loaded |-> peers, device |-> d, grant |-> grant, alone |-> Underway = {}]
<1>1. peers \in PeerMap  BY DEF Load, FileTypes
<1>2. record \in Save  BY <1>1 DEF Save
<1>3. \A b \in Actors : saving'[b] =
        IF b = a THEN record
        ELSE IF saving[b] = NoSave THEN NoSave ELSE [saving[b] EXCEPT !.alone = FALSE]
  BY DEF Load
<1>4. \A b \in Actors : saving'[b] \in Save \cup {NoSave}
  BY <1>2, <1>3 DEF FileTypes, Save
<1>5. DOMAIN saving' = Actors /\ saving' = [b \in Actors |-> saving'[b]]  BY DEF Load
<1>6. saving' \in [Actors -> Save \cup {NoSave}]  BY <1>4, <1>5
<1>7. Nobody \in PeerMap  BY DEF Nobody, PeerMap
<1>8. FileTypes'  BY <1>6, <1>7 DEF Load, FileTypes
<1>9. ASSUME ~overlapped' PROVE
        /\ peers' = ledger'
        /\ \A b \in Actors : saving'[b] # NoSave =>
             /\ saving'[b].alone
             /\ saving'[b].loaded = peers'
             /\ \A c \in Actors : saving'[c] # NoSave => c = b
  <2>1. ~overlapped /\ Underway = {}  BY <1>9 DEF Load
  <2>2. \A b \in Actors : saving[b] = NoSave  BY <2>1 DEF Underway
  <2>3. peers' = peers /\ ledger' = ledger /\ peers = ledger  BY <1>9, <2>1 DEF Load, Saves
  <2>4. \A b \in Actors : b # a => saving'[b] = NoSave  BY <1>3, <2>2
  <2>5. saving'[a] = record  BY <1>3
  <2>6. record.alone /\ record.loaded = peers  BY <2>1
  <2> QED  BY <2>3, <2>4, <2>5, <2>6
<1> QED  BY <1>8, <1>9 DEF Saves

(* So does a save that replaces the file: alone, it applies its change to  *)
(* the state the changes before it have led to.                            *)
LEMMA ReplaceSaves ==
  ASSUME FileTypes, Saves, NEW a \in Actors, Replace(a)
  PROVE  FileTypes' /\ Saves'
<1>1. saving[a] \in Save  BY DEF Replace, FileTypes
<1>2. \A b \in Actors : saving[b] # NoSave => Changed(saving[b]) \in PeerMap
  BY DEF FileTypes, Save, Changed, PeerMap
<1>3. peers' \in PeerMap \cup {Torn}
  BY <1>1, <1>2 DEF Replace, Underway
<1>4. ledger' \in PeerMap  BY <1>1 DEF Replace, FileTypes, Save, PeerMap
<1>5. FileTypes'  BY <1>3, <1>4 DEF Replace, FileTypes
<1>6. ASSUME ~overlapped' PROVE
        /\ peers' = ledger'
        /\ \A b \in Actors : saving'[b] = NoSave
  <2>1. ~overlapped /\ saving[a] # NoSave  BY <1>6 DEF Replace
  <2>2. saving[a].alone /\ saving[a].loaded = ledger
    BY <2>1 DEF Saves
  <2>3. peers' = Changed(saving[a])  BY <2>2 DEF Replace
  <2>4. ledger' = [ledger EXCEPT ![saving[a].device] = saving[a].grant]
    BY <2>1 DEF Replace
  <2>5. peers' = ledger'  BY <2>2, <2>3, <2>4 DEF Changed
  <2>6. \A b \in Actors : b # a => saving[b] = NoSave  BY <2>1 DEF Saves
  <2>7. \A b \in Actors : saving'[b] = NoSave  BY <2>6 DEF Replace, FileTypes
  <2> QED  BY <2>5, <2>7
<1> QED  BY <1>5, <1>6 DEF Saves

(* So does a save that fails: alone, it leaves the file as it is.          *)
LEMMA GiveUpSaves ==
  ASSUME FileTypes, Saves, NEW a \in Actors, GiveUp(a)
  PROVE  FileTypes' /\ Saves'
<1>1. saving[a] \in Save  BY DEF GiveUp, FileTypes
<1>2. Changed(saving[a]) \in PeerMap  BY <1>1 DEF Save, Changed, PeerMap
<1>3. FileTypes'  BY <1>2 DEF GiveUp, FileTypes
<1>4. ASSUME ~overlapped' PROVE
        /\ peers' = ledger'
        /\ \A b \in Actors : saving'[b] = NoSave
  <2>1. ~overlapped /\ saving[a] # NoSave  BY <1>4 DEF GiveUp
  <2>2. saving[a].alone /\ peers = ledger  BY <2>1 DEF Saves
  <2>3. peers' = ledger'  BY <2>2 DEF GiveUp
  <2>4. \A b \in Actors : b # a => saving[b] = NoSave  BY <2>1 DEF Saves
  <2>5. \A b \in Actors : saving'[b] = NoSave  BY <2>4 DEF GiveUp, FileTypes
  <2> QED  BY <2>3, <2>5
<1> QED  BY <1>3, <1>4 DEF Saves

(* So does a handler that is cut off: the save it leaves behind is the one *)
(* that was under way.                                                     *)
LEMMA DropSaves ==
  ASSUME FileTypes, Saves, NEW r \in Requests, DropPairing(r)
  PROVE  FileTypes' /\ Saves'
<1> "server" \in Actors /\ "dropped" \in Actors /\ "server" # "dropped"  BY DEF Actors
<1>1. /\ saving'["dropped"] = saving["server"]
      /\ saving'["server"] = NoSave
      /\ \A b \in Actors : b \notin {"server", "dropped"} => saving'[b] = saving[b]
      /\ saving' \in [Actors -> Save \cup {NoSave}]
  BY DEF DropPairing, FileTypes
<1>2. FileTypes'  BY <1>1 DEF DropPairing, FileTypes
<1>3. ASSUME ~overlapped PROVE
        \A a \in Actors : saving'[a] # NoSave =>
          /\ saving'[a].alone
          /\ saving'[a].loaded = peers
          /\ \A b \in Actors : saving'[b] # NoSave => b = a
  <2>1. CASE saving["server"] = NoSave
    <3>1. \A a \in Actors : saving'[a] = saving[a]  BY <1>1, <2>1 DEF DropPairing
    <3> QED  BY <3>1, <1>3 DEF Saves
  <2>2. CASE saving["server"] # NoSave
    <3>1. \A b \in Actors : b # "server" => saving[b] = NoSave  BY <1>3, <2>2 DEF Saves
    <3>2. \A b \in Actors : b # "dropped" => saving'[b] = NoSave  BY <1>1, <3>1
    <3>3. saving["server"].alone /\ saving["server"].loaded = peers  BY <1>3, <2>2 DEF Saves
    <3> QED  BY <3>2, <3>3, <1>1
  <2> QED  BY <2>1, <2>2
<1> QED  BY <1>2, <1>3 DEF Saves, DropPairing

(* What a step may do with the file: nothing, or one of the four.          *)
LEMMA StepsOfTheFile ==
  ASSUME IInv, [Next]_vars
  PROVE  \/ UNCHANGED filevars
         \/ \E a \in Actors, d \in Devices, grant \in Presets \cup {NoPeer} : Load(a, d, grant)
         \/ \E a \in Actors : Replace(a) \/ GiveUp(a)
         \/ \E r \in Requests : DropPairing(r)
<1> "server" \in Actors /\ "dropped" \in Actors /\ "tui" \in Actors /\ "cli" \in Actors
  BY DEF Actors
<1>1. CASE UNCHANGED vars  BY <1>1 DEF vars
<1>2. ASSUME NEW t \in Tokens,
             Expire(t) \/ EnterPairing(t) \/ NextToken(t) \/ \E grant \in Presets : PairOpen(t, grant)
      PROVE  UNCHANGED filevars
  BY <1>2 DEF Expire, EnterPairing, NextToken, PairOpen
<1>3. ASSUME NEW r \in Requests, NEW t \in Tokens, NEW d \in Devices, Take(r, t, d)
      PROVE  UNCHANGED filevars
  BY <1>3 DEF Take
<1>4. ASSUME NEW r \in Requests, CompletePairing(r)
      PROVE  \E d \in Devices, grant \in Presets \cup {NoPeer} : Load("server", d, grant)
  <2>1. request[r] \in PairRequest  BY <1>4 DEF CompletePairing, IInv, TokenTypes
  <2>2. request[r].device \in Devices /\ request[r].token \in Tokens  BY <2>1 DEF PairRequest
  <2>3. permits[request[r].token] \in Presets  BY <2>2 DEF IInv, TokenTypes
  <2> QED  BY <1>4, <2>2, <2>3 DEF CompletePairing
<1>5. ASSUME NEW r \in Requests, SavePairing(r) \/ PairingFails(r)
      PROVE  UNCHANGED filevars \/ Replace("server") \/ GiveUp("server")
  BY <1>5 DEF SavePairing, PairingFails
<1>6. ASSUME NEW d \in Devices, PeersRevoke(d)
      PROVE  Load("cli", d, NoPeer)
  BY <1>6 DEF PeersRevoke
<1>7. ASSUME DroppedEnds \/ PeersRevoked
      PROVE  \E a \in Actors : Replace(a) \/ GiveUp(a)
  BY <1>7 DEF DroppedEnds, PeersRevoked
<1>8. ASSUME NEW grant \in Presets \cup {NoPeer}, ChoosePermissions(grant) \/ Apply(grant)
      PROVE  overlay.device \in Devices /\ Load("tui", overlay.device, grant)
  BY <1>8 DEF ChoosePermissions, Apply, IInv, OverlayDevice
<1>9. ASSUME PermissionsSaved \/ CloseOverlay \/ Applied \/ Dismiss
      PROVE  UNCHANGED filevars \/ Replace("tui") \/ GiveUp("tui")
  BY <1>9 DEF PermissionsSaved, CloseOverlay, Applied, Dismiss
<1>10. ASSUME \/ EnterPairingFails \/ Poll \/ NextTokenFails \/ ChoosePermissionsPanics
              \/ LeavePairing \/ Quit \/ EnterPeers \/ Refresh \/ LeavePeers
              \/ \E kind \in {"rename", "permissions", "revoke"}, d \in Devices : OpenOverlay(kind, d)
       PROVE  UNCHANGED filevars
  BY <1>10 DEF EnterPairingFails, Poll, NextTokenFails, ChoosePermissionsPanics,
               LeavePairing, Quit, EnterPeers, Refresh, LeavePeers, OpenOverlay
<1> QED  BY <1>1, <1>2, <1>3, <1>4, <1>5, <1>6, <1>7, <1>8, <1>9, <1>10 DEF Next

(* Every step keeps the file, the saves and what the changes have led to   *)
(* in step.                                                                *)
LEMMA FilesKept ==
  ASSUME IInv, [Next]_vars
  PROVE  FileTypes' /\ Saves'
<1>1. FileTypes /\ Saves  BY DEF IInv
<1>2. CASE UNCHANGED filevars  BY <1>1, <1>2 DEF filevars, FileTypes, Saves
<1>3. ASSUME NEW a \in Actors, NEW d \in Devices, NEW grant \in Presets \cup {NoPeer}, Load(a, d, grant)
      PROVE  FileTypes' /\ Saves'
  BY <1>1, <1>3, LoadSaves
<1>4. ASSUME NEW a \in Actors, Replace(a) \/ GiveUp(a)
      PROVE  FileTypes' /\ Saves'
  BY <1>1, <1>4, ReplaceSaves, GiveUpSaves
<1>5. ASSUME NEW r \in Requests, DropPairing(r)
      PROVE  FileTypes' /\ Saves'
  BY <1>1, <1>5, DropSaves
<1> QED  BY <1>2, <1>3, <1>4, <1>5, StepsOfTheFile

-----------------------------------------------------------------------------
(* The life of a token.                                                    *)

LifeOfTokens == TokenTypes /\ TokensSpent

(* A token is created once, and with no request or pairing to its name.    *)
LEMMA InsertTokens ==
  ASSUME LifeOfTokens, NEW t \in Tokens, NEW grant \in Presets, Insert(t, grant),
         files' \subseteq files \cup {t}, UNCHANGED <<expired, request, paired>>
  PROVE  LifeOfTokens'
<1>1. /\ fresh' \subseteq Tokens /\ files' \subseteq Tokens \ fresh'
      /\ expired' \subseteq Tokens \ fresh'
  BY DEF LifeOfTokens, TokenTypes, Insert
<1>2. permits' \in [Tokens -> Presets]  BY DEF LifeOfTokens, TokenTypes, Insert
<1>3. TokenTypes'  BY <1>1, <1>2 DEF LifeOfTokens, TokenTypes
<1>4. \A u : u \in fresh' \cup files' => u \in fresh \cup files  BY DEF Insert
<1>5. TokensSpent'  BY <1>4 DEF LifeOfTokens, TokensSpent, Holds
<1> QED  BY <1>3, <1>5 DEF LifeOfTokens

(* A request that takes a token removes its file, and is the only one that *)
(* holds it.                                                               *)
LEMMA TakeTokens ==
  ASSUME LifeOfTokens, NEW r \in Requests, NEW t \in Tokens, NEW d \in Devices, Take(r, t, d)
  PROVE  LifeOfTokens'
<1>1. UNCHANGED <<fresh, expired, permits, paired>> /\ files' = files \ {t} /\ t \in files
  BY DEF Take, screenvars
<1>2. t \notin fresh /\ \A q \in Requests : ~Holds(q, t)
  BY <1>1 DEF LifeOfTokens, TokenTypes, TokensSpent
<1>3. CASE t \in expired
  <2>1. UNCHANGED request  BY <1>3 DEF Take
  <2> QED  BY <1>1, <2>1 DEF LifeOfTokens, TokenTypes, TokensSpent, Holds
<1>4. CASE t \notin expired
  <2> DEFINE record == [token |-> t, device |-> d, at |-> "took"]
  <2>1. record \in PairRequest  BY DEF PairRequest
  <2>2. request' = [request EXCEPT ![r] = record]  BY <1>4 DEF Take
  <2>3. request' \in [Requests -> PairRequest \cup {NoRequest}]
    BY <2>1, <2>2 DEF LifeOfTokens, TokenTypes
  <2>4. TokenTypes'  BY <1>1, <2>3 DEF LifeOfTokens, TokenTypes
  <2>5. request'[r] = record /\ \A q \in Requests : q # r => request'[q] = request[q]
    BY <2>2 DEF LifeOfTokens, TokenTypes
  <2>6. \A q \in Requests, u \in Tokens : Holds(q, u)' => (q = r /\ u = t) \/ (q # r /\ Holds(q, u))
    BY <2>5 DEF Holds
  <2>7. TokensSpent'
    <3> SUFFICES ASSUME NEW u \in Tokens
                 PROVE  /\ paired'[u] <= 1
                        /\ u \in fresh' \cup files' =>
                             paired'[u] = 0 /\ \A q \in Requests : ~Holds(q, u)'
                        /\ \A q \in Requests : Holds(q, u)' =>
                             /\ paired'[u] = 0
                             /\ \A p \in Requests : Holds(p, u)' => p = q
      BY DEF TokensSpent, Holds
    <3> HIDE DEF record
    <3>1. CASE u = t  BY <3>1, <1>1, <1>2, <2>6 DEF LifeOfTokens, TokensSpent
    <3>2. CASE u # t  BY <3>2, <1>1, <2>6 DEF LifeOfTokens, TokensSpent
    <3> QED  BY <3>1, <3>2
  <2> QED  BY <2>4, <2>7 DEF LifeOfTokens
<1> QED  BY <1>3, <1>4

(* A request that ends has paired its device or not; its token is spent.   *)
LEMMA EndTokens ==
  ASSUME LifeOfTokens, NEW r \in Requests, request[r] # NoRequest,
         request' = [request EXCEPT ![r] = NoRequest],
         \/ UNCHANGED paired
         \/ paired' = [paired EXCEPT ![request[r].token] = paired[request[r].token] + 1],
         UNCHANGED tokenvars
  PROVE  LifeOfTokens'
<1> DEFINE t == request[r].token
<1>1. t \in Tokens /\ Holds(r, t)  BY DEF LifeOfTokens, TokenTypes, PairRequest, Holds
<1>2. UNCHANGED <<fresh, files, expired, permits>>  BY DEF tokenvars
<1>3. request' \in [Requests -> PairRequest \cup {NoRequest}]  BY DEF LifeOfTokens, TokenTypes
<1>4. paired' \in [Tokens -> Nat]  BY <1>1 DEF LifeOfTokens, TokenTypes
<1>5. TokenTypes'  BY <1>2, <1>3, <1>4 DEF LifeOfTokens, TokenTypes
<1>6. request'[r] = NoRequest /\ \A q \in Requests : q # r => request'[q] = request[q]
  BY DEF LifeOfTokens, TokenTypes
<1>7. \A q \in Requests, u \in Tokens : Holds(q, u)' => q # r /\ Holds(q, u)
  BY <1>6 DEF Holds
<1>8. paired[t] = 0 /\ t \notin fresh \cup files /\ \A q \in Requests : Holds(q, t) => q = r
  BY <1>1 DEF LifeOfTokens, TokensSpent
<1>9. paired'[t] <= 1 /\ \A u \in Tokens : u # t => paired'[u] = paired[u]
  BY <1>1, <1>8 DEF LifeOfTokens, TokenTypes
<1>10. TokensSpent'
  <2> SUFFICES ASSUME NEW u \in Tokens
               PROVE  /\ paired'[u] <= 1
                      /\ u \in fresh' \cup files' =>
                           paired'[u] = 0 /\ \A q \in Requests : ~Holds(q, u)'
                      /\ \A q \in Requests : Holds(q, u)' =>
                           /\ paired'[u] = 0
                           /\ \A p \in Requests : Holds(p, u)' => p = q
    BY DEF TokensSpent, Holds
  <2> HIDE DEF t
  <2>1. CASE u = t  BY <2>1, <1>2, <1>7, <1>8, <1>9
  <2>2. CASE u # t  BY <2>2, <1>2, <1>7, <1>9 DEF LifeOfTokens, TokensSpent
  <2> QED  BY <2>1, <2>2
<1> QED  BY <1>5, <1>10 DEF LifeOfTokens

(* A request that starts its save holds what it held.                      *)
LEMMA CompleteTokens ==
  ASSUME LifeOfTokens, NEW r \in Requests, CompletePairing(r)
  PROVE  LifeOfTokens'
<1> DEFINE record == [token |-> request[r].token, device |-> request[r].device, at |-> "saving"]
<1>1. request[r] # NoRequest /\ request[r] \in PairRequest
  BY DEF CompletePairing, LifeOfTokens, TokenTypes
<1>2. record \in PairRequest  BY <1>1 DEF PairRequest
<1>3. request' = [request EXCEPT ![r] = record]  BY DEF CompletePairing
<1>4. UNCHANGED <<fresh, files, expired, permits, paired>>  BY DEF CompletePairing, tokenvars
<1>5. request' \in [Requests -> PairRequest \cup {NoRequest}]
  BY <1>2, <1>3 DEF LifeOfTokens, TokenTypes
<1>6. TokenTypes'  BY <1>4, <1>5 DEF LifeOfTokens, TokenTypes
<1>7. request'[r] = record /\ \A q \in Requests : q # r => request'[q] = request[q]
  BY <1>3 DEF LifeOfTokens, TokenTypes
<1>8. \A q \in Requests, u \in Tokens : Holds(q, u)' => Holds(q, u)
  BY <1>1, <1>7 DEF Holds
<1>9. TokensSpent'  BY <1>4, <1>8 DEF LifeOfTokens, TokensSpent, Holds
<1> QED  BY <1>6, <1>9 DEF LifeOfTokens

(* Every step keeps a token in one stage of its life.                      *)
LEMMA TokensKept ==
  ASSUME IInv, [Next]_vars
  PROVE  LifeOfTokens'
<1> LifeOfTokens  BY DEF IInv, LifeOfTokens
<1>1. CASE UNCHANGED <<tokenvars, request, paired>>
  BY <1>1 DEF tokenvars, LifeOfTokens, TokenTypes, TokensSpent, Holds
<1>2. CASE UNCHANGED vars  BY <1>1, <1>2 DEF vars
<1>3. ASSUME NEW t \in Tokens, Expire(t) PROVE LifeOfTokens'
  <2>1. UNCHANGED <<fresh, files, permits, request, paired>> /\ expired' = expired \cup {t} /\ t \notin fresh
    BY <1>3 DEF Expire
  <2> QED  BY <2>1 DEF LifeOfTokens, TokenTypes, TokensSpent, Holds
<1>4. ASSUME NEW t \in Tokens, EnterPairing(t) \/ NextToken(t) PROVE LifeOfTokens'
  <2>1. ReadWrite \in Presets  BY AdminAssumption
  <2>2. Insert(t, ReadWrite) /\ files' \subseteq files \cup {t} /\ UNCHANGED <<expired, request, paired>>
    BY <1>4 DEF EnterPairing, NextToken, RefreshToken
  <2> QED  BY <2>1, <2>2, InsertTokens
<1>5. ASSUME NEW t \in Tokens, NEW grant \in Presets, PairOpen(t, grant) PROVE LifeOfTokens'
  <2>1. Insert(t, grant) /\ files' \subseteq files \cup {t} /\ UNCHANGED <<expired, request, paired>>
    BY <1>5 DEF PairOpen
  <2> QED  BY <2>1, InsertTokens
<1>6. ASSUME NEW r \in Requests, NEW t \in Tokens, NEW d \in Devices, Take(r, t, d) PROVE LifeOfTokens'
  BY <1>6, TakeTokens
<1>7. ASSUME NEW r \in Requests, CompletePairing(r) PROVE LifeOfTokens'
  BY <1>7, CompleteTokens
<1>8. ASSUME NEW r \in Requests, SavePairing(r) \/ DropPairing(r) \/ PairingFails(r) PROVE LifeOfTokens'
  <2>1. /\ request[r] # NoRequest
        /\ request' = [request EXCEPT ![r] = NoRequest]
        /\ \/ UNCHANGED paired
           \/ paired' = [paired EXCEPT ![request[r].token] = paired[request[r].token] + 1]
        /\ UNCHANGED tokenvars
    BY <1>8 DEF SavePairing, DropPairing, PairingFails
  <2> QED  BY <2>1, EndTokens
<1>9. CASE NextTokenFails
  <2>1. UNCHANGED <<fresh, expired, permits, request, paired>> /\ files' \subseteq files
    BY <1>9 DEF NextTokenFails
  <2> QED  BY <2>1 DEF LifeOfTokens, TokenTypes, TokensSpent, Holds
<1>10. ASSUME NEW d \in Devices, PeersRevoke(d) \/ \E kind \in {"rename", "permissions", "revoke"} : OpenOverlay(kind, d)
       PROVE  LifeOfTokens'
  BY <1>10, <1>1 DEF PeersRevoke, OpenOverlay
<1>11. ASSUME NEW grant \in Presets \cup {NoPeer}, ChoosePermissions(grant) \/ Apply(grant)
       PROVE  LifeOfTokens'
  BY <1>11, <1>1 DEF ChoosePermissions, Apply
<1>12. CASE \/ DroppedEnds \/ PeersRevoked \/ EnterPairingFails \/ Poll
            \/ ChoosePermissionsPanics \/ PermissionsSaved \/ CloseOverlay \/ LeavePairing \/ Quit
            \/ EnterPeers \/ Refresh \/ Applied \/ Dismiss \/ LeavePeers
  BY <1>12, <1>1 DEF DroppedEnds, PeersRevoked, EnterPairingFails, Poll, ChoosePermissionsPanics,
       PermissionsSaved, CloseOverlay, LeavePairing, Quit, EnterPeers, Refresh, Applied, Dismiss, LeavePeers
<1> QED
  BY <1>2, <1>3, <1>4, <1>5, <1>6, <1>7, <1>8, <1>9, <1>10, <1>11, <1>12 DEF Next

-----------------------------------------------------------------------------
(* The screens.                                                            *)

Screens == ScreenTypes /\ ShownTokens /\ OverlayDevice /\ NewPeersReviewed

(* What the others do to the tokens: they may create one, and it is not    *)
(* one the screen has shown; they may remove the file of one.              *)
LEMMA ElsewhereScreens ==
  ASSUME IInv, UNCHANGED screenvars, fresh' \subseteq fresh, files' \subseteq files \cup fresh
  PROVE  Screens'
<1>1. UNCHANGED <<screen, list, known, queue, overlay, token, shown, stuck, settled>>  BY DEF screenvars
<1>2. ScreenTypes' /\ OverlayDevice' /\ NewPeersReviewed'
  BY <1>1 DEF IInv, ScreenTypes, OverlayDevice, NewPeersReviewed
<1>3. ShownTokens'  BY <1>1 DEF IInv, ShownTokens, ReplacedTokenDead
<1> QED  BY <1>2, <1>3 DEF Screens

(* A list the screen reads is a map of the devices.                        *)
LEMMA ReadingsOf ==
  ASSUME FileTypes
  PROVE  Readings \subseteq PeerMap
BY DEF FileTypes, Readings, Nobody, PeerMap

(* The empty queue and the empty overlay.                                  *)
LEMMA EmptyScreen ==
  /\ <<>> \in Seq(Devices)
  /\ NoOverlay \in Overlay
  /\ NoOverlay.kind = "none" /\ NoOverlay.device = NoDevice
BY DEF NoOverlay, Overlay

(* To enter the pairing screen starts its history anew.                    *)
LEMMA EnterScreens ==
  ASSUME IInv, (\E t \in Tokens : EnterPairing(t)) \/ EnterPairingFails
  PROVE  Screens'
<1>1. /\ screen' = "pairing"
      /\ list' \in PeerMap
      /\ known' = Listed(list') /\ settled' = known'
      /\ queue' = <<>> /\ overlay' = NoOverlay
  <2>1. CASE EnterPairingFails  BY <2>1, ReadingsOf DEF EnterPairingFails, IInv
  <2>2. ASSUME NEW t \in Tokens, EnterPairing(t)
        PROVE  /\ screen' = "pairing" /\ list' \in PeerMap
               /\ known' = Listed(list') /\ settled' = known'
               /\ queue' = <<>> /\ overlay' = NoOverlay
    BY <2>2 DEF EnterPairing, IInv, FileTypes
  <2> QED  BY <2>1, <2>2
<1>2. /\ token' \in Tokens \cup {NoToken} /\ shown' \subseteq {token'} \cap Tokens /\ stuck' = {}
      /\ shown' \cap fresh' = {}
  BY DEF EnterPairing, EnterPairingFails, Insert
<1>3. known' \subseteq Devices  BY <1>1 DEF Listed
<1>4. ScreenTypes'  BY <1>1, <1>2, <1>3, EmptyScreen DEF ScreenTypes
<1>5. ShownTokens'  BY <1>2 DEF ShownTokens, ReplacedTokenDead
<1>6. OverlayDevice'  BY <1>1, EmptyScreen DEF OverlayDevice
<1>7. NewPeersReviewed'  BY <1>1 DEF NewPeersReviewed
<1> QED  BY <1>4, <1>5, <1>6, <1>7 DEF Screens

(* A poll queues every device it did not know, and opens the overlay for   *)
(* the first of the queue if none is open.                                 *)
LEMMA PollScreens ==
  ASSUME IInv, Poll
  PROVE  Screens'
<1> DEFINE new == Listed(peers) \ known
           waiting == queue \o SetToSeq(new)
<1>1. /\ screen = "pairing" /\ UNCHANGED <<screen, token, shown, stuck, fresh, files>>
      /\ list' = peers /\ peers \in PeerMap
      /\ known' = Listed(peers) /\ settled' = settled \cap Listed(peers)
      /\ OpenNext(waiting)
  BY DEF Poll, On, IInv, FileTypes, tokenvars
<1>2. new \subseteq Devices /\ known' \subseteq Devices  BY <1>1 DEF Listed
<1>3. IsFiniteSet(new)  BY <1>2, FS_Subset, AdminAssumption
<1>4. SetToSeq(new) \in Seq(new) /\ Range(SetToSeq(new)) = new  BY <1>3, SetToSeqOf
<1>5. SetToSeq(new) \in Seq(Devices) /\ queue \in Seq(Devices)
  BY <1>2, <1>4 DEF IInv, ScreenTypes
<1>6. waiting \in Seq(Devices) /\ Range(waiting) = Range(queue) \cup new
  <2>1. waiting \in Seq(Devices)  BY <1>5
  <2>2. Range(waiting) = Range(queue) \cup Range(SetToSeq(new))
    BY <1>5, RangeOfConcatenation
  <2> QED  BY <2>1, <2>2, <1>4
<1> HIDE DEF new, waiting
<1>7. /\ queue' \in Seq(Devices)
      /\ overlay' \in Overlay
      /\ OverlayDevice'
      /\ Range(waiting) \cup {overlay.device} \subseteq
           Range(queue') \cup {overlay'.device, NoDevice}
  <2>1. CASE overlay = NoOverlay /\ waiting # <<>>
    <3>1. overlay' = [kind |-> "permissions", device |-> Head(waiting)] /\ queue' = Tail(waiting)
      BY <1>1, <2>1 DEF OpenNext
    <3>2. Head(waiting) \in Devices /\ Tail(waiting) \in Seq(Devices)
      BY <1>6, <2>1, HeadTailProperties
    <3>3. Range(waiting) = {Head(waiting)} \cup Range(Tail(waiting))  BY <1>6, <2>1, RangeHeadTail
    <3>4. overlay' \in Overlay /\ overlay'.kind = "permissions" /\ overlay'.device = Head(waiting)
      BY <3>1, <3>2 DEF Overlay
    <3>5. OverlayDevice'  BY <3>2, <3>4 DEF OverlayDevice
    <3> QED  BY <2>1, <3>1, <3>2, <3>3, <3>4, <3>5, EmptyScreen
  <2>2. CASE ~(overlay = NoOverlay /\ waiting # <<>>)
    <3>1. queue' = waiting /\ overlay' = overlay  BY <1>1, <2>2 DEF OpenNext
    <3> QED  BY <3>1, <1>6 DEF IInv, ScreenTypes, OverlayDevice
  <2> QED  BY <2>1, <2>2
<1>8. ScreenTypes'  BY <1>1, <1>2, <1>7 DEF IInv, ScreenTypes
<1>9. ShownTokens'  BY <1>1 DEF IInv, ShownTokens, ReplacedTokenDead
<1>10. NewPeersReviewed'
  <2>1. known \subseteq settled \cup Range(queue) \cup {overlay.device}
    BY <1>1 DEF IInv, NewPeersReviewed
  <2>2. known' \subseteq new \cup (known \cap known')  BY <1>1 DEF new
  <2>3. known' \subseteq settled' \cup Range(waiting) \cup {overlay.device}
    BY <1>1, <1>6, <2>1, <2>2
  <2>4. NoDevice \notin known'  BY <1>2, AdminAssumption
  <2> QED  BY <1>7, <2>3, <2>4 DEF NewPeersReviewed
<1> QED  BY <1>7, <1>8, <1>9, <1>10 DEF Screens

(* To show the next token removes the one before, or it is stuck; only an  *)
(* overlay that asks about no device is closed.                            *)
LEMMA NextTokenScreens ==
  ASSUME IInv, (\E t \in Tokens : NextToken(t)) \/ NextTokenFails
  PROVE  Screens'
<1>1. /\ screen = "pairing" /\ UNCHANGED <<screen, list, known, queue, settled>>
      /\ overlay.kind \in {"none", "continue"} /\ overlay' = NoOverlay
  BY DEF NextToken, NextTokenFails, On
<1>2. /\ token' \in Tokens \cup {NoToken} /\ shown' \subseteq Tokens /\ stuck' \subseteq Tokens
      /\ shown' \cap fresh' = {}
      /\ \A t \in shown' \cap files' : t = token' \/ t \in stuck'
  <2>1. CASE NextTokenFails
    BY <2>1, <1>1 DEF NextTokenFails, IInv, ShownTokens, ReplacedTokenDead, ScreenTypes
  <2>2. ASSUME NEW t \in Tokens, NextToken(t)
        PROVE  /\ token' \in Tokens \cup {NoToken} /\ shown' \subseteq Tokens /\ stuck' \subseteq Tokens
               /\ shown' \cap fresh' = {}
               /\ \A u \in shown' \cap files' : u = token' \/ u \in stuck'
    BY <2>2, <1>1 DEF NextToken, RefreshToken, Insert, IInv, ShownTokens, ReplacedTokenDead, ScreenTypes, TokenTypes
  <2> QED  BY <2>1, <2>2
<1>3. ScreenTypes'  BY <1>1, <1>2, EmptyScreen DEF IInv, ScreenTypes
<1>4. ShownTokens'  BY <1>2 DEF ShownTokens, ReplacedTokenDead
<1>5. OverlayDevice'  BY <1>1, EmptyScreen DEF OverlayDevice
<1>6. overlay'.device = overlay.device  BY <1>1, EmptyScreen DEF IInv, OverlayDevice
<1>7. NewPeersReviewed'  BY <1>1, <1>6 DEF IInv, NewPeersReviewed
<1> QED  BY <1>3, <1>4, <1>5, <1>7 DEF Screens

(* The device of an overlay that is answered or closed is dealt with.      *)
LEMMA AnswerScreens ==
  ASSUME IInv, PermissionsSaved \/ CloseOverlay
  PROVE  Screens'
<1>1. /\ UNCHANGED <<screen, list, known, queue, token, shown, stuck, fresh, files>>
      /\ settled' = settled \cup ({overlay.device} \cap known)
      /\ overlay' \in {NoOverlay, [kind |-> "continue", device |-> NoDevice]}
  BY DEF PermissionsSaved, CloseOverlay, tokenvars
<1>2. /\ overlay' \in Overlay
      /\ overlay'.kind \in {"none", "continue"} /\ overlay'.device = NoDevice
  BY <1>1 DEF NoOverlay, Overlay
<1>3. ScreenTypes'  BY <1>1, <1>2 DEF IInv, ScreenTypes
<1>4. ShownTokens'  BY <1>1 DEF IInv, ShownTokens, ReplacedTokenDead
<1>5. OverlayDevice'  BY <1>2 DEF OverlayDevice
<1>6. NewPeersReviewed'  BY <1>1 DEF IInv, NewPeersReviewed
<1> QED  BY <1>3, <1>4, <1>5, <1>6 DEF Screens

(* The other screens ask nothing of the pairing screen's history.          *)
LEMMA HomeScreens ==
  ASSUME IInv, LeavePairing \/ Quit \/ LeavePeers \/ ChoosePermissionsPanics
  PROVE  Screens'
<1>1. UNCHANGED <<fresh, files>>
  BY DEF LeavePairing, Quit, LeavePeers, ChoosePermissionsPanics, tokenvars
<1>2. CASE ChoosePermissionsPanics
  <2>1. UNCHANGED <<list, known, queue, overlay, token, shown, stuck, settled>> /\ screen' = "panicked"
    BY <1>2 DEF ChoosePermissionsPanics
  <2> QED
    BY <1>1, <2>1
    DEF Screens, IInv, ScreenTypes, ShownTokens, ReplacedTokenDead, OverlayDevice, NewPeersReviewed
<1>3. CASE LeavePairing \/ Quit \/ LeavePeers
  <2>1. /\ screen' = "home" /\ list' \in PeerMap /\ known' = {} /\ settled' = {} /\ queue' = <<>>
        /\ overlay' = NoOverlay /\ token' = NoToken /\ shown' = {} /\ stuck' = {}
    BY <1>3 DEF LeavePairing, Quit, LeavePeers, Home, Nobody, PeerMap
  <2>2. ScreenTypes' /\ OverlayDevice'  BY <2>1, EmptyScreen DEF ScreenTypes, OverlayDevice
  <2>3. ShownTokens' /\ NewPeersReviewed'
    BY <2>1 DEF ShownTokens, ReplacedTokenDead, NewPeersReviewed
  <2> QED  BY <2>2, <2>3 DEF Screens
<1> QED  BY <1>2, <1>3

(* The peers screen: its overlays are about devices of its list.           *)
LEMMA PeersScreens ==
  ASSUME IInv,
         \/ EnterPeers \/ Refresh \/ Applied \/ Dismiss
         \/ \E kind \in {"rename", "permissions", "revoke"}, d \in Devices : OpenOverlay(kind, d)
  PROVE  Screens'
<1>1. /\ UNCHANGED <<known, queue, token, shown, stuck, settled, fresh, files>>
      /\ screen' = "peers"
  BY DEF EnterPeers, Refresh, Applied, Dismiss, OpenOverlay, peerscreen, tokenvars, On
<1>2. list' \in PeerMap
  <2>1. CASE EnterPeers  BY <2>1, ReadingsOf DEF EnterPeers, IInv
  <2>2. CASE Refresh  BY <2>2 DEF Refresh, IInv, FileTypes
  <2>3. CASE Applied
    <3>1. FileTypes'
      BY <2>3, ReplaceSaves DEF Applied, IInv, Actors
    <3> QED  BY <2>3, <3>1 DEF Applied, IInv, FileTypes, ScreenTypes
  <2>4. CASE Dismiss  BY <2>4 DEF Dismiss, IInv, ScreenTypes
  <2>5. ASSUME NEW kind \in {"rename", "permissions", "revoke"}, NEW d \in Devices, OpenOverlay(kind, d)
        PROVE  list' \in PeerMap
    BY <2>5 DEF OpenOverlay, IInv, ScreenTypes
  <2> QED  BY <2>1, <2>2, <2>3, <2>4, <2>5
<1>3. overlay' \in Overlay /\ OverlayDevice'
  <2>1. CASE overlay' = NoOverlay  BY <2>1, EmptyScreen DEF OverlayDevice
  <2>2. CASE UNCHANGED overlay  BY <2>2 DEF IInv, ScreenTypes, OverlayDevice
  <2>3. ASSUME NEW kind \in {"rename", "permissions", "revoke"}, NEW d \in Devices, OpenOverlay(kind, d)
        PROVE  overlay' \in Overlay /\ OverlayDevice'
    BY <2>3 DEF OpenOverlay, Overlay, OverlayDevice
  <2> QED  BY <2>1, <2>2, <2>3 DEF EnterPeers, Refresh, Applied, Dismiss
<1>4. ScreenTypes'  BY <1>1, <1>2, <1>3 DEF IInv, ScreenTypes
<1>5. ShownTokens' /\ NewPeersReviewed'
  BY <1>1 DEF IInv, ShownTokens, ReplacedTokenDead, NewPeersReviewed
<1> QED  BY <1>3, <1>4, <1>5 DEF Screens

(* Every step keeps the facts about the screens.                           *)
LEMMA ScreensKept ==
  ASSUME IInv, [Next]_vars
  PROVE  Screens'
<1>1. CASE UNCHANGED vars  BY <1>1, ElsewhereScreens DEF vars, tokenvars
<1>2. ASSUME NEW t \in Tokens, Expire(t) \/ \E grant \in Presets : PairOpen(t, grant)
      PROVE  Screens'
  BY <1>2, ElsewhereScreens DEF Expire, PairOpen, Insert
<1>3. ASSUME NEW r \in Requests, \E t \in Tokens, d \in Devices : Take(r, t, d)
      PROVE  Screens'
  BY <1>3, ElsewhereScreens DEF Take
<1>4. ASSUME NEW r \in Requests,
             CompletePairing(r) \/ SavePairing(r) \/ PairingFails(r) \/ DropPairing(r)
      PROVE  Screens'
  <2>1. UNCHANGED <<screenvars, fresh, files>>
    BY <1>4 DEF CompletePairing, SavePairing, PairingFails, DropPairing, tokenvars
  <2> QED  BY <2>1, ElsewhereScreens
<1>5. CASE \/ \E d \in Devices : PeersRevoke(d)
           \/ DroppedEnds \/ PeersRevoked
           \/ \E grant \in Presets \cup {NoPeer} : ChoosePermissions(grant) \/ Apply(grant)
  <2>1. UNCHANGED <<screenvars, fresh, files>>
    BY <1>5 DEF PeersRevoke, DroppedEnds, PeersRevoked, ChoosePermissions, Apply, tokenvars
  <2> QED  BY <2>1, ElsewhereScreens
<1>6. CASE (\E t \in Tokens : EnterPairing(t)) \/ EnterPairingFails  BY <1>6, EnterScreens
<1>7. CASE Poll  BY <1>7, PollScreens
<1>8. CASE (\E t \in Tokens : NextToken(t)) \/ NextTokenFails  BY <1>8, NextTokenScreens
<1>9. CASE PermissionsSaved \/ CloseOverlay  BY <1>9, AnswerScreens
<1>10. CASE LeavePairing \/ Quit \/ LeavePeers \/ ChoosePermissionsPanics  BY <1>10, HomeScreens
<1>11. CASE \/ EnterPeers \/ Refresh \/ Applied \/ Dismiss
            \/ \E kind \in {"rename", "permissions", "revoke"}, d \in Devices : OpenOverlay(kind, d)
  BY <1>11, PeersScreens
<1> QED  BY <1>1, <1>2, <1>3, <1>4, <1>5, <1>6, <1>7, <1>8, <1>9, <1>10, <1>11 DEF Next

-----------------------------------------------------------------------------
(* The theorems.                                                           *)

(* The invariant holds at the start.                                       *)
LEMMA InitInv == Init => IInv
<1> SUFFICES ASSUME Init PROVE IInv  OBVIOUS
<1>1. FileTypes  BY DEF Init, FileTypes
<1>2. TokenTypes  BY AdminAssumption DEF Init, TokenTypes
<1>3. ScreenTypes  BY EmptyScreen DEF Init, ScreenTypes, Nobody, PeerMap
<1>4. Saves  BY DEF Init, Saves
<1>5. TokensSpent  BY DEF Init, TokensSpent, Holds
<1>6. ShownTokens  BY DEF Init, ShownTokens, ReplacedTokenDead
<1>7. OverlayDevice /\ NewPeersReviewed
  BY EmptyScreen DEF Init, OverlayDevice, NewPeersReviewed
<1> QED  BY <1>1, <1>2, <1>3, <1>4, <1>5, <1>6, <1>7 DEF IInv

(* Every step keeps it.                                                    *)
LEMMA NextInv == IInv /\ [Next]_vars => IInv'
BY FilesKept, TokensKept, ScreensKept DEF IInv, LifeOfTokens, Screens

(* The invariant holds throughout.                                         *)
THEOREM Invariance == Spec => []IInv
BY InitInv, NextInv, PTL DEF Spec

(* The files, requests and screens keep their types.                       *)
THEOREM TypeCorrect == Spec => []TypeOK
<1>1. IInv => TypeOK  BY DEF IInv, FileTypes, TokenTypes, ScreenTypes, TypeOK
<1> QED  BY <1>1, Invariance, PTL

(* A token pairs one device, once, however many requests present it and    *)
(* however many of their connections are cut off.                          *)
THEOREM PairsOnce == Spec => []TokenPairsOnce
<1>1. IInv => TokenPairsOnce  BY DEF IInv, TokensSpent, TokenPairsOnce
<1> QED  BY <1>1, Invariance, PTL

(* The code on the screen is the only one of this visit that still pairs,  *)
(* and the ones whose removal failed.                                      *)
THEOREM ReplacedDead == Spec => []ReplacedTokenDead
<1>1. IInv => ReplacedTokenDead  BY DEF IInv, ShownTokens
<1> QED  BY <1>1, Invariance, PTL

(* Every device that appeared while the pairing screen was open waits, is  *)
(* being asked about, or was dealt with.                                   *)
THEOREM Reviewed == Spec => []NewPeersReviewed
<1>1. IInv => NewPeersReviewed  BY DEF IInv
<1> QED  BY <1>1, Invariance, PTL

(* Saves that do not overlap lose nothing: peers.json is what the changes, *)
(* one after the other, have made of it.                                   *)
THEOREM Kept == Spec => []SavesKept
<1>1. IInv => SavesKept  BY DEF IInv, Saves, SavesKept
<1> QED  BY <1>1, Invariance, PTL
=============================================================================
