------------------------------- MODULE Session -------------------------------
(***************************************************************************)
(* The session manager (ttsync-core/src/session.rs) behind session_open    *)
(* and authenticate_peer (ttsync-http/src/server/handlers.rs, auth.rs).    *)
(*                                                                         *)
(* A device signs a request with the time on its own clock and a fresh     *)
(* nonce; the request may reach the server late, or more than once.  The   *)
(* server reads its clock once per request, before it has the mutex of the *)
(* nonces and then the one of the sessions, so other requests may come in  *)
(* between with an earlier or a later time.                                *)
(***************************************************************************)
EXTENDS Integers

CONSTANTS
  Requests,      \* signed requests; each has a nonce of its own
  Handlers,      \* calls of open_session that can be under way
  TimeWindow,    \* time_window_ms
  SessionTtl,    \* session_ttl_ms
  NonceTtl,      \* nonce_ttl_ms; twice time_window_ms in the code's only configuration
  MaxStall,      \* longest time open_session takes
  MaxTime,       \* bound on the server's clock
  Unsigned, NoNonce, NoCall

ASSUME SessionAssumption ==
  /\ TimeWindow \in Nat /\ SessionTtl \in Nat /\ NonceTtl \in Nat
  /\ MaxStall \in Nat /\ MaxTime \in Nat
  /\ Unsigned \notin Int /\ NoNonce \notin Int

Times == 0 .. MaxTime

(* A call that has passed the checks of time and signature, or also has    *)
(* recorded its nonce; now is what it read from the clock.                 *)
Call == [request : Requests, now : Times, at : {"verified", "recorded"}]

ASSUME NoCallAssumption == NoCall \notin Call

(* SessionRecord; the handler tells sessions of the same time apart, as    *)
(* the random token does.                                                  *)
SessionRecord == [request : Requests, now : Times, by : Handlers]

VARIABLES
  clock,     \* the server's clock
  stamp,     \* timestamp_ms of the requests that were signed
  nonces,    \* when the nonce of a request expires
  sessions,  \* SessionManager.sessions
  call       \* the calls of open_session under way

vars == <<clock, stamp, nonces, sessions, call>>

(* The types of the clock, the nonces and the sessions; a nonce keeps an   *)
(* absolute expiry time.                                                   *)
TypeOK ==
  /\ clock \in Times
  /\ stamp \in [Requests -> Times \cup {Unsigned}]
  /\ nonces \in [Requests -> Nat \cup {NoNonce}]
  /\ sessions \subseteq SessionRecord
  /\ call \in [Handlers -> Call \cup {NoCall}]

Init ==
  /\ clock = 0
  /\ stamp = [r \in Requests |-> Unsigned]
  /\ nonces = [r \in Requests |-> NoNonce]
  /\ sessions = {}
  /\ call = [h \in Handlers |-> NoCall]

-----------------------------------------------------------------------------

(* SyncClient::open_session, on a device whose clock may be off. *)
Sign(r, t) ==
  /\ stamp[r] = Unsigned
  /\ stamp' = [stamp EXCEPT ![r] = t]
  /\ UNCHANGED <<clock, nonces, sessions, call>>

(* The request arrives: time window and signature. *)
Verify(h, r) ==
  /\ call[h] = NoCall
  /\ stamp[r] # Unsigned
  /\ stamp[r] - clock <= TimeWindow /\ clock - stamp[r] <= TimeWindow
  /\ call' = [call EXCEPT ![h] = [request |-> r, now |-> clock, at |-> "verified"]]
  /\ UNCHANGED <<clock, stamp, nonces, sessions>>

(* nonces.retain: what has expired at the time the call read. *)
Retained(now) ==
  [r \in Requests |-> IF nonces[r] # NoNonce /\ nonces[r] > now THEN nonces[r] ELSE NoNonce]

(* Mutant: the nonce is kept for one side of the window. *)
RecordNonceBriefly(h) ==
  /\ call[h] # NoCall /\ call[h].at = "verified"
  /\ Retained(call[h].now)[call[h].request] = NoNonce
  /\ nonces' = [Retained(call[h].now) EXCEPT ![call[h].request] = call[h].now + TimeWindow]
  /\ call' = [call EXCEPT ![h] =
       [request |-> call[h].request, now |-> call[h].now, at |-> "recorded"]]
  /\ UNCHANGED <<clock, stamp, sessions>>

(* record_nonce under the mutex of the nonces ... *)
RecordNonce(h) ==
  /\ call[h] # NoCall /\ call[h].at = "verified"
  /\ Retained(call[h].now)[call[h].request] = NoNonce
  /\ nonces' = [Retained(call[h].now) EXCEPT ![call[h].request] = call[h].now + NonceTtl]
  /\ call' = [call EXCEPT ![h] =
       [request |-> call[h].request, now |-> call[h].now, at |-> "recorded"]]
  /\ UNCHANGED <<clock, stamp, sessions>>

(* ... or "replayed nonce". *)
RefuseNonce(h) ==
  /\ call[h] # NoCall /\ call[h].at = "verified"
  /\ Retained(call[h].now)[call[h].request] # NoNonce
  /\ nonces' = Retained(call[h].now)
  /\ call' = [call EXCEPT ![h] = NoCall]
  /\ UNCHANGED <<clock, stamp, sessions>>

Unexpired(now) == {s \in sessions : s.now + SessionTtl > now}

(* The session is added under the mutex of the sessions. *)
OpenSession(h) ==
  /\ call[h] # NoCall /\ call[h].at = "recorded"
  /\ sessions' = Unexpired(call[h].now) \cup
       {[request |-> call[h].request, now |-> call[h].now, by |-> h]}
  /\ call' = [call EXCEPT ![h] = NoCall]
  /\ UNCHANGED <<clock, stamp, nonces>>

(* validate_session forgets the sessions that have expired. *)
ValidateSession ==
  /\ sessions # Unexpired(clock)
  /\ sessions' = Unexpired(clock)
  /\ UNCHANGED <<clock, stamp, nonces, call>>

(* Time passes; open_session does not wait for anything but two mutexes    *)
(* that are held for a moment, so no call is older than MaxStall.          *)
Tick ==
  /\ clock < MaxTime
  /\ \A h \in Handlers : call[h] # NoCall => clock - call[h].now < MaxStall
  /\ clock' = clock + 1
  /\ UNCHANGED <<stamp, nonces, sessions, call>>

(* Sessions and nonces are kept in memory only. *)
Restart ==
  /\ nonces' = [r \in Requests |-> NoNonce]
  /\ sessions' = {}
  /\ call' = [h \in Handlers |-> NoCall]
  /\ UNCHANGED <<clock, stamp>>

Next ==
  \/ \E r \in Requests, t \in Times : Sign(r, t)
  \/ \E h \in Handlers, r \in Requests : Verify(h, r)
  \/ \E h \in Handlers : RecordNonce(h) \/ RefuseNonce(h) \/ OpenSession(h)
  \/ ValidateSession
  \/ Tick
  \/ Restart

Spec == Init /\ [][Next]_vars
-----------------------------------------------------------------------------

(* How far apart two calls have read the clock. *)
Distance(a, b) == IF a < b THEN b - a ELSE a - b

(* A signed request is good for one session, up to one accident: however   *)
(* often and late it is delivered, and whichever calls purge the nonces in *)
(* between, a second session of it needs a call that read the clock        *)
(* NonceTtl after the other one, less the longest call, and both within    *)
(* the window of the request.  Where NonceTtl = 2 * TimeWindow, as in the  *)
(* code, these are deliveries at the two ends of the window.               *)
RepeatedOnlyAtEnds ==
  \A s, t \in sessions :
    s.request = t.request /\ s # t =>
      Distance(s.now, t.now) \in (NonceTtl - MaxStall) .. (2 * TimeWindow)
=============================================================================
