---------------------------- MODULE SessionProofs ----------------------------
(***************************************************************************)
(* RepeatedOnlyAtEnds for any number of requests and calls and every       *)
(* configuration of the times.  The argument: the nonce of an accepted     *)
(* request is still recorded, or the clock has reached its expiry time, so *)
(* that every call under way has read it shortly before, or later.         *)
(***************************************************************************)
EXTENDS Session, TLAPS

InWindow(r, t) ==
  stamp[r] \in Times /\ stamp[r] - t <= TimeWindow /\ t - stamp[r] <= TimeWindow

(* Every call read the clock lately and found the request in its window. *)
CallsFresh ==
  \A h \in Handlers : call[h] # NoCall =>
    /\ InWindow(call[h].request, call[h].now)
    /\ call[h].now <= clock /\ clock - call[h].now <= MaxStall

(* The request was accepted at time t: its nonce expires at t + NonceTtl   *)
(* and is not forgotten before.                                            *)
Spent(r, t) ==
  /\ InWindow(r, t)
  /\ nonces[r] = t + NonceTtl \/ clock >= t + NonceTtl

SessionsSpent == \A s \in sessions : Spent(s.request, s.now)

CallsSpent ==
  \A h \in Handlers : call[h] # NoCall /\ call[h].at = "recorded" =>
    Spent(call[h].request, call[h].now)

Apart(t, u) == Distance(t, u) >= NonceTtl - MaxStall

(* Sessions and calls that accepted the same request did so at times that  *)
(* are apart.                                                              *)
AllApart ==
  /\ \A s, t \in sessions : s.request = t.request /\ s # t => Apart(s.now, t.now)
  /\ \A h \in Handlers : call[h] # NoCall /\ call[h].at = "recorded" =>
       /\ \A s \in sessions : s.request = call[h].request => Apart(call[h].now, s.now)
       /\ \A g \in Handlers \ {h} :
            call[g] # NoCall /\ call[g].at = "recorded" /\ call[g].request = call[h].request =>
              Apart(call[h].now, call[g].now)

IInv == TypeOK /\ CallsFresh /\ SessionsSpent /\ CallsSpent /\ AllApart

(* The distance of two times is the same both ways. *)
LEMMA ApartSymmetric ==
  ASSUME NEW t \in Times, NEW u \in Times, Apart(t, u) PROVE Apart(u, t)
  BY SessionAssumption DEF Apart, Distance, Times

(* The server starts without sessions, nonces and calls. *)
LEMMA InitInv == Init => IInv
  BY SessionAssumption, NoCallAssumption
  DEF Init, IInv, TypeOK, CallsFresh, SessionsSpent, CallsSpent, AllApart, Apart, Distance, Times

(* Signing a request concerns no call and no session. *)
LEMMA SignInv == ASSUME IInv, NEW r \in Requests, NEW t \in Times, Sign(r, t) PROVE IInv'
<1> USE SessionAssumption DEF IInv, Sign, TypeOK, Times, Call, SessionRecord
<1>1. TypeOK'
  OBVIOUS
<1>2. CallsFresh'
  BY DEF CallsFresh, InWindow
<1>3. SessionsSpent' /\ CallsSpent'
  BY DEF SessionsSpent, CallsSpent, Spent, InWindow
<1>4. AllApart'
  BY DEF AllApart, Apart, Distance
<1> QED  BY <1>1, <1>2, <1>3, <1>4

(* A new call is fresh and has accepted nothing yet. *)
LEMMA VerifyInv == ASSUME IInv, NEW h \in Handlers, NEW r \in Requests, Verify(h, r) PROVE IInv'
<1> USE SessionAssumption, NoCallAssumption DEF IInv, Verify, TypeOK, Times, Call, SessionRecord
<1>1. TypeOK'
  OBVIOUS
<1>2. CallsFresh'
  BY DEF CallsFresh, InWindow
<1>3. SessionsSpent' /\ CallsSpent'
  BY DEF SessionsSpent, CallsSpent, Spent, InWindow
<1>4. AllApart'
  BY DEF AllApart, Apart, Distance
<1> QED  BY <1>1, <1>2, <1>3, <1>4

(* A nonce that a call purges has reached its expiry time. *)
LEMMA RetainedSpent ==
  ASSUME IInv, NEW h \in Handlers, call[h] # NoCall,
         NEW r \in Requests, NEW t \in Times, Spent(r, t)
  PROVE  Retained(call[h].now)[r] = t + NonceTtl \/ clock >= t + NonceTtl
<1>1. call[h] \in Call  BY DEF IInv, TypeOK
<1>2. call[h].now <= clock  BY DEF IInv, CallsFresh
<1>3. CASE nonces[r] = t + NonceTtl /\ nonces[r] > call[h].now
  BY <1>3, SessionAssumption DEF Retained, Times
<1>4. CASE nonces[r] = t + NonceTtl /\ ~(nonces[r] > call[h].now)
  BY <1>1, <1>2, <1>4, SessionAssumption DEF Call, Times, IInv, TypeOK
<1> QED  BY <1>3, <1>4 DEF Spent

(* A call that does not find the nonce of an accepted request read the     *)
(* clock that much later.                                                  *)
LEMMA NotFound ==
  ASSUME IInv, NEW h \in Handlers, call[h] # NoCall, NEW t \in Times,
         Spent(call[h].request, t),
         Retained(call[h].now)[call[h].request] = NoNonce
  PROVE  clock >= t + NonceTtl /\ Apart(call[h].now, t)
<1>1. call[h] \in Call  BY DEF IInv, TypeOK
<1>2. t + NonceTtl # NoNonce
  BY SessionAssumption DEF Times
<1>3. clock >= t + NonceTtl
  BY <1>1, <1>2, RetainedSpent DEF Call
<1>4. clock - call[h].now <= MaxStall /\ clock \in Times
  BY DEF IInv, CallsFresh, TypeOK
<1> QED  BY <1>1, <1>3, <1>4, SessionAssumption DEF Times, Call, Apart, Distance

(* Recording the nonce: who accepted the request before did so at a time   *)
(* that is apart.                                                          *)
LEMMA RecordNonceInv == ASSUME IInv, NEW h \in Handlers, RecordNonce(h) PROVE IInv'
<1> DEFINE c == call[h]
<1>1. c \in Call /\ c # NoCall  BY DEF IInv, TypeOK, RecordNonce
<1>2. call'[h] = [request |-> c.request, now |-> c.now, at |-> "recorded"]
      /\ call'[h] # NoCall /\ call'[h] \in Call
  BY <1>1, NoCallAssumption DEF RecordNonce, IInv, TypeOK, Call
<1>3. \A g \in Handlers \ {h} : call'[g] = call[g]
  BY DEF RecordNonce, IInv, TypeOK
<1>4. TypeOK'
  BY <1>1, <1>2, SessionAssumption DEF RecordNonce, IInv, TypeOK, Retained, Times, Call
<1>5. CallsFresh'
  BY <1>1, <1>2, <1>3 DEF RecordNonce, IInv, CallsFresh, InWindow, Call
<1>6. Retained(c.now)[c.request] = NoNonce
  BY DEF RecordNonce
<1>7. \A s \in sessions : s.request = c.request => Apart(c.now, s.now)
  BY <1>1, <1>6, NotFound DEF IInv, TypeOK, SessionsSpent, SessionRecord
<1>8. \A g \in Handlers \ {h} :
        call[g] # NoCall /\ call[g].at = "recorded" /\ call[g].request = c.request =>
          Apart(c.now, call[g].now) /\ Apart(call[g].now, c.now)
  BY <1>1, <1>6, NotFound, ApartSymmetric DEF IInv, TypeOK, CallsSpent, Call
<1>9. \A r \in Requests \ {c.request} : nonces'[r] = Retained(c.now)[r]
  BY DEF RecordNonce, Retained
<1>10. \A r \in Requests, t \in Times : Spent(r, t) => Spent(r, t)'
  <2> SUFFICES ASSUME NEW r \in Requests, NEW t \in Times, Spent(r, t) PROVE Spent(r, t)'
    OBVIOUS
  <2>1. CASE r = c.request
    BY <1>1, <1>6, <2>1, NotFound DEF RecordNonce, Spent, InWindow
  <2>2. CASE r # c.request
    BY <1>1, <1>9, <2>2, RetainedSpent DEF RecordNonce, Spent, InWindow
  <2> QED  BY <2>1, <2>2
<1>11. SessionsSpent'
  BY <1>10 DEF RecordNonce, IInv, TypeOK, SessionsSpent, SessionRecord
<1>12. Spent(c.request, c.now)'
  <2>1. nonces'[c.request] = c.now + NonceTtl  BY <1>1 DEF RecordNonce, Retained, Call
  <2>2. InWindow(c.request, c.now)
    BY <1>1 DEF IInv, CallsFresh
  <2> QED  BY <2>1, <2>2 DEF RecordNonce, Spent, InWindow
<1>13. CallsSpent'
  BY <1>2, <1>3, <1>10, <1>12 DEF IInv, TypeOK, CallsSpent, Call
<1>14. AllApart'
  BY <1>2, <1>3, <1>7, <1>8 DEF RecordNonce, IInv, AllApart, Apart, Distance
<1> QED  BY <1>4, <1>5, <1>11, <1>13, <1>14 DEF IInv

(* A refused call purges the nonces and ends. *)
LEMMA RefuseNonceInv == ASSUME IInv, NEW h \in Handlers, RefuseNonce(h) PROVE IInv'
<1>1. call[h] \in Call /\ call[h] # NoCall  BY DEF IInv, TypeOK, RefuseNonce
<1>2. call'[h] = NoCall /\ \A g \in Handlers \ {h} : call'[g] = call[g]
  BY DEF RefuseNonce, IInv, TypeOK
<1>3. TypeOK'
  BY <1>1, SessionAssumption DEF RefuseNonce, IInv, TypeOK, Retained, Times, Call
<1>4. CallsFresh'
  BY <1>2 DEF RefuseNonce, IInv, CallsFresh, InWindow
<1>5. \A r \in Requests, t \in Times : Spent(r, t) => Spent(r, t)'
  BY <1>1, RetainedSpent DEF RefuseNonce, Spent, InWindow
<1>6. SessionsSpent'
  BY <1>5 DEF RefuseNonce, IInv, TypeOK, SessionsSpent, SessionRecord
<1>7. CallsSpent'
  BY <1>2, <1>5 DEF IInv, TypeOK, CallsSpent, Call
<1>8. AllApart'
  BY <1>2 DEF RefuseNonce, IInv, AllApart, Apart, Distance
<1> QED  BY <1>3, <1>4, <1>6, <1>7, <1>8 DEF IInv

(* The session takes over from the call. *)
LEMMA OpenSessionInv == ASSUME IInv, NEW h \in Handlers, OpenSession(h) PROVE IInv'
<1> DEFINE new == [request |-> call[h].request, now |-> call[h].now, by |-> h]
<1>1. call[h] \in Call /\ call[h] # NoCall /\ call[h].at = "recorded"
  BY DEF IInv, TypeOK, OpenSession
<1>2. call'[h] = NoCall /\ \A g \in Handlers \ {h} : call'[g] = call[g]
  BY DEF OpenSession, IInv, TypeOK
<1>3. sessions' \subseteq sessions \cup {new}
  BY DEF OpenSession, Unexpired
<1>4. TypeOK'
  BY <1>1, <1>3 DEF OpenSession, IInv, TypeOK, SessionRecord, Call
<1>5. CallsFresh'
  BY <1>2 DEF OpenSession, IInv, CallsFresh, InWindow
<1>6. SessionsSpent' /\ CallsSpent'
  BY <1>1, <1>2, <1>3 DEF OpenSession, IInv, SessionsSpent, CallsSpent, Spent, InWindow
<1>7. \A s \in sessions : s.request = new.request =>
        Apart(new.now, s.now) /\ Apart(s.now, new.now)
  BY <1>1, ApartSymmetric DEF IInv, TypeOK, AllApart, SessionRecord, Call
<1>8. \A s, t \in sessions' : s.request = t.request /\ s # t => Apart(s.now, t.now)
  BY <1>3, <1>7 DEF IInv, AllApart
<1>9. \A g \in Handlers \ {h} :
        call[g] # NoCall /\ call[g].at = "recorded" =>
          \A s \in sessions' : s.request = call[g].request => Apart(call[g].now, s.now)
  BY <1>1, <1>3 DEF IInv, AllApart
<1>10. AllApart'
  BY <1>2, <1>8, <1>9 DEF IInv, AllApart, Apart, Distance
<1> QED  BY <1>4, <1>5, <1>6, <1>10 DEF IInv

(* Forgetting sessions, time passing and a restart take nothing away that  *)
(* the argument needs.                                                     *)
LEMMA ValidateSessionInv == ASSUME IInv, ValidateSession PROVE IInv'
  BY DEF ValidateSession, Unexpired, IInv, TypeOK, CallsFresh, SessionsSpent, CallsSpent, Spent, InWindow, AllApart, Apart, Distance

(* Time only adds to what has passed, and waits for the calls. *)
LEMMA TickInv == ASSUME IInv, Tick PROVE IInv'
<1>1. TypeOK'
  BY SessionAssumption DEF Tick, IInv, TypeOK, Times
<1>2. CallsFresh'
  BY SessionAssumption DEF Tick, IInv, TypeOK, CallsFresh, InWindow, Times, Call
<1>3. \A r \in Requests, t \in Times : Spent(r, t) => Spent(r, t)'
  BY SessionAssumption DEF Tick, IInv, TypeOK, Spent, InWindow, Times
<1>4. SessionsSpent' /\ CallsSpent'
  BY <1>3 DEF Tick, IInv, TypeOK, SessionsSpent, CallsSpent, SessionRecord, Call
<1>5. AllApart'
  BY DEF Tick, IInv, AllApart, Apart, Distance
<1> QED  BY <1>1, <1>2, <1>4, <1>5 DEF IInv

(* After a restart there are neither nonces nor sessions. *)
LEMMA RestartInv == ASSUME IInv, Restart PROVE IInv'
  BY NoCallAssumption DEF Restart, IInv, TypeOK, CallsFresh, SessionsSpent, CallsSpent, AllApart, Apart, Distance

(* The invariant is an invariant. *)
THEOREM Invariance == Spec => []IInv
<1>1. IInv /\ [Next]_vars => IInv'
  <2> SUFFICES ASSUME IInv, [Next]_vars PROVE IInv'  OBVIOUS
  <2>1. ASSUME NEW r \in Requests, NEW t \in Times, Sign(r, t) PROVE IInv'
    BY <2>1, SignInv
  <2>2. ASSUME NEW h \in Handlers, NEW r \in Requests, Verify(h, r) PROVE IInv'
    BY <2>2, VerifyInv
  <2>3. ASSUME NEW h \in Handlers, RecordNonce(h) PROVE IInv'
    BY <2>3, RecordNonceInv
  <2>4. ASSUME NEW h \in Handlers, RefuseNonce(h) PROVE IInv'
    BY <2>4, RefuseNonceInv
  <2>5. ASSUME NEW h \in Handlers, OpenSession(h) PROVE IInv'
    BY <2>5, OpenSessionInv
  <2>6. CASE ValidateSession
    BY <2>6, ValidateSessionInv
  <2>7. CASE Tick
    BY <2>7, TickInv
  <2>8. CASE Restart
    BY <2>8, RestartInv
  <2>9. CASE UNCHANGED vars
    BY <2>9 DEF vars, IInv, TypeOK, CallsFresh, SessionsSpent, CallsSpent, Spent, InWindow, AllApart, Apart, Distance
  <2> QED  BY <2>1, <2>2, <2>3, <2>4, <2>5, <2>6, <2>7, <2>8, <2>9 DEF Next
<1> QED  BY <1>1, InitInv, PTL DEF Spec

(* A signed request is good for one session, except for deliveries at the *)
(* two ends of its window, in every configuration of the times.            *)
THEOREM RepeatedAtEnds == Spec => []RepeatedOnlyAtEnds
<1>1. IInv => RepeatedOnlyAtEnds
  <2> SUFFICES ASSUME IInv, NEW s \in sessions, NEW t \in sessions,
                      s.request = t.request, s # t
               PROVE  Distance(s.now, t.now) \in (NonceTtl - MaxStall) .. (2 * TimeWindow)
    BY DEF RepeatedOnlyAtEnds
  <2>1. s.now \in Times /\ t.now \in Times
    BY DEF IInv, TypeOK, SessionRecord
  <2>2. InWindow(s.request, s.now) /\ InWindow(s.request, t.now)
    BY DEF IInv, SessionsSpent, Spent
  <2>3. Apart(s.now, t.now)
    BY DEF IInv, AllApart
  <2> QED  BY <2>1, <2>2, <2>3, SessionAssumption DEF Apart, Distance, InWindow, Times
<1> QED  BY <1>1, Invariance, PTL

(* The clock, the nonces, the sessions and the calls always have their     *)
(* types.                                                                  *)
THEOREM TypeCorrect == Spec => []TypeOK
<1>1. IInv => TypeOK  BY DEF IInv
<1> QED  BY <1>1, Invariance, PTL
=============================================================================
