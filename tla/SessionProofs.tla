---------------------------- MODULE SessionProofs ----------------------------
(***************************************************************************)
(* Proofs about the session stores, for any number of sessions, requests   *)
(* and logins, any lifetimes and any clock bound: first what both stores   *)
(* share, then the login flow with its sessions in PostgresStore           *)
(* (OAuthLogin), then the sessions in MemoryStore (MemorySessions).        *)
(***************************************************************************)
EXTENDS OAuthLogin, MemorySessions, TLAPS

(* Stored and ended sessions are the ones ever stored, and none is both.   *)
IdsSound ==
  /\ \A s \in Sid : Stored(s) => s \in issued /\ s \notin ended
  /\ \A s \in issued : Stored(s) \/ s \in ended
  /\ ended \subseteq issued

(* A stored session lives for at least a second and at most the longest    *)
(* lifetime there is.                                                      *)
RowSound(row) ==
  /\ row.expires_at > row.created_at
  /\ row.expires_at <= row.created_at + MaxLifetime
  /\ row.last_activity <= now

LogoutsSound == \A s \in Sid : loggedOut[s] <= 1 /\ (loggedOut[s] = 1 => s \in ended)

StoreInv ==
  /\ now \in Nat
  /\ session \in [Sid -> Session \cup {NoRow}]
  /\ issued \subseteq Sid
  /\ ended \subseteq Sid
  /\ loggedOut \in [Sid -> Nat]
  /\ IdsSound
  /\ \A s \in Sid : Stored(s) => RowSound(session[s])
  /\ LogoutsSound

(* A session that was stored once and, at time t, is removed or expired.   *)
Dead(s, t) == s \in issued /\ (~Stored(s) \/ Expired(s, t))

(* What a step of any store may do to the sessions: it keeps StoreInv,     *)
(* implements the ledger, leaves lifetimes alone and the dead dead.        *)
LifetimeStep ==
  \A s \in Sid :
    Stored(s)' =>
      /\ session'[s].expires_at > session'[s].created_at
      /\ session'[s].expires_at <= session'[s].created_at + MaxLifetime
      /\ Stored(s) =>
           /\ session'[s].expires_at = session[s].expires_at
           /\ session'[s].last_activity >= session[s].last_activity

DeadStay == \A s \in Sid, t \in Nat : Dead(s, t) => Dead(s, t)'

StoreStep ==
  /\ StoreInv'
  /\ now <= now'
  /\ [SessionLog!SessionLedgerNext]_(SessionLog!sessionLedgerVars)
  /\ LifetimeStep
  /\ DeadStay

-----------------------------------------------------------------------------
(* The empty store.                                                        *)
LEMMA StoreInitInv == SessionsInit => StoreInv
  BY DEF SessionsInit, StoreInv, IdsSound, LogoutsSound, Stored

(* A step that leaves the sessions alone.                                  *)
LEMMA QuietStore ==
  ASSUME StoreInv, now' \in Nat, now <= now',
         UNCHANGED <<session, issued, ended, loggedOut>>
  PROVE  StoreStep
<1>1. StoreInv'
  BY DEF StoreInv, IdsSound, LogoutsSound, Stored, RowSound, Session
<1>2. UNCHANGED SessionLog!sessionLedgerVars
  BY DEF SessionLog!sessionLedgerVars, Stored
<1>3. LifetimeStep
  BY DEF LifetimeStep, StoreInv, Stored, RowSound, Session
<1>4. DeadStay
  BY DEF DeadStay, Dead, Stored, Expired
<1>5. QED
  BY <1>1, <1>2, <1>3, <1>4 DEF StoreStep

(* A stored session is touched: only its last activity changes.            *)
LEMMA TouchStore ==
  ASSUME StoreInv, NEW s \in Sid, Stored(s),
         session' = [session EXCEPT ![s].last_activity = now],
         UNCHANGED <<now, issued, ended, loggedOut>>
  PROVE  StoreStep
<1> DEFINE row == [session[s] EXCEPT !.last_activity = now]
<1> USE DEF StoreInv
<1>1. session[s] \in Session
  BY DEF Stored
<1>2. /\ row \in Session /\ row.last_activity = now
      /\ row.created_at = session[s].created_at
      /\ row.expires_at = session[s].expires_at
  BY <1>1 DEF Session
<1>3. session' = [session EXCEPT ![s] = row]
  OBVIOUS
<1> HIDE DEF row
<1>4. session'[s] = row /\ \A r \in Sid : r # s => session'[r] = session[r]
  BY <1>3
<1>5. \A r \in Sid : Stored(r)' <=> Stored(r)
  BY <1>2, <1>4, NoRowAssumption DEF Stored
<1>6. StoreInv'
  <2>1. session' \in [Sid -> Session \cup {NoRow}]
    BY <1>2, <1>3
  <2>2. IdsSound' /\ LogoutsSound'
    BY <1>5 DEF IdsSound, LogoutsSound
  <2>3. ASSUME NEW r \in Sid, Stored(r)' PROVE RowSound(session[r])'
    BY <1>2, <1>4, <1>5, <2>3 DEF RowSound, Session
  <2>4. QED
    BY <2>1, <2>2, <2>3
<1>7. UNCHANGED SessionLog!sessionLedgerVars
  BY <1>5 DEF SessionLog!sessionLedgerVars
<1>8. LifetimeStep
  BY <1>2, <1>4, <1>5, <1>6 DEF LifetimeStep, RowSound, Session, Stored
<1>9. DeadStay
  BY <1>2, <1>4, <1>5 DEF DeadStay, Dead, Expired
<1>10. QED
  BY <1>6, <1>7, <1>8, <1>9 DEF StoreStep

(* A session is stored under an id never used before.                      *)
LEMMA CreateStore ==
  ASSUME StoreInv, NEW s \in Sid, NEW row \in Session, RowSound(row), Create(s, row),
         UNCHANGED <<now, ended, loggedOut>>
  PROVE  StoreStep
<1> USE DEF StoreInv, Create
<1>1. session'[s] = row /\ \A r \in Sid : r # s => session'[r] = session[r]
  OBVIOUS
<1>2. /\ ~Stored(s) /\ Stored(s)' /\ s \notin ended
      /\ \A r \in Sid : r # s => (Stored(r)' <=> Stored(r))
  BY <1>1, NoRowAssumption DEF Stored, IdsSound
<1>3. StoreInv'
  <2>1. session' \in [Sid -> Session \cup {NoRow}] /\ issued' \subseteq Sid
    OBVIOUS
  <2>2. IdsSound' /\ LogoutsSound'
    BY <1>2 DEF IdsSound, LogoutsSound
  <2>3. ASSUME NEW r \in Sid, Stored(r)' PROVE RowSound(session[r])'
    BY <1>1, <1>2, <2>3 DEF RowSound
  <2>4. QED
    BY <2>1, <2>2, <2>3
<1>4. SessionLog!Begin(s)
  BY <1>2 DEF SessionLog!Begin
<1>5. LifetimeStep
  BY <1>1, <1>2 DEF LifetimeStep, RowSound, Session, Stored
<1>6. DeadStay
  BY <1>1, <1>2 DEF DeadStay, Dead, Expired
<1>7. QED
  BY <1>3, <1>4, <1>5, <1>6 DEF StoreStep, SessionLog!SessionLedgerNext

(* Sessions are removed; a logout that removed one may be acknowledged.    *)
LEMMA RemoveStore ==
  ASSUME StoreInv, NEW S \in SUBSET Sid, Remove(S), UNCHANGED <<now, issued>>,
         \/ loggedOut' = loggedOut
         \/ \E s \in S : Stored(s) /\ loggedOut' = [loggedOut EXCEPT ![s] = @ + 1]
  PROVE  StoreStep
<1> USE DEF StoreInv, Remove
<1>1. /\ \A r \in Sid : Stored(r)' <=> Stored(r) /\ r \notin S
      /\ \A r \in Sid \ S : session'[r] = session[r]
  BY DEF Stored
<1>2. StoreInv'
  <2>1. session' \in [Sid -> Session \cup {NoRow}] /\ ended' \subseteq Sid
    OBVIOUS
  <2>2. loggedOut' \in [Sid -> Nat]
    OBVIOUS
  <2>3. IdsSound'
    BY <1>1 DEF IdsSound
  <2>4. LogoutsSound'
    BY DEF LogoutsSound, IdsSound
  <2>5. ASSUME NEW r \in Sid, Stored(r)' PROVE RowSound(session[r])'
    BY <1>1, <2>5 DEF RowSound
  <2>6. QED
    BY <2>1, <2>2, <2>3, <2>4, <2>5
<1>3. [SessionLog!SessionLedgerNext]_(SessionLog!sessionLedgerVars)
  <2> DEFINE gone == {s \in S : Stored(s)}
             present == {s \in Sid : Stored(s)}
  <2>1. {s \in Sid : Stored(s)}' = present \ gone
    BY <1>1
  <2>2. CASE gone = {}
    BY <2>1, <2>2 DEF SessionLog!sessionLedgerVars
  <2>3. CASE gone # {}
    <3>1. SessionLog!Finish(gone)
      BY <2>1, <2>3 DEF SessionLog!Finish
    <3>2. gone \in SUBSET present
      OBVIOUS
    <3> HIDE DEF gone
    <3>3. QED
      BY <3>1, <3>2 DEF SessionLog!SessionLedgerNext
  <2>4. QED
    BY <2>2, <2>3
<1>4. LifetimeStep
  BY <1>1 DEF LifetimeStep, RowSound, Session, Stored
<1>5. DeadStay
  BY <1>1 DEF DeadStay, Dead, Expired
<1>6. QED
  BY <1>2, <1>3, <1>4, <1>5 DEF StoreStep
-----------------------------------------------------------------------------
(* The handlers.  A request that arrived after its session died never gets *)
(* as far as the touch: the death it will find stands from its arrival, or *)
(* from the clock it has read, which is never ahead of the store's.        *)
CallState ==
  [pc : {"idle", "get", "read", "remove", "touch", "revoke", "reply"},
   sid : Sid, t0 : Nat,
   ans : {"none", "unauthorized", "logged_out", "not_found_ok", "not_found", "valid"},
   at0 : {"live", "dead"}]

CallSound(k) ==
  /\ k.at0 = "dead" =>
       /\ k.ans # "valid"
       /\ k.pc # "touch"
       /\ k.pc = "get" => Dead(k.sid, now)
       /\ k.pc = "read" => Dead(k.sid, k.t0)
  /\ k.pc \in {"read", "remove"} => k.t0 <= now
  /\ k.pc = "remove" => Dead(k.sid, k.t0)

CallsInv ==
  /\ call \in [Caller -> CallState]
  /\ \A c \in Caller : CallSound(call[c])

(* Only an acknowledged logout removes a session that has not expired.     *)
LiveStep ==
  \A s \in Sid : Alive(s) /\ ~Stored(s)' => loggedOut'[s] = loggedOut[s] + 1

SessionStep == StoreStep /\ CallsInv' /\ LiveStep

(* An idle slot.                                                           *)
LEMMA NoCallSound == NoCall \in CallState /\ NoCall.at0 = "live" /\ NoCall.pc = "idle"
  BY SidAssumption DEF NoCall, CallState

LEMMA CallsInitInv == SessionsInit => CallsInv
  BY NoCallSound DEF SessionsInit, CallsInv, CallSound

(* The dead stay dead as the clock moves on.                               *)
LEMMA DeadLater ==
  ASSUME StoreInv, NEW s \in Sid, NEW t \in Nat, NEW u \in Nat, t <= u, Dead(s, t)
  PROVE  Dead(s, u)
  BY DEF StoreInv, Dead, Expired, Stored, Session

(* What a request has seen of its session survives the steps of others.    *)
LEMMA OtherCall ==
  ASSUME StoreInv, StoreStep, NEW c \in Caller, call[c] \in CallState,
         CallSound(call[c]), call'[c] = call[c]
  PROVE  CallSound(call[c])'
<1> DEFINE k == call[c]
<1>1. now \in Nat /\ now' \in Nat /\ now <= now' /\ DeadStay /\ StoreInv'
  BY DEF StoreStep, StoreInv
<1>2. k.sid \in Sid /\ k.t0 \in Nat
  BY DEF CallState
<1>3. Dead(k.sid, now) => Dead(k.sid, now)'
  <2>1. Dead(k.sid, now) => Dead(k.sid, now')
    BY <1>1, <1>2, DeadLater
  <2>2. \A s \in Sid, t \in Nat : Dead(s, t) => s \in issued' /\ (~Stored(s)' \/ session'[s].expires_at <= t)
    BY <1>1 DEF DeadStay, Dead, Expired
  <2>3. QED
    BY <1>1, <1>2, <2>1, <2>2 DEF Dead, Expired
<1>4. QED
  BY <1>1, <1>2, <1>3 DEF CallSound, CallState, DeadStay, Dead, Stored, Expired

(* A step of the request in slot c, or of none.                            *)
LEMMA CallMoves ==
  ASSUME StoreInv, CallsInv, StoreStep, NEW c \in Caller, call'[c] \in CallState,
         call' = [call EXCEPT ![c] = call'[c]], CallSound(call[c])'
  PROVE  CallsInv'
<1>1. call' \in [Caller -> CallState]
  BY DEF CallsInv
<1>2. ASSUME NEW d \in Caller, d # c PROVE CallSound(call[d])'
  <2>1. call[d] \in CallState /\ CallSound(call[d]) /\ call'[d] = call[d]
    BY <1>2 DEF CallsInv
  <2>2. QED
    BY <2>1, OtherCall
<1>3. QED
  BY <1>1, <1>2 DEF CallsInv

LEMMA CallsRest ==
  ASSUME StoreInv, CallsInv, StoreStep, UNCHANGED call
  PROVE  CallsInv'
<1>1. ASSUME NEW d \in Caller PROVE CallSound(call[d])'
  <2>1. call[d] \in CallState /\ CallSound(call[d]) /\ call'[d] = call[d]
    BY DEF CallsInv
  <2>2. QED
    BY <2>1, OtherCall
<1>2. QED
  BY <1>1 DEF CallsInv

(* What an answer leaves of the request.                                   *)
LEMMA CallEndsFields ==
  ASSUME CallsInv, NEW c \in Caller,
         NEW answer \in {"unauthorized", "logged_out", "not_found_ok", "not_found", "valid"},
         CallEnds(c, answer)
  PROVE  /\ call'[c] \in CallState
         /\ call' = [call EXCEPT ![c] = call'[c]]
         /\ call'[c].pc = "reply" /\ call'[c].ans = answer
         /\ call'[c].at0 = call[c].at0
<1> DEFINE k == [call[c] EXCEPT !.pc = "reply", !.ans = answer]
<1>1. call[c] \in CallState /\ call' = [call EXCEPT ![c] = k]
  BY DEF CallsInv, CallEnds
<1>2. k \in CallState /\ k.pc = "reply" /\ k.ans = answer /\ k.at0 = call[c].at0
  BY <1>1 DEF CallState
<1> HIDE DEF k
<1>3. QED
  BY <1>1, <1>2 DEF CallsInv

(* A step that leaves the sessions alone loses none.                       *)
LEMMA QuietSession ==
  ASSUME StoreInv, now' \in Nat, now <= now',
         UNCHANGED <<session, issued, ended, loggedOut>>, CallsInv'
  PROVE  SessionStep
  BY QuietStore DEF SessionStep, LiveStep, Stored, Alive

LEMMA ClockTickSession ==
  ASSUME StoreInv, CallsInv, ClockTick
  PROVE  SessionStep
<1>1. now' \in Nat /\ now <= now' /\ UNCHANGED <<session, issued, ended, loggedOut, call>>
  BY DEF ClockTick, StoreInv
<1>2. StoreStep
  BY <1>1, QuietStore
<1>3. QED
  BY <1>1, <1>2, CallsRest, QuietSession

LEMMA NoSessionIdSession ==
  ASSUME StoreInv, CallsInv, NEW c \in Caller, NoSessionId(c)
  PROVE  SessionStep
<1>1. StoreStep
  BY QuietStore DEF NoSessionId, StoreInv
<1>2. CallsInv'
  <2>1. /\ call'[c] \in CallState /\ call' = [call EXCEPT ![c] = call'[c]]
        /\ call'[c].pc = "reply" /\ call'[c].ans = "unauthorized"
    BY CallEndsFields DEF NoSessionId
  <2>2. CallSound(call[c])'
    BY <2>1 DEF CallSound
  <2>3. QED
    BY <1>1, <2>1, <2>2, CallMoves
<1>3. QED
  BY <1>2, QuietSession DEF NoSessionId, StoreInv

LEMMA ArrivesSession ==
  ASSUME StoreInv, CallsInv, NEW c \in Caller, NEW s \in Sid,
         NEW pc \in {"get", "revoke"}, Arrives(c, s, pc)
  PROVE  SessionStep
<1> DEFINE seen == IF s \in issued /\ ~Alive(s) THEN "dead" ELSE "live"
           k == [NoCall EXCEPT !.pc = pc, !.sid = s, !.at0 = seen]
<1>1. StoreStep
  BY QuietStore DEF Arrives, StoreInv
<1>2. CallsInv'
  <2>1. seen \in {"live", "dead"} /\ (seen = "dead" => Dead(s, now))
    BY DEF Alive, Dead
  <2>2. call' = [call EXCEPT ![c] = k]
    BY DEF Arrives
  <2>3. k \in CallState /\ k.pc = pc /\ k.sid = s /\ k.at0 = seen /\ k.ans = "none"
    <3> HIDE DEF seen
    <3>1. QED
      BY <2>1, NoCallSound DEF CallState, NoCall
  <2> HIDE DEF k, seen
  <2>4. call'[c] = k /\ UNCHANGED <<now, issued, session>>
    BY <2>2 DEF CallsInv, Arrives
  <2>5. CallSound(call[c])'
    BY <2>1, <2>3, <2>4 DEF CallSound, Dead, Stored, Expired
  <2>6. QED
    BY <1>1, <2>2, <2>3, <2>4, <2>5, CallMoves
<1>3. QED
  BY <1>2, QuietSession DEF Arrives, StoreInv

LEMMA ClearedCall ==
  ASSUME StoreInv, CallsInv, NEW c \in Caller, call' = [call EXCEPT ![c] = NoCall],
         UNCHANGED <<now, session, issued, ended, loggedOut>>
  PROVE  SessionStep
<1>1. StoreStep
  BY QuietStore DEF StoreInv
<1>2. call'[c] = NoCall
  BY DEF CallsInv
<1>3. CallSound(call[c])'
  BY <1>2, NoCallSound DEF CallSound
<1>4. CallsInv'
  BY <1>1, <1>2, <1>3, NoCallSound, CallMoves
<1>5. QED
  BY <1>4, QuietSession DEF StoreInv

(* A removal is acknowledged to its logout, or takes only the dead.        *)
LEMMA RemoveLive ==
  ASSUME StoreInv, NEW S \in SUBSET Sid, Remove(S),
         \A s \in S : Alive(s) => loggedOut'[s] = loggedOut[s] + 1
  PROVE  LiveStep
  BY DEF StoreInv, Remove, LiveStep, Stored, Alive

LEMMA RevokeSessionSession ==
  ASSUME StoreInv, CallsInv, NEW c \in Caller, RevokeSession(c)
  PROVE  SessionStep
<1> DEFINE s == call[c].sid
<1>1. s \in Sid
  BY DEF CallsInv, CallState
<1>2. /\ Remove({s})
      /\ UNCHANGED <<now, issued>>
      /\ \/ Stored(s) /\ CallEnds(c, "logged_out") /\ loggedOut' = [loggedOut EXCEPT ![s] = @ + 1]
         \/ ~Stored(s) /\ CallEnds(c, "not_found_ok") /\ UNCHANGED loggedOut
  BY DEF RevokeSession
<1>3. StoreStep
  BY <1>1, <1>2, RemoveStore
<1>4. LiveStep
  <2>1. Alive(s) => loggedOut'[s] = loggedOut[s] + 1
    BY <1>1, <1>2 DEF Alive, StoreInv
  <2>2. QED
    BY <1>1, <1>2, <2>1, RemoveLive
<1>5. CallsInv'
  <2>1. /\ call'[c] \in CallState /\ call' = [call EXCEPT ![c] = call'[c]]
        /\ call'[c].pc = "reply" /\ call'[c].ans \in {"logged_out", "not_found_ok"}
    BY <1>2, CallEndsFields
  <2>2. CallSound(call[c])'
    BY <2>1 DEF CallSound
  <2>3. QED
    BY <1>3, <2>1, <2>2, CallMoves
<1>6. QED
  BY <1>3, <1>4, <1>5 DEF SessionStep

-----------------------------------------------------------------------------
(* PostgresStore.                                                          *)
LEMMA PgGetSession ==
  ASSUME StoreInv, CallsInv, NEW c \in Caller, PgGet(c)
  PROVE  SessionStep
<1> DEFINE k == [call[c] EXCEPT !.pc = "touch"]
<1>1. StoreStep
  BY QuietStore DEF PgGet, StoreInv
<1>2. call[c] \in CallState /\ CallSound(call[c])
  BY DEF CallsInv
<1>3. CASE Alive(call[c].sid)
  <2>1. call' = [call EXCEPT ![c] = k]
    BY <1>3 DEF PgGet
  <2>2. k \in CallState /\ k.pc = "touch" /\ k.at0 = call[c].at0
    BY <1>2 DEF CallState
  <2>3. call[c].at0 # "dead"
    BY <1>2, <1>3 DEF CallSound, PgGet, Dead, Alive
  <2> HIDE DEF k
  <2>4. call'[c] = k
    BY <2>1 DEF CallsInv
  <2>5. CallSound(call[c])'
    BY <2>2, <2>3, <2>4 DEF CallSound
  <2>6. CallsInv'
    BY <1>1, <2>1, <2>2, <2>4, <2>5, CallMoves
  <2>7. QED
    BY <2>6, QuietSession DEF PgGet, StoreInv
<1>4. CASE ~Alive(call[c].sid)
  <2>1. /\ call'[c] \in CallState /\ call' = [call EXCEPT ![c] = call'[c]]
        /\ call'[c].pc = "reply" /\ call'[c].ans = "not_found"
    BY <1>4, CallEndsFields DEF PgGet
  <2>2. CallSound(call[c])'
    BY <2>1 DEF CallSound
  <2>3. CallsInv'
    BY <1>1, <2>1, <2>2, CallMoves
  <2>4. QED
    BY <2>3, QuietSession DEF PgGet, StoreInv
<1>5. QED
  BY <1>3, <1>4

(* Either store's touch: the entry, where there is one, stays.             *)
LEMMA TouchSession ==
  ASSUME StoreInv, CallsInv, NEW c \in Caller, call[c].pc = "touch", CallEnds(c, "valid"),
         \/ Stored(call[c].sid) /\ session' = [session EXCEPT ![call[c].sid].last_activity = now]
         \/ UNCHANGED session,
         UNCHANGED <<now, issued, ended, loggedOut>>
  PROVE  SessionStep
<1>1. call[c] \in CallState /\ CallSound(call[c]) /\ call[c].sid \in Sid
  BY DEF CallsInv, CallState
<1>2. StoreStep
  BY <1>1, TouchStore, QuietStore DEF StoreInv
<1>3. CallsInv'
  <2>1. /\ call'[c] \in CallState /\ call' = [call EXCEPT ![c] = call'[c]]
        /\ call'[c].pc = "reply" /\ call'[c].at0 = call[c].at0
    BY CallEndsFields
  <2>2. CallSound(call[c])'
    BY <1>1, <2>1 DEF CallSound
  <2>3. QED
    BY <1>2, <2>1, <2>2, CallMoves
<1>4. LiveStep
  <2>1. \A s \in Sid : s \in ended' <=> s \in ended
    OBVIOUS
  <2>2. \A s \in Sid : Stored(s) => Stored(s)'
    BY <1>2, <2>1 DEF StoreStep, StoreInv, IdsSound
  <2>3. QED
    BY <2>2 DEF LiveStep, Alive
<1>5. QED
  BY <1>2, <1>3, <1>4 DEF SessionStep

LEMMA PgSweepSession ==
  ASSUME StoreInv, CallsInv, PgSweep
  PROVE  SessionStep
<1> DEFINE due == {s \in Sid : Stored(s) /\ Expired(s, now)}
<1>1. Remove(due) /\ UNCHANGED <<now, issued, call, loggedOut>>
  BY DEF PgSweep
<1>2. \A s \in due : ~Alive(s)
  BY DEF Alive
<1>3. due \in SUBSET Sid
  OBVIOUS
<1> HIDE DEF due
<1>4. StoreStep
  BY <1>1, <1>3, RemoveStore
<1>5. LiveStep
  BY <1>1, <1>2, <1>3, RemoveLive
<1>6. QED
  BY <1>1, <1>4, <1>5, CallsRest DEF SessionStep

LEMMA PgCallSession ==
  ASSUME StoreInv, CallsInv, NEW c \in Caller, PgCall(c)
  PROVE  SessionStep
<1>1. CASE NoSessionId(c)
  BY <1>1, NoSessionIdSession
<1>2. CASE SessionValidate(c) \/ Logout(c)
  BY <1>2, ArrivesSession DEF SessionValidate, Logout
<1>3. CASE PgGet(c)
  BY <1>3, PgGetSession
<1>4. CASE PgTouch(c)
  BY <1>4, TouchSession DEF PgTouch, Alive
<1>5. CASE RevokeSession(c)
  BY <1>5, RevokeSessionSession
<1>6. CASE SessionReply(c) \/ CallAbandon(c)
  BY <1>6, ClearedCall DEF SessionReply, CallAbandon
<1>7. QED
  BY <1>1, <1>2, <1>3, <1>4, <1>5, <1>6 DEF PgCall, CallArrive

-----------------------------------------------------------------------------
(* The login flow.  A state has one owner at a time: the login that drew   *)
(* it, then its row, then the callback that consumed the row, and in the   *)
(* end the session that callback stored.                                   *)
FlowState ==
  [pc : {"idle", "login", "insert", "consume", "discover", "exchange", "verify",
         "create", "reply"},
   provider : Provider \cup {NoFlow.provider},
   st : Login \cup {NoLogin}, nonce : Login \cup {NoLogin}, code : Login \cup {NoLogin},
   sid : Sid, row : Session \cup {NoRow},
   ans : {"none", "url", "failed", "idp_error", "no_state", "session"}]

LoginTypes ==
  /\ drawn \subseteq Login
  /\ sent \subseteq drawn
  /\ flow \in [Flow -> FlowState]
  /\ origin \in [Sid -> [login : Login \cup {NoLogin}, user : Login \cup {NoLogin}]]

Owning(k) == k.pc \in {"insert", "discover", "exchange", "verify", "create"}

HasRow(l) == \E row \in oauth_state : row.state = l

HasSession(l) == \E s \in issued : origin[s].login = l

StatesSound ==
  /\ \A row \in oauth_state :
       row.state \in drawn /\ row.created_at \in Nat /\ ~HasSession(row.state)
  /\ \A row, other \in oauth_state : row.state = other.state => row = other

OriginsSound ==
  /\ \A s \in issued : origin[s].login \in drawn
  /\ StateSingleUse
  /\ SessionBoundToLogin

FlowSound(k) ==
  /\ k.ans = "url" => k.st \in drawn
  /\ Owning(k) => k.st \in drawn /\ ~HasRow(k.st) /\ ~HasSession(k.st)
  /\ k.pc \in {"discover", "exchange", "verify", "create"} => k.nonce = k.st
  /\ k.pc = "create" => k.code = k.nonce /\ k.row \in Session /\ RowSound(k.row)

OneOwner ==
  \A f, g \in Flow :
    Owning(flow[f]) /\ Owning(flow[g]) /\ flow[f].st = flow[g].st => f = g

FlowsSound == OneOwner /\ \A f \in Flow : FlowSound(flow[f])

LoginInv == LoginTypes /\ StatesSound /\ OriginsSound /\ FlowsSound

OAuthInv == StoreInv /\ CallsInv /\ LoginInv

(* An idle slot.                                                           *)
LEMMA NoFlowSound ==
  /\ NoFlow \in FlowState
  /\ NoFlow.pc = "idle" /\ NoFlow.ans = "none"
<1>1. NoFlow.pc = "idle" /\ NoFlow.ans = "none"
  BY DEF NoFlow
<1>2. NoFlow \in FlowState
  BY SidAssumption DEF NoFlow, FlowState
<1>3. QED
  BY <1>1, <1>2

LEMMA OAuthInitInv == OAuthInit => OAuthInv
<1> SUFFICES ASSUME OAuthInit PROVE OAuthInv
  OBVIOUS
<1> USE DEF OAuthInit
<1>1. StoreInv /\ CallsInv /\ issued = {}
  BY StoreInitInv, CallsInitInv DEF SessionsInit
<1>2. LoginTypes /\ StatesSound /\ OriginsSound
  BY <1>1, NoFlowSound
  DEF LoginTypes, StatesSound, OriginsSound, StateSingleUse, SessionBoundToLogin
<1>3. FlowsSound
  BY NoFlowSound DEF FlowsSound, OneOwner, Owning, FlowSound
<1>4. QED
  BY <1>1, <1>2, <1>3 DEF OAuthInv, LoginInv

(* A slot whose record does not change: no one else takes what it owns.    *)
LEMMA OtherFlow ==
  ASSUME StoreInv, now' \in Nat, now <= now', NEW g \in Flow, flow[g] \in FlowState,
         FlowSound(flow[g]), flow'[g] = flow[g], drawn \subseteq drawn',
         Owning(flow[g]) => ~HasRow(flow[g].st)' /\ ~HasSession(flow[g].st)'
  PROVE  FlowSound(flow[g])'
<1>1. flow[g].row \in Session /\ RowSound(flow[g].row) => RowSound(flow[g].row)'
  BY DEF RowSound, Session, StoreInv
<1>2. QED
  BY <1>1 DEF FlowSound, Owning

(* A step of the flow in slot f.                                           *)
LEMMA FlowMoves ==
  ASSUME StoreInv, LoginInv, NEW f \in Flow, UNCHANGED now, drawn \subseteq drawn',
         flow' = [flow EXCEPT ![f] = flow'[f]], flow'[f] \in FlowState, FlowSound(flow[f])',
         \A l \in drawn : HasRow(l)' \/ HasSession(l)' =>
           HasRow(l) \/ HasSession(l) \/ (Owning(flow[f]) /\ l = flow[f].st),
         Owning(flow'[f]) =>
           \/ Owning(flow[f]) /\ flow'[f].st = flow[f].st
           \/ \A g \in Flow : Owning(flow[g]) => flow[g].st # flow'[f].st
  PROVE  FlowsSound' /\ flow' \in [Flow -> FlowState]
<1> USE DEF LoginInv, FlowsSound
<1>1. flow' \in [Flow -> FlowState] /\ \A g \in Flow : g # f => flow'[g] = flow[g]
  BY DEF LoginTypes
<1>2. ASSUME NEW g \in Flow, g # f PROVE FlowSound(flow[g])'
  <2>1. flow[g] \in FlowState /\ FlowSound(flow[g]) /\ flow'[g] = flow[g]
    BY <1>1, <1>2 DEF LoginTypes
  <2>2. Owning(flow[g]) => ~HasRow(flow[g].st)' /\ ~HasSession(flow[g].st)'
    BY <1>2, <2>1 DEF FlowSound, OneOwner
  <2>3. QED
    BY <2>1, <2>2, OtherFlow DEF StoreInv
<1>3. OneOwner'
  BY <1>1 DEF OneOwner
<1>4. QED
  BY <1>1, <1>2, <1>3

LEMMA FlowEndsFields ==
  ASSUME LoginTypes, NEW f \in Flow,
         NEW answer \in {"url", "failed", "idp_error", "no_state", "session"},
         FlowEnds(f, answer)
  PROVE  /\ flow'[f] \in FlowState
         /\ flow' = [flow EXCEPT ![f] = flow'[f]]
         /\ flow'[f].pc = "reply" /\ flow'[f].ans = answer /\ flow'[f].st = flow[f].st
<1> DEFINE k == [NoFlow EXCEPT !.pc = "reply", !.st = flow[f].st, !.ans = answer]
<1>1. flow[f].st \in Login \cup {NoLogin} /\ flow' = [flow EXCEPT ![f] = k]
  BY DEF LoginTypes, FlowEnds, FlowState
<1>2. k \in FlowState /\ k.pc = "reply" /\ k.ans = answer /\ k.st = flow[f].st
  BY <1>1, NoFlowSound DEF FlowState
<1> HIDE DEF k
<1>3. QED
  BY <1>1, <1>2 DEF LoginTypes

(* A flow that ends without an authorization URL, or is forgotten.         *)
LEMMA FlowStops ==
  ASSUME StoreInv, LoginInv, NEW f \in Flow,
         UNCHANGED <<now, drawn, oauth_state, issued, origin>>,
         \/ \E answer \in {"failed", "idp_error", "no_state", "session"} : FlowEnds(f, answer)
         \/ flow' = [flow EXCEPT ![f] = NoFlow]
  PROVE  FlowsSound' /\ flow' \in [Flow -> FlowState]
<1>1. /\ flow'[f] \in FlowState /\ flow' = [flow EXCEPT ![f] = flow'[f]]
      /\ flow'[f].pc \in {"idle", "reply"} /\ flow'[f].ans # "url"
  BY FlowEndsFields, NoFlowSound DEF LoginInv, LoginTypes
<1>2. FlowSound(flow[f])' /\ ~Owning(flow'[f])
  BY <1>1 DEF FlowSound, Owning
<1>3. \A l : HasRow(l)' \/ HasSession(l)' => HasRow(l) \/ HasSession(l)
  BY DEF HasRow, HasSession
<1>4. QED
  BY <1>1, <1>2, <1>3, FlowMoves

(* A step of a flow that neither reads nor writes the tables.              *)
LEMMA QuietFlow ==
  ASSUME OAuthInv, UNCHANGED <<issued, oauth_state, drawn, sent, origin>>,
         FlowsSound', flow' \in [Flow -> FlowState]
  PROVE  LoginInv'
<1> USE DEF OAuthInv, LoginInv
<1>1. LoginTypes'
  BY DEF LoginTypes
<1>2. StatesSound' /\ OriginsSound'
  BY DEF StatesSound, OriginsSound, HasSession, StateSingleUse, SessionBoundToLogin
<1>3. QED
  BY <1>1, <1>2

(* The flow in slot f goes on to pc, owning what it owned.                 *)
LEMMA FlowGoesOn ==
  ASSUME OAuthInv, NEW f \in Flow,
         flow[f].pc \in {"discover", "exchange"}, NEW pc \in {"exchange", "verify"},
         flow' = [flow EXCEPT ![f].pc = pc],
         UNCHANGED <<sessionVars, oauth_state, drawn, sent, origin>>
  PROVE  LoginInv'
<1> DEFINE k == [flow[f] EXCEPT !.pc = pc]
<1> USE DEF OAuthInv, LoginInv
<1>1. flow[f] \in FlowState /\ FlowSound(flow[f]) /\ flow' = [flow EXCEPT ![f] = k]
  BY DEF LoginTypes, FlowsSound
<1>2. /\ k \in FlowState /\ k.pc = pc /\ k.st = flow[f].st /\ k.nonce = flow[f].nonce
      /\ k.ans = flow[f].ans
  BY <1>1 DEF FlowState
<1> HIDE DEF k
<1>3. flow'[f] = k
  BY <1>1 DEF LoginTypes
<1>4. \A l : (HasRow(l)' <=> HasRow(l)) /\ (HasSession(l)' <=> HasSession(l))
  BY DEF HasRow, HasSession, sessionVars
<1>5. FlowSound(flow[f])' /\ Owning(flow[f]) /\ flow'[f].st = flow[f].st
  BY <1>1, <1>2, <1>3, <1>4 DEF FlowSound, Owning
<1>6. FlowsSound' /\ flow' \in [Flow -> FlowState]
  BY <1>1, <1>2, <1>3, <1>4, <1>5, FlowMoves DEF sessionVars
<1>7. QED
  BY <1>6, QuietFlow DEF sessionVars

(* A slot starts on something it does not own.                             *)
LEMMA FlowBegins ==
  ASSUME OAuthInv, NEW f \in Flow, NEW k \in FlowState, k.pc \in {"login", "consume"},
         k.ans = "none", flow' = [flow EXCEPT ![f] = k],
         UNCHANGED <<sessionVars, oauth_state, drawn, sent, origin>>
  PROVE  LoginInv'
<1> USE DEF OAuthInv, LoginInv
<1>1. flow'[f] = k
  BY DEF LoginTypes
<1>2. \A l : (HasRow(l)' <=> HasRow(l)) /\ (HasSession(l)' <=> HasSession(l))
  BY DEF HasRow, HasSession, sessionVars
<1>3. FlowSound(flow[f])' /\ ~Owning(flow'[f])
  BY <1>1 DEF FlowSound, Owning
<1>4. FlowsSound' /\ flow' \in [Flow -> FlowState]
  BY <1>1, <1>2, <1>3, FlowMoves DEF sessionVars
<1>5. QED
  BY <1>4, QuietFlow DEF sessionVars

LEMMA LoginStartInv ==
  ASSUME OAuthInv, NEW f \in Flow, LoginStart(f)
  PROVE  LoginInv'
<1>1. PICK p \in Provider : flow' = [flow EXCEPT ![f] = [NoFlow EXCEPT !.pc = "login", !.provider = p]]
  BY DEF LoginStart
<1> DEFINE k == [NoFlow EXCEPT !.pc = "login", !.provider = p]
<1>2. k \in FlowState /\ k.pc = "login" /\ k.ans = "none"
  BY NoFlowSound DEF FlowState
<1> HIDE DEF k
<1>3. flow' = [flow EXCEPT ![f] = k]
  BY <1>1 DEF k
<1>4. QED
  BY <1>2, <1>3, FlowBegins DEF LoginStart

LEMMA CallbackInv ==
  ASSUME OAuthInv, NEW f \in Flow, Callback(f)
  PROVE  LoginInv'
<1>1. CASE FlowEnds(f, "idp_error")
  BY <1>1, FlowStops, QuietFlow DEF Callback, OAuthInv, sessionVars
<1>2. CASE \E p \in Provider, l, c \in sent :
             flow' = [flow EXCEPT ![f] =
               [NoFlow EXCEPT !.pc = "consume", !.provider = p, !.st = l, !.code = c]]
  <2>1. PICK p \in Provider, l \in sent, c \in sent :
          flow' = [flow EXCEPT ![f] =
            [NoFlow EXCEPT !.pc = "consume", !.provider = p, !.st = l, !.code = c]]
    BY <1>2
  <2> DEFINE k == [NoFlow EXCEPT !.pc = "consume", !.provider = p, !.st = l, !.code = c]
  <2>2. l \in Login /\ c \in Login
    BY DEF OAuthInv, LoginInv, LoginTypes
  <2>3. k \in FlowState /\ k.pc = "consume" /\ k.ans = "none"
    BY <2>2, NoFlowSound DEF FlowState
  <2> HIDE DEF k
  <2>4. flow' = [flow EXCEPT ![f] = k]
    BY <2>1 DEF k
  <2>5. QED
    BY <2>3, <2>4, FlowBegins DEF Callback
<1>3. QED
  BY <1>1, <1>2 DEF Callback

(* The draw: a state nobody has drawn is owned by nobody.                  *)
LEMMA LoginDiscoveryInv ==
  ASSUME OAuthInv, NEW f \in Flow, LoginDiscovery(f)
  PROVE  LoginInv'
<1> USE DEF OAuthInv, LoginInv
<1>1. CASE FlowEnds(f, "failed") /\ UNCHANGED drawn
  BY <1>1, FlowStops, QuietFlow DEF LoginDiscovery, sessionVars
<1>2. ASSUME NEW l \in Login \ drawn, drawn' = drawn \cup {l},
             flow' = [flow EXCEPT ![f].pc = "insert", ![f].st = l]
      PROVE  LoginInv'
  <2> DEFINE k == [flow[f] EXCEPT !.pc = "insert", !.st = l]
  <2>1. flow[f] \in FlowState /\ flow' = [flow EXCEPT ![f] = k]
    BY <1>2 DEF LoginTypes
  <2>2. k \in FlowState /\ k.pc = "insert" /\ k.st = l
    BY <2>1 DEF FlowState
  <2> HIDE DEF k
  <2>3. flow'[f] = k /\ UNCHANGED <<now, issued, oauth_state, sent, origin>>
    BY <2>1 DEF LoginTypes, LoginDiscovery, sessionVars
  <2>4. \A m : (HasRow(m)' <=> HasRow(m)) /\ (HasSession(m)' <=> HasSession(m))
    BY <2>3 DEF HasRow, HasSession
  <2>5. ~HasRow(l) /\ ~HasSession(l) /\ \A g \in Flow : Owning(flow[g]) => flow[g].st # l
    BY DEF StatesSound, OriginsSound, FlowsSound, FlowSound, HasRow, HasSession
  <2>6. FlowSound(flow[f])'
    BY <1>2, <2>2, <2>3, <2>4, <2>5 DEF FlowSound, Owning
  <2>7. FlowsSound' /\ flow' \in [Flow -> FlowState]
    BY <1>2, <2>1, <2>2, <2>3, <2>4, <2>5, <2>6, FlowMoves
  <2>8. LoginTypes'
    BY <1>2, <2>3, <2>7 DEF LoginTypes
  <2>9. StatesSound' /\ OriginsSound'
    BY <1>2, <2>3 DEF StatesSound, OriginsSound, HasSession, StateSingleUse, SessionBoundToLogin
  <2>10. QED
    BY <2>7, <2>8, <2>9
<1>3. QED
  BY <1>1, <1>2 DEF LoginDiscovery

(* The INSERT hands the state from the login to its row.                   *)
LEMMA LoginInsertInv ==
  ASSUME OAuthInv, NEW f \in Flow, LoginInsert(f)
  PROVE  LoginInv'
<1> DEFINE new == [state |-> flow[f].st, provider_id |-> flow[f].provider, created_at |-> now]
<1> USE DEF OAuthInv, LoginInv
<1>1. /\ oauth_state' = oauth_state \cup {new}
      /\ UNCHANGED <<now, issued, drawn, sent, origin>>
      /\ FlowEnds(f, "url") \/ FlowEnds(f, "failed")
  BY DEF LoginInsert, sessionVars
<1>2. new.state = flow[f].st /\ new.created_at \in Nat
  BY DEF StoreInv
<1> HIDE DEF new
<1>3. /\ Owning(flow[f]) /\ flow[f].st \in drawn /\ ~HasRow(flow[f].st) /\ ~HasSession(flow[f].st)
  BY DEF LoginInsert, Owning, FlowsSound, FlowSound
<1>4. /\ flow'[f] \in FlowState /\ flow' = [flow EXCEPT ![f] = flow'[f]]
      /\ flow'[f].pc = "reply" /\ flow'[f].st = flow[f].st
  BY <1>1, FlowEndsFields
<1>5. FlowSound(flow[f])' /\ ~Owning(flow'[f])
  BY <1>1, <1>3, <1>4 DEF FlowSound, Owning
<1>6. \A l : /\ HasRow(l)' => HasRow(l) \/ l = flow[f].st
             /\ HasSession(l)' <=> HasSession(l)
  BY <1>1, <1>2 DEF HasRow, HasSession
<1>7. FlowsSound' /\ flow' \in [Flow -> FlowState]
  BY <1>1, <1>3, <1>4, <1>5, <1>6, FlowMoves
<1>8. LoginTypes' /\ OriginsSound'
  BY <1>1, <1>7 DEF LoginTypes, OriginsSound, StateSingleUse, SessionBoundToLogin
<1>9. StatesSound'
  BY <1>1, <1>2, <1>3, <1>6 DEF StatesSound, HasRow
<1>10. QED
  BY <1>7, <1>8, <1>9

(* DELETE ... RETURNING hands it from the row to one callback.             *)
LEMMA ConsumeInv ==
  ASSUME OAuthInv, NEW f \in Flow, Consume(f)
  PROVE  LoginInv'
<1> USE DEF OAuthInv, LoginInv
<1>1. CASE FlowEnds(f, "no_state") /\ UNCHANGED oauth_state
  BY <1>1, FlowStops, QuietFlow DEF Consume, sessionVars
<1>2. ASSUME NEW row \in oauth_state, Consumable(row, f), oauth_state' = oauth_state \ {row},
             flow' = [flow EXCEPT ![f].pc = "discover", ![f].nonce = row.state]
      PROVE  LoginInv'
  <2> DEFINE k == [flow[f] EXCEPT !.pc = "discover", !.nonce = row.state]
  <2>1. flow[f] \in FlowState /\ flow' = [flow EXCEPT ![f] = k] /\ FlowSound(flow[f])
    BY <1>2 DEF LoginTypes, FlowsSound
  <2>2. row.state \in drawn /\ row.state \in Login /\ row.state = flow[f].st /\ ~HasSession(row.state)
    BY <1>2 DEF StatesSound, LoginTypes, Consumable
  <2>3. /\ k \in FlowState /\ k.pc = "discover" /\ k.nonce = row.state /\ k.st = flow[f].st
        /\ k.ans = flow[f].ans
    BY <2>1, <2>2 DEF FlowState
  <2> HIDE DEF k
  <2>4. flow'[f] = k /\ UNCHANGED <<now, issued, drawn, sent, origin>>
    BY <2>1 DEF LoginTypes, Consume, sessionVars
  <2>5. \A l : (HasRow(l)' => HasRow(l)) /\ (HasSession(l)' <=> HasSession(l))
    BY <1>2, <2>4 DEF HasRow, HasSession
  <2>6. ~HasRow(row.state)' /\ HasRow(row.state)
    BY <1>2 DEF HasRow, StatesSound
  <2>7. FlowSound(flow[f])'
    BY <2>1, <2>2, <2>3, <2>4, <2>5, <2>6 DEF FlowSound, Owning
  <2>8. \A g \in Flow : Owning(flow[g]) => flow[g].st # flow'[f].st
    BY <2>2, <2>3, <2>4, <2>6 DEF FlowsSound, FlowSound
  <2>9. FlowsSound' /\ flow' \in [Flow -> FlowState]
    BY <2>1, <2>3, <2>4, <2>5, <2>7, <2>8, FlowMoves
  <2>10. LoginTypes' /\ OriginsSound'
    BY <2>4, <2>9 DEF LoginTypes, OriginsSound, StateSingleUse, SessionBoundToLogin
  <2>11. StatesSound'
    BY <1>2, <2>4, <2>5 DEF StatesSound
  <2>12. QED
    BY <2>9, <2>10, <2>11
<1>3. QED
  BY <1>1, <1>2 DEF Consume

(* min(expires_in, TTL), but at least a second.                            *)
LEMMA EffectiveBounds ==
  ASSUME NEW candidate \in Nat
  PROVE  Effective(candidate) \in 1 .. MaxLifetime
  BY TtlAssumption DEF Effective, MaxLifetime

LEMMA NewSessionSound ==
  ASSUME StoreInv, NEW effective \in 1 .. MaxLifetime, NEW t \in 0 .. now
  PROVE  NewSession(t, effective) \in Session /\ RowSound(NewSession(t, effective))
  BY TtlAssumption DEF StoreInv, NewSession, Session, RowSound, MaxLifetime

LEMMA VerifyIdTokenInv ==
  ASSUME OAuthInv, NEW f \in Flow, VerifyIdToken(f)
  PROVE  LoginInv'
<1> USE DEF OAuthInv, LoginInv
<1>1. CASE FlowEnds(f, "failed")
  BY <1>1, FlowStops, QuietFlow DEF VerifyIdToken, sessionVars
<1>2. ASSUME NEW candidate \in ExpiresIn \cup {Ttl}, NEW s \in Sid,
             flow[f].code = flow[f].nonce,
             flow' = [flow EXCEPT ![f].pc = "create", ![f].sid = s,
                        ![f].row = NewSession(now, Effective(candidate))]
      PROVE  LoginInv'
  <2> DEFINE new == NewSession(now, Effective(candidate))
             k == [flow[f] EXCEPT !.pc = "create", !.sid = s, !.row = new]
  <2>1. flow[f] \in FlowState /\ flow' = [flow EXCEPT ![f] = k] /\ FlowSound(flow[f])
    BY <1>2 DEF LoginTypes, FlowsSound
  <2>2. new \in Session /\ RowSound(new)
    <3>1. candidate \in Nat
      BY ExpiresInAssumption, TtlAssumption
    <3>2. QED
      BY <3>1, EffectiveBounds, NewSessionSound DEF StoreInv
  <2> HIDE DEF new
  <2>3. /\ k \in FlowState /\ k.pc = "create" /\ k.row = new /\ k.st = flow[f].st
        /\ k.nonce = flow[f].nonce /\ k.code = flow[f].code /\ k.ans = flow[f].ans
    BY <2>1, <2>2 DEF FlowState
  <2> HIDE DEF k
  <2>4. flow'[f] = k /\ UNCHANGED <<now, issued, oauth_state, drawn, sent, origin>>
    BY <2>1 DEF LoginTypes, VerifyIdToken, sessionVars
  <2>5. \A l : (HasRow(l)' <=> HasRow(l)) /\ (HasSession(l)' <=> HasSession(l))
    BY <2>4 DEF HasRow, HasSession
  <2>6. FlowSound(flow[f])' /\ Owning(flow[f])
    BY <1>2, <2>1, <2>2, <2>3, <2>4, <2>5 DEF FlowSound, Owning, VerifyIdToken, RowSound
  <2>7. FlowsSound' /\ flow' \in [Flow -> FlowState]
    BY <2>1, <2>3, <2>4, <2>5, <2>6, FlowMoves
  <2>8. QED
    BY <2>4, <2>7, QuietFlow
<1>3. QED
  BY <1>1, <1>2 DEF VerifyIdToken

(* ... and the callback hands it to its session, once.                     *)
LEMMA CreateSessionInv ==
  ASSUME OAuthInv, NEW f \in Flow, CreateSession(f)
  PROVE  LoginInv'
<1> DEFINE s == flow[f].sid
           from == [login |-> flow[f].st, user |-> flow[f].code]
<1> USE DEF OAuthInv, LoginInv
<1>1. /\ s \notin issued /\ issued' = issued \cup {s}
      /\ origin' = [origin EXCEPT ![s] = from]
      /\ UNCHANGED <<now, oauth_state, drawn, sent>> /\ FlowEnds(f, "session")
  BY DEF CreateSession, Create
<1>2. /\ s \in Sid /\ flow[f].st \in Login \cup {NoLogin} /\ flow[f].code \in Login \cup {NoLogin}
      /\ Owning(flow[f]) /\ flow[f].st \in drawn /\ ~HasRow(flow[f].st) /\ ~HasSession(flow[f].st)
      /\ flow[f].code = flow[f].st
  BY DEF LoginTypes, FlowState, CreateSession, FlowsSound, FlowSound, Owning
<1>3. /\ from \in [login : Login \cup {NoLogin}, user : Login \cup {NoLogin}]
      /\ from.login = flow[f].st /\ from.user = from.login
  BY <1>2
<1> HIDE DEF s, from
<1>4. origin'[s] = from /\ \A t \in issued : origin'[t] = origin[t]
  BY <1>1, <1>2 DEF LoginTypes, StoreInv
<1>5. \A l : /\ HasRow(l)' <=> HasRow(l)
             /\ HasSession(l)' => HasSession(l) \/ l = flow[f].st
  BY <1>1, <1>3, <1>4 DEF HasRow, HasSession
<1>6. /\ flow'[f] \in FlowState /\ flow' = [flow EXCEPT ![f] = flow'[f]]
      /\ flow'[f].pc = "reply" /\ flow'[f].ans = "session"
  BY <1>1, FlowEndsFields
<1>7. FlowSound(flow[f])' /\ ~Owning(flow'[f])
  BY <1>6 DEF FlowSound, Owning
<1>8. FlowsSound' /\ flow' \in [Flow -> FlowState]
  BY <1>1, <1>2, <1>5, <1>6, <1>7, FlowMoves
<1>9. LoginTypes'
  BY <1>1, <1>3, <1>8 DEF LoginTypes
<1>10. OriginsSound'
  BY <1>1, <1>2, <1>3, <1>4 DEF OriginsSound, StateSingleUse, SessionBoundToLogin, HasSession
<1>11. StatesSound'
  BY <1>1, <1>2, <1>5 DEF StatesSound, HasRow
<1>12. QED
  BY <1>8, <1>9, <1>10, <1>11

LEMMA FlowReplyInv ==
  ASSUME OAuthInv, NEW f \in Flow, FlowReply(f)
  PROVE  LoginInv'
<1> USE DEF OAuthInv, LoginInv
<1>1. FlowsSound' /\ flow' \in [Flow -> FlowState]
  BY FlowStops DEF FlowReply, sessionVars
<1>2. LoginTypes'
  BY <1>1 DEF LoginTypes, FlowReply, FlowsSound, FlowSound
<1>3. StatesSound' /\ OriginsSound'
  BY DEF FlowReply, sessionVars, StatesSound, OriginsSound, HasSession,
         StateSingleUse, SessionBoundToLogin
<1>4. QED
  BY <1>1, <1>2, <1>3

(* The steps that are not the flow's: sweeps, the clock, session requests. *)
LEMMA FlowsRest ==
  ASSUME OAuthInv, StoreStep, oauth_state' \subseteq oauth_state,
         UNCHANGED <<issued, drawn, flow, sent, origin>>
  PROVE  LoginInv'
<1> USE DEF OAuthInv, LoginInv
<1>1. \A l : (HasRow(l)' => HasRow(l)) /\ (HasSession(l)' <=> HasSession(l))
  BY DEF HasRow, HasSession
<1>2. now' \in Nat /\ now <= now'
  BY DEF StoreStep, StoreInv
<1>3. ASSUME NEW g \in Flow PROVE FlowSound(flow[g])'
  <2>1. flow[g] \in FlowState /\ FlowSound(flow[g]) /\ flow'[g] = flow[g]
    BY DEF LoginTypes, FlowsSound
  <2>2. Owning(flow[g]) => ~HasRow(flow[g].st)' /\ ~HasSession(flow[g].st)'
    BY <1>1, <2>1 DEF FlowSound
  <2>3. QED
    BY <1>2, <2>1, <2>2, OtherFlow
<1>4. FlowsSound'
  BY <1>3 DEF FlowsSound, OneOwner
<1>5. LoginTypes' /\ OriginsSound'
  BY DEF LoginTypes, OriginsSound, StateSingleUse, SessionBoundToLogin
<1>6. StatesSound'
  BY <1>1 DEF StatesSound
<1>7. QED
  BY <1>4, <1>5, <1>6

LEMMA CreateSessionStep ==
  ASSUME OAuthInv, NEW f \in Flow, CreateSession(f)
  PROVE  SessionStep
<1> DEFINE s == flow[f].sid
           row == flow[f].row
<1>1. s \in Sid /\ row \in Session /\ RowSound(row)
  BY DEF OAuthInv, LoginInv, LoginTypes, FlowState, CreateSession, FlowsSound, FlowSound
<1>2. Create(s, row) /\ UNCHANGED <<now, call, ended, loggedOut>>
  BY DEF CreateSession
<1> HIDE DEF s, row
<1>3. StoreStep
  BY <1>1, <1>2, CreateStore DEF OAuthInv
<1>4. LiveStep
  BY <1>1, <1>2, NoRowAssumption DEF LiveStep, Create, Stored, Alive, OAuthInv, StoreInv
<1>5. QED
  BY <1>2, <1>3, <1>4, CallsRest DEF SessionStep, OAuthInv

(* Every step of the specification.                                        *)
LEMMA OAuthStep ==
  ASSUME OAuthInv, [OAuthNext]_oauthVars
  PROVE  OAuthInv' /\ SessionStep
<1> DEFINE Goal == LoginInv' /\ SessionStep
<1> SUFFICES Goal
  BY DEF SessionStep, StoreStep, OAuthInv
<1>1. ASSUME UNCHANGED sessionVars PROVE SessionStep
  <2>1. now' \in Nat /\ now <= now' /\ UNCHANGED <<session, issued, ended, loggedOut, call>>
    BY <1>1 DEF sessionVars, OAuthInv, StoreInv
  <2>2. StoreStep
    BY <2>1, QuietStore DEF OAuthInv
  <2>3. QED
    BY <2>1, <2>2, CallsRest, QuietSession DEF OAuthInv
<1>2. CASE \/ UNCHANGED oauthVars
           \/ SweeperTick \/ SweepSessionsFails \/ SweepStatesFails
  <2>1. UNCHANGED sessionVars /\ UNCHANGED loginVars
    BY <1>2 DEF oauthVars, SweeperTick, SweepSessionsFails, SweepStatesFails
  <2>2. SessionStep /\ UNCHANGED <<issued, oauth_state, drawn, flow, sent, origin>>
    BY <1>1, <2>1 DEF loginVars, sessionVars
  <2>3. QED
    BY <2>2, FlowsRest DEF SessionStep
<1>3. CASE ClockTick /\ UNCHANGED loginVars
  BY <1>3, ClockTickSession, FlowsRest DEF OAuthInv, SessionStep, loginVars, ClockTick
<1>4. CASE SweepSessions
  BY <1>4, PgSweepSession, FlowsRest
     DEF SweepSessions, OAuthInv, SessionStep, loginVars, PgSweep
<1>5. CASE SweepStates
  <2>1. /\ UNCHANGED sessionVars /\ oauth_state' \subseteq oauth_state
        /\ UNCHANGED <<issued, drawn, flow, sent, origin>>
    BY <1>5 DEF SweepStates, sessionVars
  <2>2. QED
    BY <1>1, <2>1, FlowsRest DEF SessionStep
<1>6. ASSUME NEW c \in Caller, PgCall(c), UNCHANGED loginVars PROVE Goal
  <2>1. SessionStep
    BY <1>6, PgCallSession DEF OAuthInv
  <2>2. UNCHANGED issued
    BY <1>6 DEF PgCall, CallArrive, NoSessionId, SessionValidate, Logout, Arrives, PgGet,
                PgTouch, RevokeSession, SessionReply, CallAbandon
  <2>3. QED
    BY <1>6, <2>1, <2>2, FlowsRest DEF SessionStep, loginVars
<1>7. ASSUME NEW f \in Flow, FlowStep(f) PROVE Goal
  <2>1. CASE LoginRefused(f) \/ FlowAbandon(f)
    BY <1>1, <2>1, FlowStops, QuietFlow DEF LoginRefused, FlowAbandon, OAuthInv, sessionVars
  <2>2. CASE LoginStart(f)
    BY <1>1, <2>2, LoginStartInv DEF LoginStart
  <2>3. CASE LoginDiscovery(f)
    BY <1>1, <2>3, LoginDiscoveryInv DEF LoginDiscovery
  <2>4. CASE LoginInsert(f)
    BY <1>1, <2>4, LoginInsertInv DEF LoginInsert
  <2>5. CASE Callback(f)
    BY <1>1, <2>5, CallbackInv DEF Callback
  <2>6. CASE Consume(f)
    BY <1>1, <2>6, ConsumeInv DEF Consume
  <2>7. CASE CallbackDiscovery(f)
    <3>1. CASE FlowEnds(f, "failed")
      BY <1>1, <2>7, <3>1, FlowStops, QuietFlow DEF CallbackDiscovery, OAuthInv, sessionVars
    <3>2. CASE flow' = [flow EXCEPT ![f].pc = "exchange"]
      BY <1>1, <2>7, <3>2, FlowGoesOn DEF CallbackDiscovery
    <3>3. QED
      BY <2>7, <3>1, <3>2 DEF CallbackDiscovery
  <2>8. CASE TokenExchange(f)
    <3>1. CASE FlowEnds(f, "failed")
      BY <1>1, <2>8, <3>1, FlowStops, QuietFlow DEF TokenExchange, OAuthInv, sessionVars
    <3>2. CASE flow' = [flow EXCEPT ![f].pc = "verify"]
      BY <1>1, <2>8, <3>2, FlowGoesOn DEF TokenExchange
    <3>3. QED
      BY <2>8, <3>1, <3>2 DEF TokenExchange
  <2>9. CASE VerifyIdToken(f)
    BY <1>1, <2>9, VerifyIdTokenInv DEF VerifyIdToken
  <2>10. CASE CreateSession(f)
    BY <2>10, CreateSessionInv, CreateSessionStep
  <2>11. CASE FlowReply(f)
    BY <1>1, <2>11, FlowReplyInv DEF FlowReply
  <2>12. QED
    BY <1>7, <2>1, <2>2, <2>3, <2>4, <2>5, <2>6, <2>7, <2>8, <2>9, <2>10, <2>11 DEF FlowStep
<1>8. QED
  BY <1>2, <1>3, <1>4, <1>5, <1>6, <1>7 DEF OAuthNext, Sweeper

LEMMA OAuthInvariant == OAuthSpec => []OAuthInv
  BY OAuthInitInv, OAuthStep, PTL DEF OAuthSpec

(* However many callbacks present a login's state, and however they        *)
(* interleave with sweeps and other logins, it ends in at most one session *)
(* (the DELETE ... RETURNING of flow.rs 174-193).                          *)
THEOREM LoginsUsedOnce == OAuthSpec => []StateSingleUse
<1>1. OAuthInv => StateSingleUse
  BY DEF OAuthInv, LoginInv, OriginsSound
<1>2. QED
  BY <1>1, OAuthInvariant, PTL

(* Every session belongs to the user who authenticated for the login its   *)
(* callback's state names, also when codes and states are mixed up (the    *)
(* nonce check of idtoken.rs 180-186).                                     *)
THEOREM SessionsBound == OAuthSpec => []SessionBoundToLogin
<1>1. OAuthInv => SessionBoundToLogin
  BY DEF OAuthInv, LoginInv, OriginsSound
<1>2. QED
  BY <1>1, OAuthInvariant, PTL

(* The sweeper only removes states no callback could still consume.        *)
THEOREM SweeperSparesLogins == OAuthSpec => SweepSparesConsumable
<1> DEFINE Spared ==
      \A row \in oauth_state \ oauth_state' :
        \/ \E f \in Flow : flow[f].pc = "consume" /\ flow'[f].nonce = row.state
        \/ row.created_at + StateMaxAge <= now
<1>1. ASSUME OAuthInv, OAuthNext PROVE Spared
  <2> SUFFICES ASSUME NEW row \in oauth_state, row \notin oauth_state'
               PROVE  \/ \E f \in Flow : flow[f].pc = "consume" /\ flow'[f].nonce = row.state
                      \/ row.created_at + StateMaxAge <= now
    OBVIOUS
  <2>1. CASE SweepStates
    <3>1. now \in Nat /\ row.created_at \in Nat
      BY <1>1 DEF OAuthInv, StoreInv, LoginInv, StatesSound
    <3>2. StateMaxAge \in Nat
      BY StateMaxAgeAssumption
    <3>3. row.created_at + StateMaxAge < now
      BY <2>1, <3>1, <3>2 DEF SweepStates
    <3>4. QED
      BY <3>1, <3>2, <3>3
  <2>2. ASSUME NEW f \in Flow, Consume(f)
        PROVE  flow[f].pc = "consume" /\ flow'[f].nonce = row.state
    <3>1. PICK old \in oauth_state :
            /\ oauth_state' = oauth_state \ {old}
            /\ flow' = [flow EXCEPT ![f].pc = "discover", ![f].nonce = old.state]
      BY <2>2 DEF Consume
    <3>2. old = row /\ flow[f] \in FlowState
      BY <1>1, <3>1 DEF OAuthInv, LoginInv, LoginTypes
    <3> DEFINE k == [flow[f] EXCEPT !.pc = "discover", !.nonce = old.state]
    <3>3. k.nonce = old.state
      BY <3>2 DEF FlowState
    <3>4. flow'[f] = k
      BY <1>1, <3>1 DEF OAuthInv, LoginInv, LoginTypes
    <3>5. QED
      BY <2>2, <3>2, <3>3, <3>4 DEF Consume
  <2>3. CASE UNCHANGED loginVars
    BY <2>3 DEF loginVars
  <2>4. ASSUME NEW f \in Flow, FlowStep(f), ~Consume(f) PROVE FALSE
    BY <2>4 DEF FlowStep, LoginRefused, LoginStart, LoginDiscovery, LoginInsert, Callback,
                CallbackDiscovery, TokenExchange, VerifyIdToken, CreateSession, FlowReply,
                FlowAbandon
  <2>5. QED
    BY <1>1, <2>1, <2>2, <2>3, <2>4
       DEF OAuthNext, Sweeper, SweeperTick, SweepSessions, SweepSessionsFails, SweepStatesFails
<1>2. QED
  BY <1>1, OAuthInvariant, PTL DEF OAuthSpec, SweepSparesConsumable

(* A request that arrives after its session was logged out, swept or has   *)
(* expired is never told that it is valid, over PostgresStore.             *)
THEOREM PgEndedNotServed == OAuthSpec => []EndedNotServed
<1>1. CallsInv => EndedNotServed
  BY DEF CallsInv, CallSound, CallState, EndedNotServed
<1>2. QED
  BY <1>1, OAuthInvariant, PTL DEF OAuthInv

(* Of the logouts racing for a session at most one is acknowledged, and    *)
(* the session is gone then.                                               *)
THEOREM PgLogoutOnce == OAuthSpec => []LogoutOnce
<1>1. StoreInv => LogoutOnce
  BY DEF StoreInv, LogoutsSound, IdsSound, LogoutOnce
<1>2. QED
  BY <1>1, OAuthInvariant, PTL DEF OAuthInv

(* No step moves a session's expiry, and every session lives between a     *)
(* second and the configured TTL.                                          *)
THEOREM PgLifetimeAbsolute == OAuthSpec => LifetimeAbsolute
<1>1. ASSUME OAuthInv, [OAuthNext]_oauthVars PROVE LifetimeStep
  BY <1>1, OAuthStep DEF SessionStep, StoreStep
<1>2. QED
  BY <1>1, OAuthInvariant, PTL DEF OAuthSpec, LifetimeAbsolute, LifetimeStep

(* A session that has not expired only disappears with its logout.         *)
THEOREM PgLiveOnlyLoggedOut == OAuthSpec => LiveOnlyLoggedOut
<1>1. ASSUME OAuthInv, [OAuthNext]_oauthVars PROVE LiveStep
  BY <1>1, OAuthStep DEF SessionStep
<1>2. QED
  BY <1>1, OAuthInvariant, PTL DEF OAuthSpec, LiveOnlyLoggedOut, LiveStep

(* The store starts as the ledger does.                                    *)
LEMMA LedgerInit == SessionsInit => SessionLog!SessionLedgerInit
  BY DEF SessionsInit, SessionLog!SessionLedgerInit, Stored

(* PostgresStore under the login flow implements the session ledger: a     *)
(* removed session never comes back.                                       *)
THEOREM PgImplementsLedger == OAuthSpec => ImplementsSessionLedger
<1>1. OAuthInit => SessionLog!SessionLedgerInit
  BY LedgerInit DEF OAuthInit
<1>2. ASSUME OAuthInv, [OAuthNext]_oauthVars PROVE [SessionLog!SessionLedgerNext]_(SessionLog!sessionLedgerVars)
  BY <1>2, OAuthStep DEF SessionStep, StoreStep
<1>3. QED
  BY <1>1, <1>2, OAuthInvariant, PTL
  DEF OAuthSpec, ImplementsSessionLedger, SessionLog!SessionLedgerSpec

-----------------------------------------------------------------------------
(* MemoryStore.  What get and sweep_expired decided to remove under one    *)
(* lock is still dead when they remove it under the next.                  *)
SweepSound ==
  /\ sweeper \in SweeperState
  /\ sweeper.t0 <= now
  /\ \A s \in sweeper.found : Dead(s, sweeper.t0)

MemoryInv == StoreInv /\ CallsInv /\ SweepSound

LEMMA MemoryInitInv == MemoryInit => MemoryInv
<1> SUFFICES ASSUME MemoryInit PROVE MemoryInv
  OBVIOUS
<1>1. StoreInv /\ CallsInv
  BY StoreInitInv, CallsInitInv DEF MemoryInit
<1>2. SweepSound
  BY <1>1 DEF MemoryInit, Asleep, SweepSound, SweeperState, StoreInv
<1>3. QED
  BY <1>1, <1>2 DEF MemoryInv

(* A session found dead is never alive at a later clock.                   *)
LEMMA DeadNotAlive ==
  ASSUME StoreInv, NEW s \in Sid, NEW t \in Nat, t <= now, Dead(s, t)
  PROVE  ~Alive(s)
  BY DEF StoreInv, Dead, Alive, Expired, Stored, Session

(* The sweeper's finds survive the steps of others.                        *)
LEMMA SweeperRests ==
  ASSUME MemoryInv, StoreStep, UNCHANGED sweeper
  PROVE  SweepSound'
<1>1. now \in Nat /\ now' \in Nat /\ now <= now' /\ DeadStay
  BY DEF MemoryInv, StoreStep, StoreInv
<1>2. sweeper.t0 \in Nat /\ sweeper.found \subseteq Sid /\ sweeper.t0 <= now
  BY DEF MemoryInv, SweepSound, SweeperState
<1>3. \A s \in sweeper.found : Dead(s, sweeper.t0)'
  BY <1>1, <1>2 DEF MemoryInv, SweepSound, DeadStay, Dead, Stored, Expired
<1>4. QED
  BY <1>1, <1>2, <1>3 DEF MemoryInv, SweepSound

(* The sweeper moves on while the sessions rest.                           *)
LEMMA SweeperMoves ==
  ASSUME MemoryInv, UNCHANGED sessionVars, SweepSound'
  PROVE  MemoryInv' /\ SessionStep
<1>1. UNCHANGED <<now, session, issued, call, ended, loggedOut>> /\ now' \in Nat /\ now <= now'
  BY DEF sessionVars, MemoryInv, StoreInv
<1>2. StoreStep
  BY <1>1, QuietStore DEF MemoryInv
<1>3. CallsInv'
  BY <1>1, <1>2, CallsRest DEF MemoryInv
<1>4. SessionStep
  BY <1>1, <1>3, QuietSession DEF MemoryInv
<1>5. QED
  BY <1>2, <1>3, <1>4 DEF MemoryInv, StoreStep

LEMMA SweepStartInv ==
  ASSUME MemoryInv, SweepStart
  PROVE  MemoryInv' /\ SessionStep
<1> DEFINE k == [Asleep EXCEPT !.pc = "collect", !.t0 = now, !.todo = Sid]
<1>1. sweeper' = k /\ UNCHANGED sessionVars /\ now \in Nat
  BY DEF SweepStart, MemoryInv, StoreInv
<1>2. k \in SweeperState /\ k.t0 = now /\ k.found = {}
  BY <1>1 DEF Asleep, SweeperState
<1> HIDE DEF k
<1>3. SweepSound'
  BY <1>1, <1>2 DEF SweepSound, sessionVars
<1>4. QED
  BY <1>1, <1>3, SweeperMoves

LEMMA SweepVisitInv ==
  ASSUME MemoryInv, NEW s \in Sid, SweepVisit(s)
  PROVE  MemoryInv' /\ SessionStep
<1> DEFINE finds == IF Stored(s) /\ Expired(s, sweeper.t0) THEN sweeper.found \cup {s}
                    ELSE sweeper.found
           k == [sweeper EXCEPT !.todo = @ \ {s}, !.found = finds]
<1>1. /\ sweeper' = k /\ UNCHANGED sessionVars /\ sweeper \in SweeperState
      /\ UNCHANGED <<now, issued, session>>
  BY DEF SweepVisit, MemoryInv, SweepSound, sessionVars
<1>2. finds \subseteq Sid /\ \A r \in finds : Dead(r, sweeper.t0)
  BY <1>1 DEF MemoryInv, SweepSound, SweeperState, Dead, StoreInv, IdsSound
<1> HIDE DEF finds
<1>3. k \in SweeperState /\ k.t0 = sweeper.t0 /\ k.found = finds
  BY <1>1, <1>2 DEF SweeperState
<1> HIDE DEF k
<1>4. SweepSound'
  BY <1>1, <1>2, <1>3 DEF MemoryInv, SweepSound, Dead, Stored, Expired
<1>5. QED
  BY <1>1, <1>4, SweeperMoves

LEMMA SweepCollectedInv ==
  ASSUME MemoryInv, SweepCollected
  PROVE  MemoryInv' /\ SessionStep
<1> DEFINE k == [sweeper EXCEPT !.pc = "remove"]
<1>1. /\ sweeper' = k /\ UNCHANGED sessionVars /\ sweeper \in SweeperState
      /\ UNCHANGED <<now, issued, session>>
  BY DEF SweepCollected, MemoryInv, SweepSound, sessionVars
<1>2. k \in SweeperState /\ k.t0 = sweeper.t0 /\ k.found = sweeper.found
  BY <1>1 DEF SweeperState
<1> HIDE DEF k
<1>3. SweepSound'
  BY <1>1, <1>2 DEF MemoryInv, SweepSound, Dead, Stored, Expired
<1>4. QED
  BY <1>1, <1>3, SweeperMoves

LEMMA SweepDoneInv ==
  ASSUME MemoryInv, SweepDone
  PROVE  MemoryInv' /\ SessionStep
<1>1. UNCHANGED sessionVars
  BY DEF SweepDone
<1>2. SweepSound'
  BY <1>1 DEF SweepDone, sessionVars, SweepSound, SweeperState, Asleep, MemoryInv, StoreInv
<1>3. QED
  BY <1>1, <1>2, SweeperMoves

LEMMA SweepRemoveInv ==
  ASSUME MemoryInv, NEW s \in Sid, SweepRemove(s)
  PROVE  MemoryInv' /\ SessionStep
<1> DEFINE k == [sweeper EXCEPT !.found = @ \ {s}]
<1>1. /\ sweeper' = k /\ Remove({s}) /\ UNCHANGED <<now, issued, call, loggedOut>>
      /\ s \in sweeper.found /\ sweeper \in SweeperState
  BY DEF SweepRemove, MemoryInv, SweepSound
<1>2. k \in SweeperState /\ k.t0 = sweeper.t0 /\ k.found = sweeper.found \ {s}
  BY <1>1 DEF SweeperState
<1> HIDE DEF k
<1>3. sweeper.t0 \in Nat /\ sweeper.t0 <= now /\ sweeper.found \subseteq Sid
  BY <1>1 DEF MemoryInv, SweepSound, SweeperState
<1>4. StoreStep
  BY <1>1, RemoveStore DEF MemoryInv
<1>5. ~Alive(s)
  BY <1>1, <1>3, DeadNotAlive DEF MemoryInv, SweepSound
<1>6. LiveStep
  BY <1>1, <1>5, RemoveLive DEF MemoryInv
<1>7. SweepSound'
  <2>1. \A r \in sweeper.found : Dead(r, sweeper.t0)
    BY DEF MemoryInv, SweepSound
  <2>2. \A r \in sweeper'.found : Dead(r, sweeper.t0)'
    BY <1>1, <1>2, <1>3, <1>4, <2>1 DEF StoreStep, DeadStay, Dead, Stored, Expired
  <2>3. QED
    BY <1>1, <1>2, <1>3, <2>2 DEF SweepSound
<1>8. QED
  BY <1>1, <1>4, <1>6, <1>7, CallsRest DEF SessionStep, MemoryInv, StoreStep

(* get: the clock, the read under one lock, the removal under another.     *)
LEMMA GetClockSession ==
  ASSUME StoreInv, CallsInv, NEW c \in Caller, GetClock(c)
  PROVE  SessionStep
<1> DEFINE k == [call[c] EXCEPT !.pc = "read", !.t0 = now]
<1>1. StoreStep
  BY QuietStore DEF GetClock, StoreInv
<1>2. /\ call[c] \in CallState /\ CallSound(call[c]) /\ call' = [call EXCEPT ![c] = k]
      /\ UNCHANGED <<now, session, issued>> /\ now \in Nat
  BY DEF CallsInv, GetClock, StoreInv
<1>3. /\ k \in CallState /\ k.pc = "read" /\ k.t0 = now /\ k.at0 = call[c].at0
      /\ k.ans = call[c].ans /\ k.sid = call[c].sid
  BY <1>2 DEF CallState
<1> HIDE DEF k
<1>4. call'[c] = k
  BY <1>2 DEF CallsInv
<1>5. CallSound(call[c])'
  BY <1>2, <1>3, <1>4 DEF CallSound, GetClock, Dead, Stored, Expired
<1>6. CallsInv'
  BY <1>1, <1>2, <1>3, <1>4, <1>5, CallMoves
<1>7. QED
  BY <1>6, QuietSession DEF GetClock, StoreInv

LEMMA GetReadSession ==
  ASSUME StoreInv, CallsInv, NEW c \in Caller, GetRead(c)
  PROVE  SessionStep
<1> DEFINE s == call[c].sid
           next == IF Expired(s, call[c].t0) THEN "remove" ELSE "touch"
           k == [call[c] EXCEPT !.pc = next]
<1>1. StoreStep
  BY QuietStore DEF GetRead, StoreInv
<1>2. /\ call[c] \in CallState /\ CallSound(call[c]) /\ s \in Sid
      /\ UNCHANGED <<now, session, issued>>
  BY DEF CallsInv, CallState, GetRead
<1>3. CASE ~Stored(s)
  <2>1. /\ call'[c] \in CallState /\ call' = [call EXCEPT ![c] = call'[c]]
        /\ call'[c].pc = "reply" /\ call'[c].ans = "not_found"
    BY <1>3, CallEndsFields DEF GetRead
  <2>2. CallSound(call[c])'
    BY <2>1 DEF CallSound
  <2>3. CallsInv'
    BY <1>1, <2>1, <2>2, CallMoves
  <2>4. QED
    BY <2>3, QuietSession DEF GetRead, StoreInv
<1>4. CASE Stored(s)
  <2>1. call' = [call EXCEPT ![c] = k]
    BY <1>4 DEF GetRead
  <2>2. /\ next \in {"remove", "touch"}
        /\ next = "remove" => Dead(s, call[c].t0)
        /\ next = "touch" => ~Dead(s, call[c].t0)
    BY <1>2, <1>4 DEF Dead, StoreInv, IdsSound
  <2> HIDE DEF next
  <2>3. /\ k \in CallState /\ k.pc = next /\ k.t0 = call[c].t0 /\ k.at0 = call[c].at0
        /\ k.ans = call[c].ans /\ k.sid = call[c].sid
    BY <1>2, <2>2 DEF CallState
  <2> HIDE DEF k
  <2>4. call'[c] = k
    BY <2>1 DEF CallsInv
  <2>5. CallSound(call[c])'
    BY <1>2, <2>2, <2>3, <2>4 DEF CallSound, GetRead, Dead, Stored, Expired
  <2>6. CallsInv'
    BY <1>1, <2>1, <2>3, <2>4, <2>5, CallMoves
  <2>7. QED
    BY <2>6, QuietSession DEF GetRead, StoreInv
<1>5. QED
  BY <1>3, <1>4

LEMMA GetRemoveSession ==
  ASSUME StoreInv, CallsInv, NEW c \in Caller, GetRemove(c)
  PROVE  SessionStep
<1> DEFINE s == call[c].sid
<1>1. /\ s \in Sid /\ call[c].t0 \in Nat /\ call[c].t0 <= now /\ Dead(s, call[c].t0)
      /\ Remove({s}) /\ UNCHANGED <<now, issued, loggedOut>> /\ CallEnds(c, "not_found")
  BY DEF CallsInv, CallState, CallSound, GetRemove
<1>2. ~Alive(s)
  BY <1>1, DeadNotAlive
<1>3. StoreStep
  BY <1>1, RemoveStore
<1>4. LiveStep
  BY <1>1, <1>2, RemoveLive
<1>5. CallsInv'
  <2>1. /\ call'[c] \in CallState /\ call' = [call EXCEPT ![c] = call'[c]]
        /\ call'[c].pc = "reply" /\ call'[c].ans = "not_found"
    BY <1>1, CallEndsFields
  <2>2. CallSound(call[c])'
    BY <2>1 DEF CallSound
  <2>3. QED
    BY <1>3, <2>1, <2>2, CallMoves
<1>6. QED
  BY <1>3, <1>4, <1>5 DEF SessionStep

LEMMA MemoryCallSession ==
  ASSUME StoreInv, CallsInv, NEW c \in Caller, MemoryCall(c)
  PROVE  SessionStep /\ UNCHANGED sweeper
<1>1. CASE GetClock(c)
  BY <1>1, GetClockSession DEF GetClock
<1>2. CASE GetRead(c)
  BY <1>2, GetReadSession DEF GetRead
<1>3. CASE GetRemove(c)
  BY <1>3, GetRemoveSession DEF GetRemove
<1>4. CASE MemoryTouch(c)
  BY <1>4, TouchSession DEF MemoryTouch
<1>5. CASE NoSessionId(c) /\ UNCHANGED sweeper
  BY <1>5, NoSessionIdSession
<1>6. CASE (SessionValidate(c) \/ Logout(c)) /\ UNCHANGED sweeper
  BY <1>6, ArrivesSession DEF SessionValidate, Logout
<1>7. CASE RevokeSession(c) /\ UNCHANGED sweeper
  BY <1>7, RevokeSessionSession
<1>8. CASE SessionReply(c) /\ UNCHANGED sweeper
  BY <1>8, ClearedCall DEF SessionReply
<1>9. QED
  BY <1>1, <1>2, <1>3, <1>4, <1>5, <1>6, <1>7, <1>8 DEF MemoryCall

LEMMA MemoryCreateSession ==
  ASSUME StoreInv, CallsInv, MemoryCreate
  PROVE  SessionStep
<1>1. PICK s \in Sid \ issued, effective \in 1 .. MaxLifetime, t \in 0 .. now :
        Create(s, NewSession(t, effective))
  BY DEF MemoryCreate
<1> DEFINE row == NewSession(t, effective)
<1>2. row \in Session /\ RowSound(row)
  BY NewSessionSound
<1> HIDE DEF row
<1>3. Create(s, row) /\ UNCHANGED <<now, call, ended, loggedOut>>
  BY <1>1 DEF row, MemoryCreate
<1>4. StoreStep
  BY <1>2, <1>3, CreateStore
<1>5. LiveStep
  BY <1>2, <1>3, NoRowAssumption DEF LiveStep, Create, Stored, Alive, StoreInv
<1>6. QED
  BY <1>3, <1>4, <1>5, CallsRest DEF SessionStep

(* The process dies: every session is lost, and none of them comes back.   *)
LEMMA RestartInv ==
  ASSUME MemoryInv, Restart
  PROVE  MemoryInv' /\ StoreStep /\ \A t \in Sid : ~Stored(t)'
<1>1. Remove(Sid) /\ UNCHANGED <<now, issued, loggedOut>>
  BY DEF Restart
<1>2. StoreStep /\ \A t \in Sid : ~Stored(t)'
  BY <1>1, RemoveStore DEF MemoryInv, Remove, Stored
<1>3. CallsInv'
  BY NoCallSound DEF Restart, CallsInv, CallSound
<1>4. SweepSound'
  BY DEF Restart, SweepSound, SweeperState, Asleep, MemoryInv, StoreInv
<1>5. QED
  BY <1>2, <1>3, <1>4 DEF MemoryInv, StoreStep

(* Every step of the specification: only a restart loses live sessions.    *)
LEMMA MemoryStep ==
  ASSUME MemoryInv, [MemoryNext]_memoryVars
  PROVE  MemoryInv' /\ StoreStep /\ (LiveStep \/ \A t \in Sid : ~Stored(t)')
<1>1. CASE UNCHANGED memoryVars
  <2>1. UNCHANGED sessionVars /\ UNCHANGED sweeper /\ UNCHANGED <<now, session, issued>>
    BY <1>1 DEF memoryVars, sessionVars
  <2>2. SweepSound'
    BY <2>1 DEF MemoryInv, SweepSound, Dead, Stored, Expired
  <2>3. QED
    BY <2>1, <2>2, SweeperMoves DEF SessionStep
<1>2. CASE Sweeping
  BY <1>2, SweepStartInv, SweepCollectedInv, SweepDoneInv, SweepVisitInv, SweepRemoveInv
  DEF Sweeping, SessionStep
<1>3. CASE Restart
  BY <1>3, RestartInv
<1>4. ASSUME SessionStep, UNCHANGED sweeper
      PROVE  MemoryInv' /\ StoreStep /\ LiveStep
  BY <1>4, SweeperRests DEF SessionStep, StoreStep, MemoryInv
<1>5. CASE MemoryCreate
  BY <1>4, <1>5, MemoryCreateSession DEF MemoryInv, MemoryCreate
<1>6. CASE ClockTick /\ UNCHANGED sweeper
  BY <1>4, <1>6, ClockTickSession DEF MemoryInv
<1>7. ASSUME NEW c \in Caller, MemoryCall(c)
      PROVE  MemoryInv' /\ StoreStep /\ LiveStep
  BY <1>4, <1>7, MemoryCallSession DEF MemoryInv
<1>8. QED
  BY <1>1, <1>2, <1>3, <1>5, <1>6, <1>7 DEF MemoryNext

LEMMA MemoryInvariant == MemorySpec => []MemoryInv
  BY MemoryInitInv, MemoryStep, PTL DEF MemorySpec

(* MemoryStore, whose get is three steps and whose touch asks nothing,     *)
(* never tells a request that arrived after the end of its session that it *)
(* is valid.                                                               *)
THEOREM MemoryEndedNotServed == MemorySpec => []EndedNotServed
<1>1. CallsInv => EndedNotServed
  BY DEF CallsInv, CallSound, CallState, EndedNotServed
<1>2. QED
  BY <1>1, MemoryInvariant, PTL DEF MemoryInv

(* Although get and sweep_expired decide under one lock and remove under   *)
(* another, a live session is lost only to its logout or to a restart.     *)
THEOREM MemoryLiveOnlyLoggedOut == MemorySpec => LiveOnlyLoggedOutOrLost
<1> DEFINE Kept ==
      \A s \in Sid :
        Alive(s) /\ ~Stored(s)' =>
          \/ loggedOut'[s] = loggedOut[s] + 1
          \/ \A t \in Sid : ~Stored(t)'
<1>1. ASSUME MemoryInv, [MemoryNext]_memoryVars PROVE Kept
  BY <1>1, MemoryStep DEF LiveStep
<1>2. QED
  BY <1>1, MemoryInvariant, PTL DEF MemorySpec, LiveOnlyLoggedOutOrLost

(* MemoryStore implements the session ledger, restarts included.           *)
THEOREM MemoryImplementsLedger == MemorySpec => ImplementsSessionLedger
<1>1. MemoryInit => SessionLog!SessionLedgerInit
  BY LedgerInit DEF MemoryInit
<1>2. ASSUME MemoryInv, [MemoryNext]_memoryVars
      PROVE  [SessionLog!SessionLedgerNext]_(SessionLog!sessionLedgerVars)
  BY <1>2, MemoryStep DEF StoreStep
<1>3. QED
  BY <1>1, <1>2, MemoryInvariant, PTL
  DEF MemorySpec, ImplementsSessionLedger, SessionLog!SessionLedgerSpec

(* Racing logouts in memory: DashMap's remove gives the entry to one, and  *)
(* a session logged out stays out, whatever is drawn after a restart.      *)
THEOREM MemoryLogoutOnce == MemorySpec => []LogoutOnce
<1>1. StoreInv => LogoutOnce
  BY DEF StoreInv, IdsSound, LogoutsSound, LogoutOnce
<1>2. QED
  BY <1>1, MemoryInvariant, PTL DEF MemoryInv

(* MemoryStore's touch, which also updates an entry that has expired,      *)
(* never moves an expiry.                                                  *)
THEOREM MemoryLifetimeAbsolute == MemorySpec => LifetimeAbsolute
<1>1. ASSUME MemoryInv, [MemoryNext]_memoryVars PROVE LifetimeStep
  BY <1>1, MemoryStep DEF StoreStep
<1>2. QED
  BY <1>1, MemoryInvariant, PTL DEF MemorySpec, LifetimeAbsolute, LifetimeStep
=============================================================================
