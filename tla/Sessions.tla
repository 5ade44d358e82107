------------------------------ MODULE Sessions ------------------------------
(***************************************************************************)
(* OAuth2 sessions as the handlers of router/mod.rs see them: /auth/       *)
(* session/validate and /auth/profile look a session up and then touch it, *)
(* /auth/logout revokes it.  The store behind them is a trait with two     *)
(* implementations; what they share is here, and PgSessions and            *)
(* MemorySessions add how each looks up, touches and sweeps.               *)
(***************************************************************************)
EXTENDS Naturals, FiniteSets

CONSTANTS
  Sid,      \* session ids the service may draw (24 random bytes)
  NoRow,    \* no session stored under an id
  Caller,   \* handler slots: how many session requests run at once
  Ttl,      \* oauth2.session_ttl_seconds
  MaxTime   \* bound of the clock

ASSUME SidAssumption == Sid # {}
ASSUME TtlAssumption == Ttl \in Nat

VARIABLES
  now,       \* Utc::now() and the database's now(), in seconds
  session,   \* the store: the session under each id
  issued,    \* ids under which a session was ever stored
  call,      \* the session request in each slot
  ended,     \* history: ids whose session was removed
  loggedOut  \* history: how often a caller was told "logged_out"

sessionVars == <<now, session, issued, call, ended, loggedOut>>

(* The columns the store's operations read or write.                       *)
Session == [created_at : Nat, last_activity : Nat, expires_at : Nat]

ASSUME NoRowAssumption == NoRow \notin Session

(* What a session handler carries: t0 is the clock read by                 *)
(* MemoryStore::get; at0 is history: whether the session had already ended *)
(* or expired when the request arrived.                                    *)
NoCall == [pc |-> "idle", sid |-> CHOOSE s \in Sid : TRUE, t0 |-> 0,
           ans |-> "none", at0 |-> "live"]

Stored(s) == session[s] # NoRow

Expired(s, t) == session[s].expires_at <= t

Alive(s) == Stored(s) /\ ~Expired(s, now)

SessionsInit ==
  /\ now = 0
  /\ session = [s \in Sid |-> NoRow]
  /\ issued = {}
  /\ call = [c \in Caller |-> NoCall]
  /\ ended = {}
  /\ loggedOut = [s \in Sid |-> 0]

ClockTick ==
  /\ now < MaxTime
  /\ now' = now + 1
  /\ UNCHANGED <<session, issued, call, ended, loggedOut>>

(* The longest a session can live: the configured TTL, but a second when   *)
(* that is 0, which the configuration accepts.                             *)
MaxLifetime == IF Ttl < 1 THEN 1 ELSE Ttl

(* The session a callback builds at time t.                                *)
NewSession(t, effective) ==
  [created_at |-> t, last_activity |-> t, expires_at |-> t + effective]

Create(s, row) ==
  /\ s \notin issued
  /\ session' = [session EXCEPT ![s] = row]
  /\ issued' = issued \cup {s}

(* The removal of a set of ids, whoever asks for it.                       *)
Remove(S) ==
  /\ session' = [s \in Sid |-> IF s \in S THEN NoRow ELSE session[s]]
  /\ ended' = ended \cup {s \in S : Stored(s)}

CallEnds(c, answer) ==
  call' = [call EXCEPT ![c].pc = "reply", ![c].ans = answer]

-----------------------------------------------------------------------------
(* The SessionAuth extractor finds no id in header, bearer or query.       *)
NoSessionId(c) ==
  /\ call[c].pc = "idle"
  /\ CallEnds(c, "unauthorized")
  /\ UNCHANGED <<now, session, issued, ended, loggedOut>>

Arrives(c, s, pc) ==
  /\ call[c].pc = "idle"
  /\ call' = [call EXCEPT ![c] =
       [NoCall EXCEPT !.pc = pc, !.sid = s,
          !.at0 = IF s \in issued /\ ~Alive(s) THEN "dead" ELSE "live"]]
  /\ UNCHANGED <<now, session, issued, ended, loggedOut>>

(* auth_session_validate and auth_profile: get, then touch.                *)
SessionValidate(c) == \E s \in Sid : Arrives(c, s, "get")

(* auth_logout.                                                            *)
Logout(c) == \E s \in Sid : Arrives(c, s, "revoke")

(* Mutant: logout answers "logged_out" without asking whether a row went.  *)
RevokeAlwaysLoggedOut(c) ==
  /\ call[c].pc = "revoke"
  /\ Remove({call[c].sid})
  /\ CallEnds(c, "logged_out")
  /\ loggedOut' = [loggedOut EXCEPT ![call[c].sid] = @ + 1]
  /\ UNCHANGED <<now, issued>>

(* SessionStore::revoke: one DELETE, or one removal from the map.          *)
RevokeSession(c) ==
  LET s == call[c].sid IN
    /\ call[c].pc = "revoke"
    /\ Remove({s})
    /\ \/ /\ Stored(s)
          /\ CallEnds(c, "logged_out")
          /\ loggedOut' = [loggedOut EXCEPT ![s] = @ + 1]
       \/ /\ ~Stored(s)
          /\ CallEnds(c, "not_found_ok")
          /\ UNCHANGED loggedOut
    /\ UNCHANGED <<now, issued>>

SessionReply(c) ==
  /\ call[c].pc = "reply"
  /\ call' = [call EXCEPT ![c] = NoCall]
  /\ UNCHANGED <<now, session, issued, ended, loggedOut>>

CallArrive(c) == NoSessionId(c) \/ SessionValidate(c) \/ Logout(c)
-----------------------------------------------------------------------------
(* Once a session has been logged out, swept or has expired, no request    *)
(* that arrives afterwards is told it is valid, although a handler looks   *)
(* the session up and touches it in two steps (router/mod.rs 529-535).     *)
EndedNotServed ==
  \A c \in Caller : call[c].ans = "valid" => call[c].at0 = "live"

(* The lifetime of a session is absolute: touching it never moves its      *)
(* expiry, which is fixed at creation, whatever the provider says of       *)
(* expires_in (nothing, zero, negative, huge): at least a second and at    *)
(* most the configured TTL later, or a second if that is 0 (flow.rs        *)
(* 285-289).                                                               *)
LifetimeAbsolute ==
  [][\A s \in Sid :
       Stored(s)' =>
         /\ session'[s].expires_at > session'[s].created_at
         /\ session'[s].expires_at <= session'[s].created_at + MaxLifetime
         /\ Stored(s) =>
              /\ session'[s].expires_at = session[s].expires_at
              /\ session'[s].last_activity >= session[s].last_activity]_sessionVars

(* A session that has not expired only disappears because its logout was   *)
(* acknowledged: neither the sweeper nor a reader that saw an expired      *)
(* entry ever collects a live one.                                         *)
LiveOnlyLoggedOut ==
  [][\A s \in Sid :
       Alive(s) /\ ~Stored(s)' => loggedOut'[s] = loggedOut[s] + 1]_sessionVars

(* Of all the logouts racing for a session at most one is told that it     *)
(* logged the session out, and then the session is gone for good.          *)
LogoutOnce ==
  \A s \in Sid :
    loggedOut[s] <= 1 /\ (loggedOut[s] = 1 => s \in ended /\ ~Stored(s))

(* The store implements the ledger: no step brings a removed session back. *)
SessionLog == INSTANCE SessionLedger
                WITH present <- {s \in Sid : Stored(s)}, gone <- ended

ImplementsSessionLedger == SessionLog!SessionLedgerSpec

(* An expired session is eventually collected.                             *)
ExpiredCollected ==
  \A s \in Sid : (Stored(s) /\ ~Alive(s)) ~> ~Stored(s)
=============================================================================
