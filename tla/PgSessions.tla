----------------------------- MODULE PgSessions -----------------------------
(***************************************************************************)
(* The session handlers over PostgresStore (session/postgres.rs): every    *)
(* operation is one statement whose WHERE clause holds the expiry check,   *)
(* shared by any number of replicas.  A request can be abandoned at any    *)
(* await.                                                                  *)
(***************************************************************************)
EXTENDS Sessions

(* Mutant: the expiry check is left to the sweeper.                        *)
PgGetStored(c) ==
  /\ call[c].pc = "get"
  /\ \/ /\ Stored(call[c].sid)
        /\ call' = [call EXCEPT ![c].pc = "touch"]
     \/ /\ ~Stored(call[c].sid)
        /\ CallEnds(c, "not_found")
  /\ UNCHANGED <<now, session, issued, ended, loggedOut>>

(* SELECT ... WHERE id = $1 AND expires_at > now()                         *)
PgGet(c) ==
  /\ call[c].pc = "get"
  /\ \/ /\ Alive(call[c].sid)
        /\ call' = [call EXCEPT ![c].pc = "touch"]
     \/ /\ ~Alive(call[c].sid)
        /\ CallEnds(c, "not_found")
  /\ UNCHANGED <<now, session, issued, ended, loggedOut>>

(* Mutant: touch slides the expiry.                                        *)
PgTouchSlides(c) ==
  LET s == call[c].sid IN
    /\ call[c].pc = "touch"
    /\ CallEnds(c, "valid")
    /\ \/ /\ Alive(s)
          /\ session' = [session EXCEPT ![s].last_activity = now,
                                        ![s].expires_at = now + Ttl]
       \/ UNCHANGED session
    /\ UNCHANGED <<now, issued, ended, loggedOut>>

(* Mutant: touch writes back the session the handler read (an upsert).     *)
PgTouchUpserts(c) ==
  LET s == call[c].sid IN
    /\ call[c].pc = "touch"
    /\ CallEnds(c, "valid")
    /\ session' = [session EXCEPT ![s] = NewSession(now, Ttl)]
    /\ UNCHANGED <<now, issued, ended, loggedOut>>

(* UPDATE ... SET last_activity = now() WHERE id = $1 AND expires_at >     *)
(* now().  The handler ignores an error: the answer is the same.           *)
PgTouch(c) ==
  LET s == call[c].sid IN
    /\ call[c].pc = "touch"
    /\ CallEnds(c, "valid")
    /\ \/ /\ Alive(s)
          /\ session' = [session EXCEPT ![s].last_activity = now]
       \/ UNCHANGED session
    /\ UNCHANGED <<now, issued, ended, loggedOut>>

(* Mutant: sessions are swept by age instead of by expiry.                 *)
PgSweepEarly ==
  /\ Remove({s \in Sid : Stored(s) /\ Expired(s, now + 1)})
  /\ UNCHANGED <<now, issued, call, loggedOut>>

(* DELETE ... WHERE expires_at <= now()                                    *)
PgSweep ==
  /\ Remove({s \in Sid : Stored(s) /\ Expired(s, now)})
  /\ UNCHANGED <<now, issued, call, loggedOut>>

(* The handler is dropped at an await, or a statement fails.               *)
CallAbandon(c) ==
  /\ call[c].pc # "idle"
  /\ call' = [call EXCEPT ![c] = NoCall]
  /\ UNCHANGED <<now, session, issued, ended, loggedOut>>

PgCall(c) ==
  \/ CallArrive(c) \/ PgGet(c) \/ PgTouch(c) \/ RevokeSession(c)
  \/ SessionReply(c) \/ CallAbandon(c)
=============================================================================
