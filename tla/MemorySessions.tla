--------------------------- MODULE MemorySessions ---------------------------
(***************************************************************************)
(* The session handlers over MemoryStore (session/memory.rs): a DashMap    *)
(* shared by the worker threads of one process.  Each access to the map    *)
(* locks one shard, so an operation is as many steps as it makes accesses, *)
(* and the clock is read before the first.  No operation suspends, so a    *)
(* request ends unless the process dies, which loses every session.        *)
(***************************************************************************)
EXTENDS Sessions

VARIABLE sweeper  \* the background task's sweep_expired, on its own thread

memoryVars == <<sessionVars, sweeper>>

(* todo: the entries the iterator has still to pass; found: the ids it     *)
(* collected and, later, has still to remove.                              *)
SweeperState ==
  [pc : {"asleep", "collect", "remove"}, t0 : Nat, todo : SUBSET Sid,
   found : SUBSET Sid]

Asleep == [pc |-> "asleep", t0 |-> 0, todo |-> {}, found |-> {}]

MemoryInit == SessionsInit /\ sweeper = Asleep

(* let now = Utc::now()                                                    *)
GetClock(c) ==
  /\ call[c].pc = "get"
  /\ call' = [call EXCEPT ![c].pc = "read", ![c].t0 = now]
  /\ UNCHANGED <<now, session, issued, ended, loggedOut, sweeper>>

(* Mutant: get returns whatever entry is there.                            *)
GetReadAny(c) ==
  /\ call[c].pc = "read"
  /\ \/ /\ ~Stored(call[c].sid)
        /\ CallEnds(c, "not_found")
     \/ /\ Stored(call[c].sid)
        /\ call' = [call EXCEPT ![c].pc = "touch"]
  /\ UNCHANGED <<now, session, issued, ended, loggedOut, sweeper>>

(* self.map.get(id): the guard is dropped at the end of this step.         *)
GetRead(c) ==
  LET s == call[c].sid IN
    /\ call[c].pc = "read"
    /\ \/ /\ ~Stored(s)
          /\ CallEnds(c, "not_found")
       \/ /\ Stored(s)
          /\ call' = [call EXCEPT ![c].pc =
                        IF Expired(s, call[c].t0) THEN "remove" ELSE "touch"]
    /\ UNCHANGED <<now, session, issued, ended, loggedOut, sweeper>>

(* self.map.remove(id), whatever the entry has become since.               *)
GetRemove(c) ==
  /\ call[c].pc = "remove"
  /\ Remove({call[c].sid})
  /\ CallEnds(c, "not_found")
  /\ UNCHANGED <<now, issued, loggedOut, sweeper>>

(* Mutant: touch inserts the copy it read instead of updating in place.    *)
MemoryTouchInserts(c) ==
  LET s == call[c].sid IN
    /\ call[c].pc = "touch"
    /\ CallEnds(c, "valid")
    /\ session' = [session EXCEPT ![s] = NewSession(call[c].t0, Ttl)]
    /\ UNCHANGED <<now, issued, ended, loggedOut, sweeper>>

(* get_mut: any entry that is there is touched, expired or not.            *)
MemoryTouch(c) ==
  LET s == call[c].sid IN
    /\ call[c].pc = "touch"
    /\ CallEnds(c, "valid")
    /\ session' = IF Stored(s)
                    THEN [session EXCEPT ![s].last_activity = now]
                    ELSE session
    /\ UNCHANGED <<now, issued, ended, loggedOut, sweeper>>

(* The callback reads the clock, builds the session and inserts it.        *)
MemoryCreate ==
  /\ \E s \in Sid \ issued, effective \in 1 .. MaxLifetime, t \in 0 .. now :
       Create(s, NewSession(t, effective))
  /\ UNCHANGED <<now, call, ended, loggedOut, sweeper>>

-----------------------------------------------------------------------------
(* sweep_expired: read the clock, walk the map collecting the ids of the   *)
(* expired entries, then remove them one by one; the answer is the number  *)
(* collected.                                                              *)
SweepStart ==
  /\ sweeper.pc = "asleep"
  /\ sweeper' = [Asleep EXCEPT !.pc = "collect", !.t0 = now, !.todo = Sid]
  /\ UNCHANGED sessionVars

(* Mutant: the iterator collects every entry it passes.                    *)
SweepVisitAll(s) ==
  /\ sweeper.pc = "collect"
  /\ s \in sweeper.todo
  /\ sweeper' = [sweeper EXCEPT
       !.todo = @ \ {s}, !.found = IF Stored(s) THEN @ \cup {s} ELSE @]
  /\ UNCHANGED sessionVars

(* Mutant: the filter keeps only entries that expired before the tick.     *)
SweepVisitLate(s) ==
  /\ sweeper.pc = "collect"
  /\ s \in sweeper.todo
  /\ sweeper' = [sweeper EXCEPT
       !.todo = @ \ {s},
       !.found = IF Stored(s) /\ session[s].expires_at < sweeper.t0
                   THEN @ \cup {s} ELSE @]
  /\ UNCHANGED sessionVars

SweepVisit(s) ==
  /\ sweeper.pc = "collect"
  /\ s \in sweeper.todo
  /\ sweeper' = [sweeper EXCEPT
       !.todo = @ \ {s},
       !.found = IF Stored(s) /\ Expired(s, sweeper.t0) THEN @ \cup {s} ELSE @]
  /\ UNCHANGED sessionVars

SweepCollected ==
  /\ sweeper.pc = "collect"
  /\ sweeper.todo = {}
  /\ sweeper' = [sweeper EXCEPT !.pc = "remove"]
  /\ UNCHANGED sessionVars

SweepRemove(s) ==
  /\ sweeper.pc = "remove"
  /\ s \in sweeper.found
  /\ Remove({s})
  /\ sweeper' = [sweeper EXCEPT !.found = @ \ {s}]
  /\ UNCHANGED <<now, issued, call, loggedOut>>

SweepDone ==
  /\ sweeper.pc = "remove"
  /\ sweeper.found = {}
  /\ sweeper' = Asleep
  /\ UNCHANGED sessionVars

Sweeping ==
  \/ SweepStart \/ SweepCollected \/ SweepDone
  \/ \E s \in Sid : SweepVisit(s) \/ SweepRemove(s)

(* The process dies and restarts with an empty map.                        *)
Restart ==
  /\ Remove(Sid)
  /\ call' = [c \in Caller |-> NoCall]
  /\ sweeper' = Asleep
  /\ UNCHANGED <<now, issued, loggedOut>>

MemoryCall(c) ==
  \/ GetClock(c) \/ GetRead(c) \/ GetRemove(c) \/ MemoryTouch(c)
  \/ NoSessionId(c) /\ UNCHANGED sweeper
  \/ SessionValidate(c) /\ UNCHANGED sweeper
  \/ Logout(c) /\ UNCHANGED sweeper
  \/ RevokeSession(c) /\ UNCHANGED sweeper
  \/ SessionReply(c) /\ UNCHANGED sweeper

MemoryNext ==
  \/ Sweeping \/ MemoryCreate \/ Restart
  \/ ClockTick /\ UNCHANGED sweeper
  \/ \E c \in Caller : MemoryCall(c)

MemorySpec == MemoryInit /\ [][MemoryNext]_memoryVars

(* The runtime keeps polling the detached sweeper task.                    *)
MemoryFairSpec == MemorySpec /\ WF_memoryVars(Sweeping)
-----------------------------------------------------------------------------
(* Unless the process restarts, a session that has not expired only        *)
(* disappears because its logout was acknowledged: get and sweep_expired   *)
(* decide under one lock and remove under another (memory.rs 40-42, 61-70) *)
(* and still never remove a live session.                                  *)
LiveOnlyLoggedOutOrLost ==
  [][\A s \in Sid :
       Alive(s) /\ ~Stored(s)' =>
         \/ loggedOut'[s] = loggedOut[s] + 1
         \/ \A t \in Sid : ~Stored(t)']_memoryVars

=============================================================================
