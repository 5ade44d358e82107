---------------------------- MODULE SessionLedger ----------------------------
(***************************************************************************)
(* What any session store promises: a session is created under a fresh id, *)
(* and once it is gone (logged out or collected after its expiry) it never *)
(* comes back, whatever the readers that still remember it do.             *)
(***************************************************************************)
CONSTANT Sid

VARIABLES
  present,  \* the sessions a client could still use or the sweeper collect
  gone      \* the sessions that have been removed

sessionLedgerVars == <<present, gone>>

SessionLedgerInit ==
  /\ present = {}
  /\ gone = {}

(* A session appears once, under an id never used before.                  *)
Begin(s) ==
  /\ s \notin present \cup gone
  /\ present' = present \cup {s}
  /\ gone' = gone

(* Any set of sessions ends at once: one logout, one sweep, one crash.     *)
Finish(S) ==
  /\ S # {}
  /\ present' = present \ S
  /\ gone' = gone \cup S

SessionLedgerNext ==
  \/ \E s \in Sid : Begin(s)
  \/ \E S \in SUBSET present : Finish(S)

SessionLedgerSpec ==
  SessionLedgerInit /\ [][SessionLedgerNext]_sessionLedgerVars
=============================================================================
