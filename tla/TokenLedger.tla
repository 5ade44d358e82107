---------------------------- MODULE TokenLedger ----------------------------
(***************************************************************************)
(* What the custom-JWT tables promise their readers, without the requests  *)
(* that fill them: an audit table that only grows, and a set of retired    *)
(* tokens that only grows.  A token enters the audit table either fresh or *)
(* as the successor of another token, and a successor and the retirement   *)
(* of the token it replaces are one step.                                  *)
(***************************************************************************)
CONSTANTS Jti

VARIABLES
  audit,    \* tokens with a row in jwt_metadata
  retired   \* tokens with a row in denylist

ledgerVars == <<audit, retired>>

LedgerInit ==
  /\ audit = {}
  /\ retired = {}

(* generate: a fresh token is recorded and nothing else changes.           *)
Issue(j) ==
  /\ j \notin audit
  /\ audit' = audit \cup {j}
  /\ UNCHANGED retired

(* revoke, bulk revoke, blacklist by jti: a token not yet retired retires. *)
Retire(j) ==
  /\ j \notin retired
  /\ retired' = retired \cup {j}
  /\ UNCHANGED audit

(* extend: the successor appears in the same step that makes sure the old  *)
(* token is retired; the old token is never the successor itself.          *)
Supersede(old, new) ==
  /\ old # new
  /\ new \notin audit
  /\ new \notin retired
  /\ audit' = audit \cup {new}
  /\ retired' = retired \cup {old}

LedgerNext ==
  \/ \E j \in Jti : Issue(j) \/ Retire(j)
  \/ \E old \in Jti, new \in Jti : Supersede(old, new)

LedgerSpec == LedgerInit /\ [][LedgerNext]_ledgerVars
=============================================================================
