------------------------------- MODULE JwtBulk -------------------------------
(***************************************************************************)
(* POST /jwt/custom/revoke/bulk beside the requests of JwtService: one     *)
(* INSERT per token, in order, each of which may fail or wait for the key  *)
(* of an extend in progress, and a status computed from the three tallies  *)
(* (service.rs bulk_revoke, router/mod.rs jwt_revoke_bulk).                *)
(***************************************************************************)
EXTENDS JwtService, Sequences

CONSTANTS
  Batch,          \* slots for bulk requests
  BulkRevokeMax,  \* jwt.bulk_revoke_max
  Garbage         \* a string in the batch that is no token of ours

ASSUME GarbageAssumption == Garbage \notin Jti
ASSUME BulkRevokeMaxAssumption == BulkRevokeMax \in Nat

VARIABLE bulk     \* the bulk request in each slot

bulkVars == <<vars, bulk>>

Outcome == {"revoked", "already", "failed"}

Status == {0, 200, 207, 400, 409}

BulkState ==
  [pc : {"idle", "item", "reply"}, tokens : Seq(Jti \cup {Garbage}),
   results : Seq(Outcome), status : Status]

NoBulk == [pc |-> "idle", tokens |-> <<>>, results |-> <<>>, status |-> 0]

Tally(results, o) == Cardinality({i \in DOMAIN results : results[i] = o})

(* Mutant: the all-already case is taken before failures are looked at.    *)
BulkStatusMisordered(newly, already, failed) ==
  IF failed > 0 /\ newly = 0 /\ already = 0 THEN 400
  ELSE IF newly = 0 /\ already > 0 THEN 409
  ELSE IF failed > 0 \/ (newly > 0 /\ already > 0) THEN 207
  ELSE 200

(* jwt_revoke_bulk's mapping of newly_revoked, already_revoked and failed. *)
BulkStatus(newly, already, failed) ==
  IF failed > 0 /\ newly = 0 /\ already = 0 THEN 400
  ELSE IF failed > 0 \/ (newly > 0 /\ already > 0) THEN 207
  ELSE IF newly = 0 /\ already > 0 THEN 409
  ELSE 200

BulkInit ==
  /\ Init
  /\ bulk = [b \in Batch |-> NoBulk]

(* An empty or oversized batch is refused before any token is touched.     *)
BulkArrive(b) ==
  /\ bulk[b].pc = "idle"
  /\ \E n \in 0..(BulkRevokeMax + 1) :
     \E tokens \in [1..n -> held \cup {Garbage}] :
       bulk' = [bulk EXCEPT ![b] =
                  IF n = 0 \/ n > BulkRevokeMax
                    THEN [NoBulk EXCEPT !.pc = "reply", !.status = 400]
                    ELSE [NoBulk EXCEPT !.pc = "item", !.tokens = tokens]]
  /\ UNCHANGED vars

(* One result is pushed; after the last one the status is computed.        *)
Push(b, outcome) ==
  LET results == Append(bulk[b].results, outcome)
      last == Len(results) = Len(bulk[b].tokens)
  IN bulk' = [bulk EXCEPT
       ![b].results = results,
       ![b].pc = IF last THEN "reply" ELSE "item",
       ![b].status = IF last
          THEN BulkStatus(Tally(results, "revoked"), Tally(results, "already"),
                          Tally(results, "failed"))
          ELSE 0]

NextToken(b) == bulk[b].tokens[Len(bulk[b].results) + 1]

(* The token is not ours, or the INSERT fails: counted, and the loop goes  *)
(* on.  The row of an INSERT whose answer was lost may be there.           *)
BulkItemFails(b) ==
  /\ bulk[b].pc = "item"
  /\ Push(b, "failed")
  /\ \/ UNCHANGED denylist
     \/ /\ NextToken(b) # Garbage
        /\ KeyFree(b, NextToken(b))
        /\ ~Denied(NextToken(b))
        /\ denylist' = denylist \cup
             {[jwt_uuid |-> NextToken(b), reason |-> "revoked"]}
  /\ UNCHANGED <<now, minted, exp, metadata, req, held, history>>

BulkItemRevokes(b) ==
  LET j == NextToken(b) IN
    /\ bulk[b].pc = "item"
    /\ j # Garbage
    /\ KeyFree(b, j)
    /\ \/ /\ ~Denied(j)
          /\ denylist' = denylist \cup {[jwt_uuid |-> j, reason |-> "revoked"]}
          /\ Push(b, "revoked")
       \/ /\ Denied(j)
          /\ Push(b, "already")
          /\ UNCHANGED denylist
    /\ UNCHANGED <<now, minted, exp, metadata, req, held, history>>

(* The positions of the batch that report the token newly revoked.         *)
ClaimsOf(b, j) ==
  {i \in DOMAIN bulk[b].results :
     bulk[b].results[i] = "revoked" /\ bulk[b].tokens[i] = j}

(* The response reaches the client.                                        *)
BulkReply(b) ==
  /\ bulk[b].pc = "reply"
  /\ credited' = [j \in Jti |-> credited[j] + Cardinality(ClaimsOf(b, j))]
  /\ bulk' = [bulk EXCEPT ![b] = NoBulk]
  /\ UNCHANGED <<now, minted, exp, tables, req, held, parent>>

(* The request is dropped at one of its awaits, or its response is lost:   *)
(* the tokens revoked so far stay revoked.                                 *)
BulkAbandon(b) ==
  /\ bulk[b].pc # "idle"
  /\ bulk' = [bulk EXCEPT ![b] = NoBulk]
  /\ UNCHANGED vars

BulkNext ==
  \/ Next /\ UNCHANGED bulk
  \/ \E b \in Batch :
       \/ BulkArrive(b) \/ BulkItemFails(b) \/ BulkItemRevokes(b)
       \/ BulkReply(b) \/ BulkAbandon(b)

BulkSpec == BulkInit /\ [][BulkNext]_bulkVars

(* Tokio polls a woken task until it finishes and Postgres answers every   *)
(* statement whose key is free: no request in progress is starved.  A      *)
(* statement that waits for a key is not counted on to fail.               *)
BulkFairSpec ==
  /\ BulkSpec
  /\ \A r \in Request : WF_bulkVars(Advance(r) /\ UNCHANGED bulk)
  /\ \A b \in Batch :
       WF_bulkVars(\/ BulkItemRevokes(b)
                   \/ /\ bulk[b].pc = "item" /\ NextToken(b) = Garbage
                      /\ BulkItemFails(b)
                   \/ BulkReply(b))

-----------------------------------------------------------------------------
(* Whatever fails, is abandoned or races in between, a token the batch     *)
(* reports as revoked or already revoked is dead, no token is reported     *)
(* newly revoked twice, not even when a batch names it twice, and the      *)
(* status computed from the tallies is the one the table in                *)
(* failure-modes.md gives for the list of results, one for every token.    *)
BulkResultsTrue ==
  /\ \A j \in Jti : credited[j] <= 1
  /\ \A b \in Batch :
       LET q == bulk[b]
           seen == {q.results[i] : i \in DOMAIN q.results}
       IN /\ \A i \in DOMAIN q.results :
               q.results[i] \in {"revoked", "already"} => Denied(q.tokens[i])
          /\ q.pc = "reply" /\ q.tokens # <<>> =>
               /\ Len(q.results) = Len(q.tokens)
               /\ q.status = CASE seen = {"revoked"} -> 200
                               [] seen = {"already"} -> 409
                               [] seen = {"failed"} -> 400
                               [] OTHER -> 207

(* Requests that wait for the denylist key of an open transaction do not   *)
(* wait for ever: every request and every batch ends (service.rs 501).     *)
RequestsEnd ==
  /\ \A r \in Request : req[r].pc # "idle" ~> req[r].pc = "idle"
  /\ \A b \in Batch : bulk[b].pc # "idle" ~> bulk[b].pc = "idle"
=============================================================================
