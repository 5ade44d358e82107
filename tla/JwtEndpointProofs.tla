-------------------------- MODULE JwtEndpointProofs --------------------------
(***************************************************************************)
(* Proofs about the endpoints beside the custom-JWT service: the bulk      *)
(* revocation (JwtBulk) and the listing and userinfo requests              *)
(* (JwtListing), for any number of tokens, requests, batches and callers,  *)
(* any batch size and any page size.  The invariant of the service (IInv)  *)
(* holds in both compositions.                                             *)
(***************************************************************************)
EXTENDS JwtBulk, JwtListing, JwtServiceProofs, FiniteSetTheorems

-----------------------------------------------------------------------------
(* Bulk revocation.                                                        *)
(* What a batch knows: one result per token tried, a token it reports dead *)
(* is dead, and the status is computed when the last result is in.         *)
BatchSound(q) ==
  /\ q \in BulkState
  /\ \A i \in DOMAIN q.tokens : q.tokens[i] = Garbage \/ Issued(q.tokens[i])
  /\ \A i \in DOMAIN q.results :
       q.results[i] \in {"revoked", "already"} => Denied(q.tokens[i])
  /\ q.pc = "item" => Len(q.results) < Len(q.tokens)
  /\ q.pc = "reply" /\ q.tokens # <<>> =>
       /\ Len(q.results) = Len(q.tokens)
       /\ q.status = BulkStatus(Tally(q.results, "revoked"), Tally(q.results, "already"),
                                Tally(q.results, "failed"))

(* A batch's claims are exclusive too: the token is denylisted by a        *)
(* revocation, nobody was told yet, no single request and no other place   *)
(* in any batch claims it.                                                 *)
BatchClaims ==
  /\ \A b \in Batch, j \in Jti :
       ClaimsOf(b, j) # {} =>
         /\ RevokedRow(j) \in denylist /\ credited[j] = 0
         /\ \A r \in Request : ~Claim(r, j)
  /\ \A b, c \in Batch, j \in Jti :
       \A i \in ClaimsOf(b, j), k \in ClaimsOf(c, j) : b = c /\ i = k

BulkInv ==
  /\ IInv
  /\ CreditInv
  /\ BatchClaims
  /\ bulk \in [Batch -> BulkState]
  /\ \A b \in Batch : BatchSound(bulk[b])

(* A tally is positive exactly when its outcome occurs.                    *)
LEMMA TallyPositive ==
  ASSUME NEW results \in Seq(Outcome), NEW o
  PROVE  /\ Tally(results, o) \in Nat
         /\ Tally(results, o) > 0 <=> \E i \in DOMAIN results : results[i] = o
<1> DEFINE S == {i \in DOMAIN results : results[i] = o}
<1>1. IsFiniteSet(S)
  <2>1. DOMAIN results = 1 .. Len(results) /\ Len(results) \in Nat
    OBVIOUS
  <2>2. IsFiniteSet(1 .. Len(results))
    BY <2>1, FS_Interval
  <2>3. S \subseteq 1 .. Len(results)
    BY <2>1
  <2>4. QED
    BY <2>2, <2>3, FS_Subset
<1>2. Cardinality(S) \in Nat /\ (Cardinality(S) = 0 <=> S = {})
  BY <1>1, FS_CardinalityType, FS_EmptySet
<1>3. QED
  BY <1>2 DEF Tally

(* The three tallies give the status the table names for the results.      *)
LEMMA StatusOfResults ==
  ASSUME NEW results \in Seq(Outcome), results # <<>>
  PROVE  LET seen == {results[i] : i \in DOMAIN results} IN
           BulkStatus(Tally(results, "revoked"), Tally(results, "already"),
                      Tally(results, "failed"))
             = CASE seen = {"revoked"} -> 200
                 [] seen = {"already"} -> 409
                 [] seen = {"failed"} -> 400
                 [] OTHER -> 207
<1> DEFINE seen == {results[i] : i \in DOMAIN results}
           n == Tally(results, "revoked")
           a == Tally(results, "already")
           f == Tally(results, "failed")
<1>1. n \in Nat /\ a \in Nat /\ f \in Nat
  BY TallyPositive
<1>2. /\ n > 0 <=> "revoked" \in seen
      /\ a > 0 <=> "already" \in seen
      /\ f > 0 <=> "failed" \in seen
  BY TallyPositive
<1>3. seen \subseteq Outcome /\ results[1] \in seen
  <2>1. DOMAIN results = 1 .. Len(results) /\ Len(results) \in Nat /\ Len(results) # 0
    OBVIOUS
  <2>2. 1 \in DOMAIN results
    BY <2>1
  <2>3. \A i \in DOMAIN results : results[i] \in Outcome
    OBVIOUS
  <2>4. QED
    BY <2>2, <2>3
<1> HIDE DEF seen, n, a, f
<1>4. \A o \in Outcome : seen = {o} <=> \A p \in Outcome : p \in seen <=> p = o
  BY <1>3
<1>5. /\ seen = {"revoked"} <=> n > 0 /\ ~(a > 0) /\ ~(f > 0)
      /\ seen = {"already"} <=> a > 0 /\ ~(n > 0) /\ ~(f > 0)
      /\ seen = {"failed"} <=> f > 0 /\ ~(n > 0) /\ ~(a > 0)
      /\ n > 0 \/ a > 0 \/ f > 0
  BY <1>2, <1>3, <1>4 DEF Outcome
<1>6. BulkStatus(n, a, f) = CASE seen = {"revoked"} -> 200
                              [] seen = {"already"} -> 409
                              [] seen = {"failed"} -> 400
                              [] OTHER -> 207
  BY <1>1, <1>5 DEF BulkStatus
<1>7. QED
  BY <1>6 DEF seen, n, a, f

LEMMA NoBulkSound == NoBulk \in BulkState /\ NoBulk.pc = "idle" /\ NoBulk.tokens = <<>> /\ NoBulk.results = <<>>
  BY DEF NoBulk, BulkState, Status

LEMMA NowDenied ==
  ASSUME NEW j, denylist' = denylist \cup {[jwt_uuid |-> j, reason |-> "revoked"]}
  PROVE  Denied(j)'
<1> DEFINE d == [jwt_uuid |-> j, reason |-> "revoked"]
<1>1. d.jwt_uuid = j /\ d \in denylist'
  OBVIOUS
<1> HIDE DEF d
<1>2. QED
  BY <1>1 DEF Denied

(* Only a denylisted token is claimed by a batch.                          *)
LEMMA LiveUnclaimed ==
  ASSUME BatchClaims, NEW j \in Jti, ~Denied(j), NEW b \in Batch
  PROVE  ClaimsOf(b, j) = {}
<1>1. RevokedRow(j).jwt_uuid = j
  BY DEF RevokedRow
<1>2. QED
  BY <1>1 DEF BatchClaims, Denied

(* Claims of batches that only go away stay exclusive.                     *)
LEMMA ClaimsShrink ==
  ASSUME BatchClaims, credited' = credited, denylist \subseteq denylist',
         \A r \in Request, j \in Jti : Claim(r, j)' => Claim(r, j),
         \A b \in Batch, j \in Jti : ClaimsOf(b, j)' \subseteq ClaimsOf(b, j)
  PROVE  BatchClaims'
<1>1. ASSUME NEW b \in Batch, NEW j \in Jti, ClaimsOf(b, j)' # {}
      PROVE  /\ RevokedRow(j) \in denylist' /\ credited'[j] = 0
             /\ \A r \in Request : ~Claim(r, j)'
  BY <1>1 DEF BatchClaims
<1>2. ASSUME NEW b \in Batch, NEW c \in Batch, NEW j \in Jti,
             NEW i \in ClaimsOf(b, j)', NEW k \in ClaimsOf(c, j)'
      PROVE  b = c /\ i = k
  <2>1. i \in ClaimsOf(b, j) /\ k \in ClaimsOf(c, j)
    BY <1>2
  <2>2. QED
    BY <2>1 DEF BatchClaims
<1>3. QED
  BY <1>1, <1>2 DEF BatchClaims

(* A step of the service leaves the claims of batches exclusive.           *)
LEMMA ServiceClaims ==
  ASSUME IInv, CreditInv, BatchClaims, [Next]_vars, bulk' = bulk
  PROVE  BatchClaims'
<1>1. denylist \subseteq denylist' /\ TypeOK
  BY TablesGrow DEF IInv
<1>2. \A b \in Batch, j \in Jti : ClaimsOf(b, j)' = ClaimsOf(b, j)
  BY DEF ClaimsOf
<1>3. CASE ClaimsRest
  BY <1>1, <1>2, <1>3, ClaimsShrink DEF ClaimsRest
<1>4. ASSUME NEW r \in Request, NEW j \in Jti, ClaimMade(r, j) PROVE BatchClaims'
  <2>1. \A b \in Batch : ClaimsOf(b, j) = {}
    BY <1>4, LiveUnclaimed DEF ClaimMade
  <2>2. QED
    BY <1>1, <1>2, <1>4, <2>1 DEF ClaimMade, BatchClaims
<1>5. ASSUME NEW r \in Request, NEW j \in Jti, ClaimDelivered(r, j) PROVE BatchClaims'
  <2>1. \A b \in Batch : ClaimsOf(b, j) = {}
    BY <1>5 DEF ClaimDelivered, BatchClaims
  <2>2. \A k \in Jti : k # j => credited'[k] = credited[k]
    BY <1>1, <1>5 DEF ClaimDelivered, TypeOK
  <2>3. QED
    BY <1>1, <1>2, <1>5, <2>1, <2>2 DEF ClaimDelivered, BatchClaims
<1>6. QED
  BY <1>3, <1>4, <1>5, ClaimsStep

(* What a batch has reported stays true while the tables grow.             *)
LEMMA BatchKept ==
  ASSUME NEW b \in Batch, BatchSound(bulk[b]), bulk'[b] = bulk[b],
         metadata \subseteq metadata', denylist \subseteq denylist'
  PROVE  BatchSound(bulk[b])'
<1>1. \A j : (Issued(j) => Issued(j)') /\ (Denied(j) => Denied(j)')
  BY DEF Issued, Recorded, Denied
<1>2. QED
  BY <1>1 DEF BatchSound

(* A step of the batch in slot b.                                          *)
LEMMA BatchMoves ==
  ASSUME BulkInv, NEW b \in Batch, bulk' = [bulk EXCEPT ![b] = bulk'[b]],
         BatchSound(bulk[b])', metadata \subseteq metadata', denylist \subseteq denylist'
  PROVE  bulk' \in [Batch -> BulkState] /\ \A c \in Batch : BatchSound(bulk[c])'
<1>1. bulk' \in [Batch -> BulkState] /\ \A c \in Batch : c # b => bulk'[c] = bulk[c]
  BY DEF BulkInv, BatchSound
<1>2. ASSUME NEW c \in Batch, c # b PROVE BatchSound(bulk[c])'
  <2>1. BatchSound(bulk[c]) /\ bulk'[c] = bulk[c]
    BY <1>1, <1>2 DEF BulkInv
  <2>2. QED
    BY <2>1, BatchKept
<1>3. QED
  BY <1>1, <1>2

LEMMA BulkArriveInv ==
  ASSUME BulkInv, NEW b \in Batch, BulkArrive(b)
  PROVE  bulk' \in [Batch -> BulkState] /\ \A c \in Batch : BatchSound(bulk[c])'
<1>0. PICK n \in 0 .. (BulkRevokeMax + 1) : \E tokens \in [1 .. n -> held \cup {Garbage}] :
        bulk' = [bulk EXCEPT ![b] =
                   IF n = 0 \/ n > BulkRevokeMax
                     THEN [NoBulk EXCEPT !.pc = "reply", !.status = 400]
                     ELSE [NoBulk EXCEPT !.pc = "item", !.tokens = tokens]]
  BY DEF BulkArrive
<1>1. PICK tokens \in [1 .. n -> held \cup {Garbage}] :
        bulk' = [bulk EXCEPT ![b] =
                   IF n = 0 \/ n > BulkRevokeMax
                     THEN [NoBulk EXCEPT !.pc = "reply", !.status = 400]
                     ELSE [NoBulk EXCEPT !.pc = "item", !.tokens = tokens]]
  BY <1>0
<1>2. n \in Nat
  BY BulkRevokeMaxAssumption
<1>3. UNCHANGED <<metadata, denylist>>
  BY DEF BulkArrive, vars
<1>4. CASE n = 0 \/ n > BulkRevokeMax
  <2> DEFINE k == [NoBulk EXCEPT !.pc = "reply", !.status = 400]
  <2>1. bulk' = [bulk EXCEPT ![b] = k] /\ bulk'[b] = k
    BY <1>1, <1>4 DEF BulkInv
  <2>2. k \in BulkState /\ k.tokens = <<>> /\ k.results = <<>> /\ k.pc = "reply"
    <3>1. 400 \in Status
      BY DEF Status
    <3>2. \A code \in Status :
            LET q == [NoBulk EXCEPT !.pc = "reply", !.status = code] IN
              q \in BulkState /\ q.tokens = <<>> /\ q.results = <<>> /\ q.pc = "reply"
      BY NoBulkSound DEF BulkState
    <3>3. QED
      BY <3>1, <3>2
  <2> HIDE DEF k
  <2>3. BatchSound(bulk[b])'
    BY <2>1, <2>2 DEF BatchSound
  <2>4. QED
    BY <1>3, <2>1, <2>3, BatchMoves
<1>5. CASE ~(n = 0 \/ n > BulkRevokeMax)
  <2> DEFINE k == [NoBulk EXCEPT !.pc = "item", !.tokens = tokens]
  <2>1. bulk' = [bulk EXCEPT ![b] = k] /\ bulk'[b] = k
    BY <1>1, <1>5 DEF BulkInv
  <2>2. /\ tokens \in Seq(Jti \cup {Garbage}) /\ Len(tokens) = n
        /\ \A i \in DOMAIN tokens : tokens[i] = Garbage \/ Issued(tokens[i])
    BY <1>2 DEF BulkInv, IInv, TypeOK, Tables, IssuedIsAudited, Issued
  <2>3. k \in BulkState /\ k.tokens = tokens /\ k.results = <<>> /\ k.pc = "item"
    BY <2>2, NoBulkSound DEF BulkState
  <2> HIDE DEF k
  <2>4. \A j : Issued(j) => Issued(j)'
    BY <1>3 DEF Issued, Recorded
  <2>5. Len(k.results) < Len(k.tokens)
    BY <1>2, <1>5, <2>2, <2>3
  <2>6. BatchSound(bulk[b])'
    BY <2>1, <2>2, <2>3, <2>4, <2>5 DEF BatchSound
  <2>7. QED
    BY <1>3, <2>1, <2>6, BatchMoves
<1>6. QED
  BY <1>4, <1>5

(* A batch that arrives has reported nothing yet.                          *)
LEMMA ArrivalUnclaimed ==
  ASSUME BulkInv, NEW b \in Batch, BulkArrive(b)
  PROVE  \A c \in Batch, j \in Jti : ClaimsOf(c, j)' \subseteq ClaimsOf(c, j)
<1> DEFINE refused == [NoBulk EXCEPT !.pc = "reply", !.status = 400]
           taken(tokens) == [NoBulk EXCEPT !.pc = "item", !.tokens = tokens]
<1>0. refused.results = <<>> /\ \A tokens : taken(tokens).results = <<>>
  BY NoBulkSound DEF BulkState
<1>a. PICK n, tokens :
        bulk' = [bulk EXCEPT ![b] = IF n = 0 \/ n > BulkRevokeMax THEN refused
                                    ELSE taken(tokens)]
  BY DEF BulkArrive
<1> HIDE DEF refused, taken
<1>1. PICK k : bulk' = [bulk EXCEPT ![b] = k] /\ k.results = <<>>
  <2>1. CASE n = 0 \/ n > BulkRevokeMax
    BY <1>0, <1>a, <2>1
  <2>2. CASE ~(n = 0 \/ n > BulkRevokeMax)
    BY <1>0, <1>a, <2>2
  <2>3. QED
    BY <2>1, <2>2
<1>2. bulk'[b] = k /\ \A c \in Batch : c # b => bulk'[c] = bulk[c]
  BY <1>1 DEF BulkInv
<1>3. QED
  BY <1>1, <1>2 DEF ClaimsOf

(* Pushing a result: the token it is about is the one it stands beside.    *)
LEMMA PushSound ==
  ASSUME BulkInv, NEW b \in Batch, bulk[b].pc = "item", NEW o \in Outcome, Push(b, o),
         metadata \subseteq metadata', denylist \subseteq denylist',
         NEW j, j = NextToken(b), o \in {"revoked", "already"} => Denied(j)'
  PROVE  bulk' \in [Batch -> BulkState] /\ \A c \in Batch : BatchSound(bulk[c])'
<1> DEFINE q == bulk[b]
           results == Append(q.results, o)
           last == Len(results) = Len(q.tokens)
           pc == IF last THEN "reply" ELSE "item"
           computed == BulkStatus(Tally(results, "revoked"), Tally(results, "already"),
                                  Tally(results, "failed"))
           status == IF last THEN computed ELSE 0
           k == [q EXCEPT !.results = results, !.pc = pc, !.status = status]
<1>1. /\ q \in BulkState /\ BatchSound(q) /\ bulk' = [bulk EXCEPT ![b] = k] /\ bulk'[b] = k
  BY DEF BulkInv, Push
<1>2. /\ q.results \in Seq(Outcome) /\ q.tokens \in Seq(Jti \cup {Garbage})
      /\ Len(q.results) < Len(q.tokens) /\ j = q.tokens[Len(q.results) + 1]
  BY <1>1 DEF BulkState, BatchSound, NextToken
<1>3. /\ results \in Seq(Outcome) /\ Len(results) = Len(q.results) + 1
      /\ \A i \in DOMAIN results :
           IF i = Len(results) THEN results[i] = o ELSE i \in DOMAIN q.results /\ results[i] = q.results[i]
  BY <1>2
<1>4. status \in Status /\ pc \in {"item", "reply"}
  BY DEF BulkStatus, Status
<1>5. /\ k \in BulkState /\ k.pc = pc /\ k.tokens = q.tokens /\ k.results = results
      /\ k.status = status
  <2> HIDE DEF results, status, pc, q
  <2>1. QED
    BY <1>1, <1>3, <1>4 DEF BulkState
<1>6. \A i : (Issued(i) => Issued(i)') /\ (Denied(i) => Denied(i)')
  BY DEF Issued, Recorded, Denied
<1> HIDE DEF results, k, q, computed
<1>7. ASSUME NEW i \in DOMAIN k.results, k.results[i] \in {"revoked", "already"}
      PROVE  Denied(k.tokens[i]) \/ (k.tokens[i] = j /\ Denied(j)')
  <2>1. CASE i = Len(results)
    BY <1>2, <1>3, <1>5, <1>7, <2>1
  <2>2. CASE i # Len(results)
    <3>1. i \in DOMAIN q.results /\ k.results[i] = q.results[i] /\ k.tokens[i] = q.tokens[i]
      BY <1>3, <1>5, <1>7, <2>2
    <3>2. QED
      BY <1>1, <1>7, <3>1 DEF BatchSound
  <2>3. QED
    BY <2>1, <2>2
<1>8. ASSUME NEW i \in DOMAIN bulk'[b].results, bulk'[b].results[i] \in {"revoked", "already"}
      PROVE  Denied(bulk[b].tokens[i])'
  <2>1. PICK t : t = k.tokens[i]
    OBVIOUS
  <2>2. Denied(t)'
    BY <1>1, <1>6, <1>7, <1>8, <2>1
  <2>3. QED
    BY <1>1, <2>1, <2>2 DEF Denied
<1>9. ASSUME NEW i \in DOMAIN bulk'[b].tokens
      PROVE  bulk'[b].tokens[i] = Garbage \/ Issued(bulk[b].tokens[i])'
  <2>1. PICK t : t = k.tokens[i]
    OBVIOUS
  <2>2. t = Garbage \/ Issued(t)'
    BY <1>1, <1>5, <1>6, <1>9, <2>1 DEF BatchSound
  <2>3. QED
    BY <1>1, <2>1, <2>2 DEF Issued, Recorded
<1>10. /\ k.pc = "item" => Len(k.results) < Len(k.tokens)
       /\ k.pc = "reply" =>
            /\ Len(k.results) = Len(k.tokens)
            /\ k.status = BulkStatus(Tally(k.results, "revoked"), Tally(k.results, "already"),
                                     Tally(k.results, "failed"))
  BY <1>2, <1>3, <1>5 DEF computed
<1>11. BatchSound(bulk[b])'
  BY <1>1, <1>5, <1>8, <1>9, <1>10 DEF BatchSound
<1>12. QED
  BY <1>1, <1>11, BatchMoves

(* Pushing a result other than "revoked" adds no claim, and "revoked" adds *)
(* one, for the token it stands beside.                                    *)
LEMMA PushClaims ==
  ASSUME BulkInv, NEW b \in Batch, bulk[b].pc = "item", NEW o \in Outcome, Push(b, o),
         NEW j, j = NextToken(b)
  PROVE  /\ \A c \in Batch, k \in Jti : c # b => ClaimsOf(c, k)' = ClaimsOf(c, k)
         /\ \A k \in Jti : ClaimsOf(b, k)' \subseteq
              ClaimsOf(b, k) \cup (IF o = "revoked" /\ k = j THEN {Len(bulk[b].results) + 1}
                                  ELSE {})
<1> DEFINE q == bulk[b]
           results == Append(q.results, o)
<1>1. q \in BulkState /\ BatchSound(q)
  BY DEF BulkInv
<1>2. /\ q.results \in Seq(Outcome) /\ q.tokens \in Seq(Jti \cup {Garbage})
      /\ Len(q.results) < Len(q.tokens) /\ j = q.tokens[Len(q.results) + 1]
  BY <1>1 DEF BulkState, BatchSound, NextToken
<1>3. /\ bulk'[b].results = results /\ bulk'[b].tokens = q.tokens
      /\ \A c \in Batch : c # b => bulk'[c] = bulk[c]
  BY <1>1 DEF Push, BulkInv, BulkState
<1>4. \A i \in DOMAIN results :
        IF i = Len(q.results) + 1 THEN results[i] = o
        ELSE i \in DOMAIN q.results /\ results[i] = q.results[i]
  BY <1>2
<1> HIDE DEF results
<1>5. ASSUME NEW k \in Jti, NEW i \in ClaimsOf(b, k)'
      PROVE  i \in ClaimsOf(b, k) \/ (o = "revoked" /\ k = j /\ i = Len(q.results) + 1)
  <2>1. i \in DOMAIN results /\ results[i] = "revoked" /\ q.tokens[i] = k
    BY <1>3, <1>5 DEF ClaimsOf
  <2>2. QED
    BY <1>2, <1>4, <2>1 DEF ClaimsOf
<1>6. \A c \in Batch, k \in Jti : c # b => ClaimsOf(c, k)' = ClaimsOf(c, k)
  BY <1>3 DEF ClaimsOf
<1>7. QED
  BY <1>5, <1>6

(* The invariant of the service, beside a step that leaves it alone.       *)
LEMMA ServiceRests ==
  ASSUME BulkInv, UNCHANGED vars
  PROVE  /\ IInv' /\ CreditInv' /\ UNCHANGED <<metadata, denylist, credited>>
         /\ \A r \in Request, j \in Jti : Claim(r, j)' => Claim(r, j)
  BY NextInv, CreditStep DEF BulkInv, vars, Claim

LEMMA NextTokenIssued ==
  ASSUME BulkInv, NEW b \in Batch, bulk[b].pc = "item"
  PROVE  NextToken(b) = Garbage \/ (NextToken(b) \in Jti /\ Issued(NextToken(b)))
<1> DEFINE q == bulk[b]
<1>1. q \in BulkState /\ BatchSound(q)
  BY DEF BulkInv
<1>2. /\ q.results \in Seq(Outcome) /\ q.tokens \in Seq(Jti \cup {Garbage})
      /\ Len(q.results) < Len(q.tokens)
  BY <1>1 DEF BulkState, BatchSound
<1> HIDE DEF q
<1>3. Len(q.results) + 1 \in DOMAIN q.tokens
  BY <1>2
<1>4. QED
  BY <1>1, <1>2, <1>3 DEF NextToken, BatchSound, q

(* A denylist row for the next token, whatever is reported of it.          *)
LEMMA BulkDenies ==
  ASSUME BulkInv, NEW j \in Jti, Issued(j), ~Denied(j),
         denylist' = denylist \cup {[jwt_uuid |-> j, reason |-> "revoked"]},
         UNCHANGED <<now, minted, exp, metadata, req, held, parent, credited>>
  PROVE  /\ IInv' /\ CreditInv'
         /\ \A r \in Request, k \in Jti : Claim(r, k)' => Claim(r, k)
<1>1. credited' \in [Jti -> Nat]
  BY DEF BulkInv, IInv, TypeOK
<1>2. req' \in [Request -> ReqState] /\ \A q \in Request : req'[q] = req[q]
  BY DEF BulkInv, IInv, TypeOK
<1>3. IInv'
  BY <1>1, <1>2, DenyInv DEF BulkInv
<1>4. \A r \in Request, k \in Jti : Claim(r, k)' <=> Claim(r, k)
  BY DEF Claim
<1>5. CreditInv'
  BY <1>4 DEF BulkInv, CreditInv, CreditedOnce
<1>6. QED
  BY <1>3, <1>4, <1>5

LEMMA BulkItemFailsInv ==
  ASSUME BulkInv, NEW b \in Batch, BulkItemFails(b)
  PROVE  BulkInv'
<1>1. PICK j : j = NextToken(b)
  OBVIOUS
<1>2. bulk[b].pc = "item" /\ Push(b, "failed") /\ "failed" \in Outcome
  BY DEF BulkItemFails, Outcome
<1>3. \A c \in Batch, k \in Jti : ClaimsOf(c, k)' \subseteq ClaimsOf(c, k)
  BY <1>1, <1>2, PushClaims
<1>4. CASE UNCHANGED denylist
  <2>1. UNCHANGED vars
    BY <1>4 DEF BulkItemFails, vars, history
  <2>2. bulk' \in [Batch -> BulkState] /\ \A c \in Batch : BatchSound(bulk[c])'
    BY <1>1, <1>2, <1>4, PushSound DEF BulkItemFails
  <2>3. BatchClaims'
    BY <1>3, <2>1, ServiceRests, ClaimsShrink DEF BulkInv
  <2>4. QED
    BY <2>1, <2>2, <2>3, ServiceRests DEF BulkInv
<1>5. CASE ~UNCHANGED denylist
  <2>1. /\ j # Garbage /\ ~Denied(j)
        /\ denylist' = denylist \cup {[jwt_uuid |-> j, reason |-> "revoked"]}
        /\ UNCHANGED <<now, minted, exp, metadata, req, held, parent, credited>>
    BY <1>1, <1>5 DEF BulkItemFails, history
  <2>2. j \in Jti /\ Issued(j)
    BY <1>1, <1>2, <2>1, NextTokenIssued
  <2>3. IInv' /\ CreditInv' /\ \A r \in Request, k \in Jti : Claim(r, k)' => Claim(r, k)
    BY <2>1, <2>2, BulkDenies
  <2>4. bulk' \in [Batch -> BulkState] /\ \A c \in Batch : BatchSound(bulk[c])'
    BY <1>1, <1>2, <2>1, PushSound
  <2>5. BatchClaims'
    BY <1>3, <2>1, <2>3, ClaimsShrink DEF BulkInv
  <2>6. QED
    BY <2>3, <2>4, <2>5 DEF BulkInv
<1>6. QED
  BY <1>4, <1>5

(* The new claim is for a token nobody claimed or was told of before.      *)
LEMMA BulkClaims ==
  ASSUME BulkInv, NEW b \in Batch, bulk[b].pc = "item", Push(b, "revoked"),
         NEW j \in Jti, j = NextToken(b), ~Denied(j),
         denylist' = denylist \cup {[jwt_uuid |-> j, reason |-> "revoked"]},
         credited' = credited, req' = req
  PROVE  BatchClaims'
<1> DEFINE n == Len(bulk[b].results) + 1
<1>1. /\ \A c \in Batch, k \in Jti : c # b => ClaimsOf(c, k)' = ClaimsOf(c, k)
      /\ \A k \in Jti : ClaimsOf(b, k)' \subseteq
           ClaimsOf(b, k) \cup (IF k = j THEN {n} ELSE {})
  BY PushClaims DEF Outcome
<1>2. \A c \in Batch : ClaimsOf(c, j) = {}
  BY LiveUnclaimed DEF BulkInv
<1>3. credited[j] = 0 /\ \A r \in Request : ~Claim(r, j)
  BY UnclaimedIfLive DEF BulkInv, IInv
<1>4. RevokedRow(j) \in denylist' /\ denylist \subseteq denylist'
  BY DEF RevokedRow
<1>5. \A r \in Request, k \in Jti : Claim(r, k)' <=> Claim(r, k)
  BY DEF Claim
<1> HIDE DEF n
<1>6. ASSUME NEW c \in Batch, NEW k \in Jti, k # j
      PROVE  ClaimsOf(c, k)' \subseteq ClaimsOf(c, k)
  BY <1>1, <1>6
<1>7. \A c \in Batch : ClaimsOf(c, j)' \subseteq (IF c = b THEN {n} ELSE {})
  BY <1>1, <1>2
<1>8. ASSUME NEW c \in Batch, NEW k \in Jti, ClaimsOf(c, k)' # {}
      PROVE  /\ RevokedRow(k) \in denylist' /\ credited'[k] = 0
             /\ \A r \in Request : ~Claim(r, k)'
  <2>1. CASE k = j
    BY <1>3, <1>4, <1>5, <2>1
  <2>2. CASE k # j
    BY <1>4, <1>5, <1>6, <1>8, <2>2 DEF BulkInv, BatchClaims
  <2>3. QED
    BY <2>1, <2>2
<1>9. ASSUME NEW c \in Batch, NEW d \in Batch, NEW k \in Jti,
             NEW x \in ClaimsOf(c, k)', NEW y \in ClaimsOf(d, k)'
      PROVE  c = d /\ x = y
  <2>1. CASE k = j
    BY <1>7, <1>9, <2>1
  <2>2. CASE k # j
    <3>1. x \in ClaimsOf(c, k) /\ y \in ClaimsOf(d, k)
      BY <1>6, <1>9, <2>2
    <3>2. QED
      BY <3>1 DEF BulkInv, BatchClaims
  <2>3. QED
    BY <2>1, <2>2
<1>10. QED
  BY <1>8, <1>9 DEF BatchClaims

LEMMA BulkItemRevokesInv ==
  ASSUME BulkInv, NEW b \in Batch, BulkItemRevokes(b)
  PROVE  BulkInv'
<1>1. PICK j : j = NextToken(b)
  OBVIOUS
<1>2. j \in Jti /\ Issued(j) /\ bulk[b].pc = "item"
  BY <1>1, NextTokenIssued DEF BulkItemRevokes
<1>3. CASE Denied(j)
  <2>1. UNCHANGED vars /\ Push(b, "already")
    BY <1>1, <1>3 DEF BulkItemRevokes, vars, history
  <2>2. /\ IInv' /\ CreditInv' /\ UNCHANGED <<metadata, denylist, credited>>
        /\ \A r \in Request, k \in Jti : Claim(r, k)' => Claim(r, k)
    BY <2>1, ServiceRests
  <2>3. Denied(j)'
    BY <1>3, <2>2 DEF Denied
  <2>4. bulk' \in [Batch -> BulkState] /\ \A c \in Batch : BatchSound(bulk[c])'
    BY <1>1, <1>2, <2>1, <2>2, <2>3, PushSound DEF Outcome
  <2>5. \A c \in Batch, k \in Jti : ClaimsOf(c, k)' \subseteq ClaimsOf(c, k)
    BY <1>1, <1>2, <2>1, PushClaims DEF Outcome
  <2>6. BatchClaims'
    BY <2>2, <2>5, ClaimsShrink DEF BulkInv
  <2>7. QED
    BY <2>2, <2>4, <2>6 DEF BulkInv
<1>4. CASE ~Denied(j)
  <2>1. /\ denylist' = denylist \cup {[jwt_uuid |-> j, reason |-> "revoked"]}
        /\ Push(b, "revoked")
        /\ UNCHANGED <<now, minted, exp, metadata, req, held, parent, credited>>
    BY <1>1, <1>4 DEF BulkItemRevokes, history
  <2>2. IInv' /\ CreditInv'
    BY <1>2, <1>4, <2>1, BulkDenies
  <2>3. Denied(j)'
    BY <2>1, NowDenied
  <2>4. bulk' \in [Batch -> BulkState] /\ \A c \in Batch : BatchSound(bulk[c])'
    BY <1>1, <1>2, <2>1, <2>3, PushSound DEF Outcome
  <2>5. BatchClaims'
    BY <1>1, <1>2, <1>4, <2>1, BulkClaims
  <2>6. QED
    BY <2>2, <2>4, <2>5 DEF BulkInv
<1>5. QED
  BY <1>3, <1>4

(* An emptied slot claims nothing.                                         *)
LEMMA BulkEmptied ==
  ASSUME BulkInv, NEW b \in Batch, bulk' = [bulk EXCEPT ![b] = NoBulk],
         UNCHANGED <<metadata, denylist>>
  PROVE  /\ bulk' \in [Batch -> BulkState] /\ \A c \in Batch : BatchSound(bulk[c])'
         /\ \A j \in Jti : ClaimsOf(b, j)' = {}
         /\ \A c \in Batch, j \in Jti : c # b => ClaimsOf(c, j)' = ClaimsOf(c, j)
<1>1. bulk'[b] = NoBulk /\ \A c \in Batch : c # b => bulk'[c] = bulk[c]
  BY DEF BulkInv
<1>2. BatchSound(bulk[b])'
  BY <1>1, NoBulkSound DEF BatchSound
<1>3. \A j \in Jti : ClaimsOf(b, j)' = {}
  BY <1>1, NoBulkSound DEF ClaimsOf
<1>4. \A c \in Batch, j \in Jti : c # b => ClaimsOf(c, j)' = ClaimsOf(c, j)
  BY <1>1 DEF ClaimsOf
<1>5. QED
  BY <1>1, <1>2, <1>3, <1>4, BatchMoves

LEMMA BulkAbandonInv ==
  ASSUME BulkInv, NEW b \in Batch, BulkAbandon(b)
  PROVE  BulkInv'
<1>1. /\ IInv' /\ CreditInv' /\ UNCHANGED <<metadata, denylist, credited>>
      /\ \A r \in Request, j \in Jti : Claim(r, j)' => Claim(r, j)
  BY ServiceRests DEF BulkAbandon
<1>2. /\ bulk' \in [Batch -> BulkState] /\ \A c \in Batch : BatchSound(bulk[c])'
      /\ \A c \in Batch, j \in Jti : ClaimsOf(c, j)' \subseteq ClaimsOf(c, j)
  BY <1>1, BulkEmptied DEF BulkAbandon
<1>3. BatchClaims'
  BY <1>1, <1>2, ClaimsShrink DEF BulkInv
<1>4. QED
  BY <1>1, <1>2, <1>3 DEF BulkInv

(* A batch claims a token at one place at most, so it credits it once.     *)
LEMMA ClaimsCounted ==
  ASSUME BulkInv, NEW b \in Batch, NEW j \in Jti
  PROVE  Cardinality(ClaimsOf(b, j)) = IF ClaimsOf(b, j) = {} THEN 0 ELSE 1
<1>1. CASE ClaimsOf(b, j) = {}
  BY <1>1, FS_EmptySet
<1>2. CASE ClaimsOf(b, j) # {}
  <2>1. PICK i : i \in ClaimsOf(b, j)
    BY <1>2
  <2>2. ClaimsOf(b, j) = {i}
    BY <2>1 DEF BulkInv, BatchClaims
  <2>3. QED
    BY <2>2, FS_Singleton
<1>3. QED
  BY <1>1, <1>2

LEMMA BulkReplyInv ==
  ASSUME BulkInv, NEW b \in Batch, BulkReply(b)
  PROVE  BulkInv'
<1>1. /\ credited \in [Jti -> Nat]
      /\ UNCHANGED <<now, minted, exp, metadata, denylist, req, held, parent>>
  BY DEF BulkInv, IInv, TypeOK, BulkReply, tables
<1>2. \A j \in Jti :
        credited'[j] = credited[j] + (IF ClaimsOf(b, j) = {} THEN 0 ELSE 1)
  BY ClaimsCounted DEF BulkReply
<1>3. credited' \in [Jti -> Nat]
  <2>1. credited' = [j \in Jti |-> credited'[j]]
    BY DEF BulkReply
  <2>2. \A j \in Jti : credited'[j] \in Nat
    BY <1>1, <1>2
  <2>3. QED
    BY <2>1, <2>2
<1>4. IInv'
  BY <1>1, <1>3, CreditFree DEF BulkInv
<1>5. /\ bulk' \in [Batch -> BulkState] /\ \A c \in Batch : BatchSound(bulk[c])'
      /\ \A j \in Jti : ClaimsOf(b, j)' = {}
      /\ \A c \in Batch, j \in Jti : c # b => ClaimsOf(c, j)' = ClaimsOf(c, j)
  BY <1>1, BulkEmptied DEF BulkReply
<1>6. \A r \in Request, j \in Jti : Claim(r, j)' <=> Claim(r, j)
  BY <1>1 DEF Claim
<1>7. ASSUME NEW j \in Jti, ClaimsOf(b, j) # {}
      PROVE  /\ credited[j] = 0 /\ RevokedRow(j) \in denylist
             /\ \A r \in Request : ~Claim(r, j)
             /\ \A c \in Batch : c # b => ClaimsOf(c, j) = {}
  BY <1>7 DEF BulkInv, BatchClaims
<1>8. CreditInv'
  <2>0. \A j \in Jti : credited[j] <= 1 /\ (credited[j] = 1 => RevokedRow(j) \in denylist)
    BY DEF BulkInv, CreditInv, CreditedOnce, RevokedRow
  <2>1. \A j \in Jti :
          credited'[j] <= 1 /\ (credited'[j] = 1 => RevokedRow(j) \in denylist')
    BY <1>1, <1>2, <1>7, <2>0
  <2>2. \A r \in Request, j \in Jti :
          Claim(r, j)' => RevokedRow(j) \in denylist' /\ credited'[j] = 0
    BY <1>1, <1>2, <1>6, <1>7 DEF BulkInv, CreditInv
  <2>3. QED
    BY <1>6, <2>1, <2>2 DEF BulkInv, CreditInv, CreditedOnce, RevokedRow
<1>9. BatchClaims'
  <2>1. ASSUME NEW c \in Batch, NEW j \in Jti, ClaimsOf(c, j)' # {}
        PROVE  /\ RevokedRow(j) \in denylist' /\ credited'[j] = 0
               /\ \A r \in Request : ~Claim(r, j)'
    <3>1. c # b /\ ClaimsOf(c, j) # {}
      BY <1>5, <2>1
    <3>2. ClaimsOf(b, j) = {}
      BY <1>7, <3>1
    <3>3. credited'[j] = credited[j]
      BY <1>1, <1>2, <3>2
    <3>4. QED
      BY <1>1, <1>6, <3>1, <3>3 DEF BulkInv, BatchClaims
  <2>2. ASSUME NEW c \in Batch, NEW d \in Batch, NEW j \in Jti,
               NEW x \in ClaimsOf(c, j)', NEW y \in ClaimsOf(d, j)'
        PROVE  c = d /\ x = y
    <3>1. x \in ClaimsOf(c, j) /\ y \in ClaimsOf(d, j)
      BY <1>5, <2>2
    <3>2. QED
      BY <3>1 DEF BulkInv, BatchClaims
  <2>3. QED
    BY <2>1, <2>2 DEF BatchClaims
<1>10. QED
  BY <1>4, <1>5, <1>8, <1>9 DEF BulkInv

LEMMA BulkInvariant == BulkSpec => []BulkInv
<1>1. BulkInit => BulkInv
  <2> SUFFICES ASSUME BulkInit PROVE BulkInv
    OBVIOUS
  <2>1. IInv /\ CreditInv
    BY InitInv, CreditInitially DEF BulkInit
  <2>2. bulk \in [Batch -> BulkState] /\ \A b \in Batch : BatchSound(bulk[b])
    BY NoBulkSound DEF BulkInit, BatchSound
  <2>3. \A b \in Batch, j \in Jti : ClaimsOf(b, j) = {}
    BY NoBulkSound DEF BulkInit, ClaimsOf
  <2>4. BatchClaims
    BY <2>3 DEF BatchClaims
  <2>5. QED
    BY <2>1, <2>2, <2>4 DEF BulkInv
<1>2. ASSUME BulkInv, [BulkNext]_bulkVars PROVE BulkInv'
  <2>1. CASE [Next]_vars /\ UNCHANGED bulk
    <3>1. /\ IInv' /\ CreditInv' /\ BatchClaims'
          /\ metadata \subseteq metadata' /\ denylist \subseteq denylist'
      BY <1>2, <2>1, NextInv, CreditStep, ServiceClaims, TablesGrow DEF BulkInv
    <3>2. ASSUME NEW b \in Batch PROVE BatchSound(bulk[b])'
      <4>1. BatchSound(bulk[b]) /\ bulk'[b] = bulk[b]
        BY <1>2, <2>1 DEF BulkInv
      <4>2. QED
        BY <3>1, <4>1, BatchKept
    <3>3. QED
      BY <1>2, <2>1, <3>1, <3>2 DEF BulkInv
  <2>2. ASSUME NEW b \in Batch, BulkArrive(b) PROVE BulkInv'
    <3>1. /\ IInv' /\ CreditInv' /\ UNCHANGED <<metadata, denylist, credited>>
          /\ \A r \in Request, j \in Jti : Claim(r, j)' => Claim(r, j)
      BY <1>2, <2>2, ServiceRests DEF BulkArrive
    <3>2. \A c \in Batch, j \in Jti : ClaimsOf(c, j)' \subseteq ClaimsOf(c, j)
      BY <1>2, <2>2, ArrivalUnclaimed
    <3>3. BatchClaims'
      BY <1>2, <3>1, <3>2, ClaimsShrink DEF BulkInv
    <3>4. QED
      BY <1>2, <2>2, <3>1, <3>3, BulkArriveInv DEF BulkInv
  <2>3. QED
    BY <1>2, <2>1, <2>2, BulkItemFailsInv, BulkItemRevokesInv, BulkReplyInv, BulkAbandonInv
    DEF BulkNext, bulkVars
<1>3. QED
  BY <1>1, <1>2, PTL DEF BulkSpec

(* Whatever fails or races, the results of a batch are true, no token is   *)
(* credited twice, and the status is the one the table names for them.     *)
THEOREM BulkTellsTheTruth == BulkSpec => []BulkResultsTrue
<1>1. ASSUME BulkInv PROVE BulkResultsTrue
  <2>1. \A j \in Jti : credited[j] <= 1
    BY <1>1 DEF BulkInv, CreditInv, CreditedOnce
  <2>2. ASSUME NEW b \in Batch
        PROVE  LET q == bulk[b]
                   seen == {q.results[i] : i \in DOMAIN q.results}
               IN /\ \A i \in DOMAIN q.results :
                       q.results[i] \in {"revoked", "already"} => Denied(q.tokens[i])
                  /\ q.pc = "reply" /\ q.tokens # <<>> =>
                       /\ Len(q.results) = Len(q.tokens)
                       /\ q.status = CASE seen = {"revoked"} -> 200
                                       [] seen = {"already"} -> 409
                                       [] seen = {"failed"} -> 400
                                       [] OTHER -> 207
    <3> DEFINE q == bulk[b]
    <3>1. BatchSound(q) /\ q.results \in Seq(Outcome) /\ q.tokens \in Seq(Jti \cup {Garbage})
      BY <1>1 DEF BulkInv, BulkState
    <3> HIDE DEF q
    <3>2. q.tokens # <<>> /\ Len(q.results) = Len(q.tokens) => q.results # <<>>
      BY <3>1
    <3>3. QED
      BY <3>1, <3>2, StatusOfResults DEF BatchSound, q
  <2>3. QED
    BY <2>1, <2>2 DEF BulkResultsTrue
<1>2. QED
  BY <1>1, BulkInvariant, PTL

(* Beside any number of batches the promises of the single requests hold:  *)
(* a batch that revokes a token between the awaits of an extend neither    *)
(* tears the extend apart nor falsifies the audit columns or an answer.    *)
THEOREM ServiceSoundBesideBulk ==
  BulkSpec => [](SupersedeAtomic /\ ChainRooted /\ IssuedIsAudited /\ AnswersSound)
<1>1. BulkInv => SupersedeAtomic /\ ChainRooted /\ IssuedIsAudited /\ AnswersSound
  BY IInvAnswers, IInvChains DEF BulkInv, IInv, Tables
<1>2. QED
  BY <1>1, BulkInvariant, PTL

(* A denylist row of a batch, its outcome known or lost, is a step Retire  *)
(* of the ledger.                                                          *)
LEMMA BatchRetires ==
  ASSUME BulkInv, NEW b \in Batch, BulkItemFails(b) \/ BulkItemRevokes(b)
  PROVE  [Ledger!LedgerNext]_(Ledger!ledgerVars)
<1>1. metadata' = metadata
  BY DEF BulkItemFails, BulkItemRevokes
<1>2. CASE denylist' = denylist
  BY <1>1, <1>2, LedgerStutters
<1>3. CASE denylist' # denylist
  <2>1. PICK j : j = NextToken(b)
    OBVIOUS
  <2>2. bulk[b].pc = "item" /\ j # Garbage /\ ~Denied(j)
        /\ denylist' = denylist \cup {[jwt_uuid |-> j, reason |-> "revoked"]}
    BY <1>3, <2>1 DEF BulkItemFails, BulkItemRevokes
  <2>3. j \in Jti
    BY <2>1, <2>2, NextTokenIssued
  <2>4. PICK row : row.jwt_uuid = j /\ denylist' = denylist \cup {row}
    BY <2>2
  <2>5. j \notin denied /\ denied' = denied \cup {j}
    BY <2>2, <2>4 DEF denied, Denied
  <2>6. audited' = audited
    BY <1>1 DEF audited
  <2>7. Ledger!Retire(j)
    BY <2>5, <2>6 DEF Ledger!Retire, audited, denied
  <2>8. QED
    BY <2>3, <2>7 DEF Ledger!LedgerNext
<1>4. QED
  BY <1>2, <1>3

(* The service with bulk revocation still implements the ledger: a batch   *)
(* retires tokens one by one and un-retires none, wherever it stops.       *)
THEOREM BulkRefinesLedger == BulkSpec => ImplementsLedger
<1>1. BulkInit => Ledger!LedgerInit
  BY DEF BulkInit, Init, Ledger!LedgerInit
<1>2. ASSUME BulkInv, [BulkNext]_bulkVars PROVE [Ledger!LedgerNext]_(Ledger!ledgerVars)
  <2>1. CASE [Next]_vars
    BY <1>2, <2>1, StepRefines DEF BulkInv
  <2>2. ASSUME NEW b \in Batch, BulkItemFails(b) \/ BulkItemRevokes(b)
        PROVE  [Ledger!LedgerNext]_(Ledger!ledgerVars)
    BY <1>2, <2>2, BatchRetires
  <2>3. ASSUME NEW b \in Batch, BulkReply(b) PROVE [Ledger!LedgerNext]_(Ledger!ledgerVars)
    BY <2>3, LedgerStutters DEF BulkReply, tables
  <2>4. \/ Next \/ UNCHANGED vars
        \/ \E b \in Batch : BulkItemFails(b) \/ BulkItemRevokes(b) \/ BulkReply(b)
    BY <1>2 DEF BulkNext, bulkVars, BulkArrive, BulkAbandon
  <2>5. QED
    BY <2>1, <2>2, <2>3, <2>4
<1>3. QED
  BY <1>1, <1>2, BulkInvariant, PTL DEF BulkSpec, ImplementsLedger, Ledger!LedgerSpec

-----------------------------------------------------------------------------
(***************************************************************************)
(* Listing and userinfo.  A walk over the pages misses nothing because a   *)
(* row that is not on a page already read has at least as many rows ahead  *)
(* of it as the next request skips, and rows are never removed.            *)
(***************************************************************************)

RowStatus == {"revoked", "expired", "active"}

StatusMaps == UNION {[S -> RowStatus] : S \in SUBSET Jti}

CallState ==
  [kind : {"none", "list", "userinfo"},
   pc : {"idle", "auth", "unauthorized", "claims", "rows", "count", "entries", "ok"},
   tok : Jti \cup {NoJti}, offset : Nat, by_row : BOOLEAN, size : Nat \ {0},
   rows : SUBSET Jti, total : Nat, read : Nat, status : StatusMaps,
   t0 : Nat, dead0 : SUBSET Jti, there : SUBSET Jti, seen : SUBSET Jti]

Audit == {m.jwt_uuid : m \in metadata}

(* Row j shares its issued_at with another row of R, or at least n rows of *)
(* R come before it.                                                       *)
Ahead(j, R) == {k \in R : iat[k] > iat[j]}

Twin(j, R) == \E k \in R \ {j} : iat[k] = iat[j]

Behind(j, R, n) == Twin(j, R) \/ Cardinality(Ahead(j, R)) >= n

Missing(q) == q.there \ (q.seen \cup q.rows)

(* Who asks: a minted token, seen neither expired nor denylisted.          *)
BearerSound(q) ==
  /\ q.pc # "idle" => q.tok \in minted
  /\ q.t0 <= now
  /\ q.dead0 \subseteq DeadTokens
  /\ q.pc \notin {"idle", "unauthorized"} => exp[q.tok] + Leeway >= q.t0
  /\ q.pc \in {"claims", "rows", "count", "entries", "ok"} => q.tok \notin q.dead0
  /\ q.pc = "claims" => q.kind # "list"

(* The status of a row is read after the request came in.                  *)
EntriesSound(q) ==
  /\ q.pc = "idle" => q.rows = {}
  /\ q.pc = "entries" => q.t0 <= q.read
  /\ \A j \in DOMAIN q.status :
       /\ j \in q.rows
       /\ q.status[j] = "active" => j \notin q.dead0 /\ exp[j] >= q.t0
       /\ q.status[j] = "revoked" => Denied(j)

(* The rows seen are the caller's, and what is missing comes later.        *)
WalkSound(q) ==
  /\ q.there \cup q.seen \cup q.rows \subseteq RowsOf(sub[q.tok])
  /\ q.pc \in {"auth", "rows"} =>
       /\ q.rows = {}
       /\ \A j \in Missing(q) : Behind(j, RowsOf(sub[q.tok]), RowOffset(q))
  /\ q.pc \in {"count", "entries", "ok"} /\ q.kind = "list" =>
       \A j \in Missing(q) : Behind(j, RowsOf(sub[q.tok]), RowOffset(q) + q.size)
  /\ q.pc \in {"entries", "ok"} /\ q.kind = "list" =>
       \A j \in Missing(q) :
         Twin(j, RowsOf(sub[q.tok])) \/ RowOffset(q) + q.size < q.total

CallSound(q) ==
  /\ q \in CallState
  /\ BearerSound(q)
  /\ EntriesSound(q)
  /\ q.pc # "idle" => WalkSound(q)

ListInv ==
  /\ IInv
  /\ IsFiniteSet(Audit)
  /\ sub \in [Jti -> Subject \cup {NoSub}]
  /\ iat \in [Jti -> Nat]
  /\ call \in [Caller -> CallState]
  /\ \A c \in Caller : CallSound(call[c])

(* Arithmetic and cardinality.                                             *)
LEMMA MinOfTwo ==
  ASSUME NEW a \in Nat, NEW b \in Nat
  PROVE  Min({a, b}) = IF a <= b THEN a ELSE b
<1> DEFINE m == IF a <= b THEN a ELSE b
<1>1. m \in {a, b} /\ \A y \in {a, b} : m =< y
  OBVIOUS
<1>2. Min({a, b}) \in {a, b} /\ \A y \in {a, b} : Min({a, b}) =< y
  BY <1>1 DEF Min
<1>3. QED
  BY <1>1, <1>2

LEMMA PageSizePositive ==
  ASSUME NEW limit \in Limits
  PROVE  PageSize(limit) \in Nat \ {0}
<1> DEFINE n == Min({limit, MaxSize})
<1>1. limit \in Nat /\ MaxSize \in Nat
  BY PagingAssumption
<1>2. n \in Nat
  BY <1>1, MinOfTwo
<1> HIDE DEF n
<1>3. \E x \in {1, n} : \A y \in {1, n} : x >= y
  BY <1>2
<1>4. Max({1, n}) \in {1, n} /\ \A y \in {1, n} : Max({1, n}) >= y
  BY <1>3 DEF Max
<1>5. QED
  BY <1>2, <1>4 DEF PageSize, n

(* The last page of the count ends no earlier than the last row counted.   *)
LEMMA LastPage ==
  ASSUME NEW q \in CallState, RowOffset(q) + q.size < q.total
  PROVE  PageNumber(q) + 1 < TotalPages(q)
<1> DEFINE off == q.offset
           size == q.size
           total == q.total
<1>1. off \in Nat /\ size \in Nat \ {0} /\ total \in Nat /\ q.by_row \in BOOLEAN
  BY DEF CallState
<1> DEFINE pages == (total + size - 1) \div size
<1> HIDE DEF off, size, total
<1>2. /\ pages \in Int /\ total + size - 1 < size * (pages + 1)
  <2>1. total + size - 1 \in Nat
    BY <1>1
  <2>2. \A a \in Nat, n \in Nat \ {0} : a \div n \in Int /\ a < n * (a \div n + 1)
    OBVIOUS
  <2>3. QED
    BY <1>1, <2>1, <2>2
<1> HIDE DEF pages
<1>3. ASSUME NEW p \in Nat, size * p + size < total PROVE p + 1 < pages
  <2>1. size * (p + 2) < size * (pages + 1)
    <3>1. size * p + size + 1 <= total
      BY <1>1, <1>3
    <3>2. size * (p + 2) = size * p + size + size
      BY <1>1
    <3>3. QED
      BY <1>1, <1>2, <3>1, <3>2
  <2>2. \A n \in Nat \ {0}, a, b \in Int : n * a < n * b => a < b
    OBVIOUS
  <2>3. p + 2 < pages + 1
    BY <1>1, <1>2, <2>1, <2>2
  <2>4. QED
    BY <1>2, <2>3
<1>4. CASE q.by_row
  <2> DEFINE p == off \div size
  <2>1. p \in Nat /\ size * p <= off
    <3>1. \A a \in Nat, n \in Nat \ {0} : a \div n \in Nat /\ n * (a \div n) <= a
      OBVIOUS
    <3>2. QED
      BY <1>1, <3>1
  <2> HIDE DEF p
  <2>2. off + size < total
    BY <1>4 DEF RowOffset, off, size, total
  <2>3. size * p + size < total
    BY <1>1, <2>1, <2>2
  <2>4. QED
    BY <1>3, <1>4, <2>1, <2>3 DEF PageNumber, TotalPages, off, size, total, p, pages
<1>5. CASE ~q.by_row
  <2>1. off * size + size < total
    BY <1>5 DEF RowOffset, off, size, total
  <2>2. size * off + size < total
    BY <1>1, <2>1
  <2>3. QED
    BY <1>1, <1>3, <1>5, <2>2 DEF PageNumber, TotalPages, off, size, total, pages
<1>6. QED
  BY <1>1, <1>4, <1>5

LEMMA SubsetCard ==
  ASSUME NEW S, NEW T, IsFiniteSet(T), S \subseteq T
  PROVE  /\ IsFiniteSet(S) /\ Cardinality(S) \in Nat /\ Cardinality(T) \in Nat
         /\ Cardinality(S) <= Cardinality(T)
         /\ \A x \in T \ S : Cardinality(S) + 1 <= Cardinality(T)
<1>1. IsFiniteSet(S) /\ Cardinality(S) <= Cardinality(T)
  BY FS_Subset
<1>2. Cardinality(S) \in Nat /\ Cardinality(T) \in Nat
  BY <1>1, FS_CardinalityType
<1>3. ASSUME NEW x \in T \ S PROVE Cardinality(S) + 1 <= Cardinality(T)
  <2>1. Cardinality(S \cup {x}) = Cardinality(S) + 1
    BY <1>1, <1>3, FS_AddElement
  <2>2. S \cup {x} \in SUBSET T
    BY <1>3
  <2>3. QED
    BY <2>1, <2>2, FS_Subset
<1>4. QED
  BY <1>1, <1>2, <1>3

(* A row that is behind stays behind when rows are added.                  *)
LEMMA BehindGrows ==
  ASSUME iat \in [Jti -> Nat], iat' \in [Jti -> Nat],
         NEW R \in SUBSET Jti, NEW T \in SUBSET Jti, R \subseteq T, IsFiniteSet(T),
         \A k \in R : iat'[k] = iat[k], NEW j \in R, NEW n \in Nat
  PROVE  /\ Twin(j, R) => Twin(j, T)'
         /\ Behind(j, R, n) => Behind(j, T, n)'
<1>1. Twin(j, R) => Twin(j, T)'
  BY DEF Twin
<1> DEFINE A == {k \in R : iat[k] > iat[j]}
           B == {k \in T : iat'[k] > iat'[j]}
<1>2. A \subseteq B /\ B \subseteq T
  OBVIOUS
<1>3. IsFiniteSet(B)
  BY <1>2, FS_Subset
<1>4. Cardinality(A) \in Nat /\ Cardinality(B) \in Nat /\ Cardinality(A) <= Cardinality(B)
  BY <1>2, <1>3, SubsetCard
<1>5. Cardinality(A) >= n => Cardinality(B) >= n
  BY <1>4
<1>6. QED
  BY <1>1, <1>5 DEF Behind, Ahead

-----------------------------------------------------------------------------
(* Every step of a listing keeps what its call knows.                      *)

LEMMA EmptyStatus == <<>> \in StatusMaps /\ DOMAIN <<>> = {}
<1>1. <<>> \in [{} -> RowStatus]
  OBVIOUS
<1>2. QED
  BY <1>1 DEF StatusMaps

LEMMA StatusMapType ==
  ASSUME NEW f \in StatusMaps, NEW j \in Jti, NEW st \in RowStatus
  PROVE  [k \in DOMAIN f \cup {j} |-> IF k = j THEN st ELSE f[k]] \in StatusMaps
<1>1. PICK S \in SUBSET Jti : f \in [S -> RowStatus]
  BY DEF StatusMaps
<1>2. DOMAIN f = S /\ S \cup {j} \in SUBSET Jti
  BY <1>1
<1>3. [k \in S \cup {j} |-> IF k = j THEN st ELSE f[k]] \in [S \cup {j} -> RowStatus]
  BY <1>1
<1>4. QED
  BY <1>2, <1>3 DEF StatusMaps

LEMMA NoCallType ==
  /\ NoCall \in CallState
  /\ NoCall.pc = "idle" /\ NoCall.t0 = 0 /\ NoCall.offset = 0 /\ NoCall.status = <<>>
  /\ NoCall.dead0 = {} /\ NoCall.rows = {} /\ NoCall.there = {} /\ NoCall.seen = {}
  BY EmptyStatus DEF NoCall, CallState

LEMMA NoCallSound == ASSUME ListInv PROVE CallSound(NoCall)
<1>1. now \in Nat
  BY DEF ListInv, IInv, TypeOK
<1>2. QED
  BY <1>1, NoCallType, EmptyStatus DEF CallSound, BearerSound, EntriesSound

(* A step of a call, beside which nothing else changes.                    *)
LEMMA CallStep ==
  ASSUME ListInv, NEW c \in Caller, NEW k, CallSound(k),
         call' = [call EXCEPT ![c] = k], UNCHANGED <<vars, sub, iat>>
  PROVE  ListInv'
<1>1. IInv'
  BY NextInv DEF ListInv, vars
<1>2. IsFiniteSet(Audit)' /\ UNCHANGED <<sub, iat>>
  BY DEF ListInv, Audit, vars
<1>3. ASSUME NEW q, CallSound(q) PROVE CallSound(q)'
  <2>1. UNCHANGED <<now, minted, exp, metadata, denylist, sub, iat>>
    BY DEF vars
  <2>2. (\A s : RowsOf(s)' = RowsOf(s)) /\ DeadTokens' = DeadTokens
    BY <2>1 DEF RowsOf, DeadTokens
  <2>3. \A j, R : Twin(j, R)' = Twin(j, R) /\ \A n : Behind(j, R, n)' = Behind(j, R, n)
    BY <2>1 DEF Twin, Behind, Ahead
  <2>4. BearerSound(q)' = BearerSound(q)
    BY <2>1, <2>2 DEF BearerSound
  <2>5. EntriesSound(q)' = EntriesSound(q)
    BY <2>1 DEF EntriesSound, Denied
  <2>6. PICK R : R = RowsOf(sub[q.tok]) /\ R = RowsOf(sub[q.tok])'
    BY <2>1, <2>2
  <2>7. WalkSound(q) => WalkSound(q)'
    BY <2>3, <2>6 DEF WalkSound
  <2>8. QED
    BY <1>3, <2>4, <2>5, <2>7 DEF CallSound
<1>4. call' \in [Caller -> CallState] /\ \A d \in Caller : call'[d] = IF d = c THEN k ELSE call[d]
  BY DEF ListInv, CallSound
<1>5. ASSUME NEW d \in Caller PROVE CallSound(call[d])'
  <2>1. PICK q : q = IF d = c THEN k ELSE call[d]
    OBVIOUS
  <2>2. CallSound(q) /\ call'[d] = q
    BY <1>4, <2>1 DEF ListInv
  <2>3. CallSound(q)'
    BY <1>3, <2>2
  <2>4. QED
    BY <2>2, <2>3 DEF CallSound, BearerSound, EntriesSound, WalkSound, Missing
<1>6. QED
  BY <1>1, <1>2, <1>4, <1>5 DEF ListInv

LEMMA ArrivingSound ==
  ASSUME ListInv, NEW q \in CallState, q.tok \in minted, q.rows = {}, q.status = <<>>,
         q.there \cup q.seen \subseteq RowsOf(sub[q.tok]),
         \A j \in q.there \ q.seen : Behind(j, RowsOf(sub[q.tok]), RowOffset(q))
  PROVE  CallSound(Arriving(q))
<1> DEFINE pc == IF exp[q.tok] + Leeway < now THEN "unauthorized" ELSE "auth"
           k == [q EXCEPT !.t0 = now, !.dead0 = DeadTokens, !.pc = pc]
<1>1. now \in Nat /\ DeadTokens \subseteq Jti /\ exp[q.tok] \in Nat /\ Leeway \in Nat
  BY LeewayAssumption DEF ListInv, IInv, TypeOK, DeadTokens, DenyRow
<1>2. pc \in {"unauthorized", "auth"}
  OBVIOUS
<1>3. /\ k \in CallState /\ k.pc = pc /\ k.t0 = now /\ k.dead0 = DeadTokens
      /\ k.tok = q.tok /\ k.rows = {} /\ k.status = <<>> /\ k.there = q.there
      /\ k.seen = q.seen /\ k.offset = q.offset /\ k.by_row = q.by_row /\ k.size = q.size
  <2> HIDE DEF pc
  <2>1. QED
    BY <1>1, <1>2 DEF CallState
<1>4. k = Arriving(q)
  BY DEF Arriving
<1> HIDE DEF k
<1>5. RowOffset(k) = RowOffset(q) /\ Missing(k) = q.there \ q.seen
  BY <1>3 DEF RowOffset, Missing
<1>6. BearerSound(k)
  BY <1>1, <1>3 DEF BearerSound
<1>7. EntriesSound(k)
  BY <1>3, EmptyStatus DEF EntriesSound
<1>8. WalkSound(k)
  BY <1>3, <1>5 DEF WalkSound
<1>9. QED
  BY <1>3, <1>4, <1>6, <1>7, <1>8 DEF CallSound

LEMMA HeldMinted == ASSUME IInv PROVE held \subseteq minted
  BY DEF IInv, Tables, IssuedIsAudited, RowsSound, Recorded

LEMMA FirstPageInv ==
  ASSUME ListInv, NEW c \in Caller, ListMe(c) \/ Introduce(c)
  PROVE  ListInv'
<1>1. PICK q : q \in CallState /\ q.tok \in minted /\ q.rows = {} /\ q.status = <<>>
               /\ q.there = {} /\ q.seen = {} /\ Present(c, q)
  <2>1. held \subseteq minted /\ minted \subseteq Jti
    BY HeldMinted DEF ListInv, IInv, TypeOK
  <2>2. CASE ListMe(c)
    <3>1. PICK j \in held, limit \in Limits, by_row \in BOOLEAN :
            Present(c, [NoCall EXCEPT !.kind = "list", !.tok = j, !.by_row = by_row,
                                      !.size = PageSize(limit)])
      BY <2>2 DEF ListMe
    <3>2. PICK n \in Nat \ {0} : n = PageSize(limit)
      BY PageSizePositive
    <3> DEFINE q == [NoCall EXCEPT !.kind = "list", !.tok = j, !.by_row = by_row, !.size = n]
    <3>3. /\ q \in CallState /\ q.tok = j /\ q.rows = {} /\ q.status = <<>> /\ q.there = {}
          /\ q.seen = {}
      BY <2>1, NoCallType DEF CallState
    <3>4. QED
      BY <2>1, <3>1, <3>2, <3>3
  <2>3. CASE Introduce(c)
    <3>1. PICK j \in held : Present(c, [NoCall EXCEPT !.kind = "userinfo", !.tok = j])
      BY <2>3 DEF Introduce
    <3> DEFINE q == [NoCall EXCEPT !.kind = "userinfo", !.tok = j]
    <3>2. /\ q \in CallState /\ q.tok = j /\ q.rows = {} /\ q.status = <<>> /\ q.there = {}
          /\ q.seen = {}
      BY <2>1, NoCallType DEF CallState
    <3>3. QED
      BY <2>1, <3>1, <3>2
  <2>4. QED
    BY <2>2, <2>3
<1>2. CallSound(Arriving(q))
  BY <1>1, ArrivingSound
<1>3. QED
  BY <1>1, <1>2, CallStep DEF Present

LEMMA NextPageInv ==
  ASSUME ListInv, NEW c \in Caller, NextPage(c)
  PROVE  ListInv'
<1> DEFINE q == call[c]
           step == IF q.by_row THEN q.size ELSE 1
           k == [NoCall EXCEPT !.kind = "list", !.tok = q.tok, !.by_row = q.by_row,
                   !.size = q.size, !.there = q.there, !.seen = q.seen \cup q.rows,
                   !.offset = q.offset + step]
<1>1. CallSound(q) /\ q.pc = "ok" /\ q.kind = "list"
  BY DEF ListInv, NextPage
<1>2. /\ q.tok \in Jti \cup {NoJti} /\ q.offset \in Nat /\ q.by_row \in BOOLEAN
      /\ q.size \in Nat \ {0} /\ q.rows \subseteq Jti /\ q.there \subseteq Jti
      /\ q.seen \subseteq Jti
  BY <1>1 DEF CallSound, CallState
<1>3. q.tok \in minted /\ WalkSound(q)
  BY <1>1 DEF CallSound, BearerSound
<1>4. call' = [call EXCEPT ![c] = Arriving(k)] /\ UNCHANGED <<vars, sub, iat>>
  BY DEF NextPage
<1> HIDE DEF q
<1>5. step \in Nat /\ q.offset + step \in Nat
  BY <1>2
<1> HIDE DEF step
<1>6. /\ k \in CallState /\ k.tok = q.tok /\ k.by_row = q.by_row /\ k.size = q.size
      /\ k.there = q.there /\ k.seen = q.seen \cup q.rows /\ k.offset = q.offset + step
      /\ k.rows = {} /\ k.status = <<>>
  BY <1>2, <1>5, NoCallType DEF CallState
<1> HIDE DEF k
<1>7. RowOffset(k) = RowOffset(q) + q.size
  <2>1. CASE q.by_row
    BY <1>2, <1>6, <2>1 DEF RowOffset, step
  <2>2. CASE ~q.by_row
    <3>1. \A a, n \in Nat : (a + 1) * n = a * n + n
      OBVIOUS
    <3>2. QED
      BY <1>2, <1>6, <2>2, <3>1 DEF RowOffset, step
  <2>3. QED
    BY <2>1, <2>2
<1>8. \A j \in k.there \ k.seen : Behind(j, RowsOf(sub[k.tok]), RowOffset(k))
  BY <1>1, <1>3, <1>6, <1>7 DEF WalkSound, Missing
<1>9. CallSound(Arriving(k))
  BY <1>1, <1>3, <1>6, <1>8, ArrivingSound DEF WalkSound
<1>10. QED
  BY <1>4, <1>9, CallStep

(* A call that only moves on keeps all it has read.                        *)
LEMMA CallGoto ==
  ASSUME ListInv, NEW c \in Caller, CallSound(call[c]), call[c].pc \in {"auth", "claims", "entries"},
         NEW p \in {"unauthorized", "claims", "rows", "ok"},
         p \in {"claims", "rows"} =>
           call[c].pc = "auth" /\ call[c].tok \notin call[c].dead0,
         p = "rows" <=> (call[c].pc = "auth" /\ call[c].kind = "list" /\ p # "unauthorized"),
         p = "ok" => call[c].pc \in {"claims", "entries"},
         p = "ok" /\ call[c].pc = "claims" => call[c].kind # "list",
         call' = [call EXCEPT ![c].pc = p], UNCHANGED <<vars, sub, iat>>
  PROVE  ListInv'
<1> DEFINE q == call[c]
           k == [q EXCEPT !.pc = p]
<1>1. CallSound(q) /\ q \in CallState /\ call' = [call EXCEPT ![c] = k]
  BY DEF CallSound, ListInv
<1>2. /\ k \in CallState /\ k.pc = p /\ k.t0 = q.t0 /\ k.dead0 = q.dead0 /\ k.kind = q.kind
      /\ k.tok = q.tok /\ k.rows = q.rows /\ k.status = q.status /\ k.there = q.there
      /\ k.seen = q.seen /\ k.offset = q.offset /\ k.by_row = q.by_row /\ k.size = q.size
      /\ k.total = q.total
  BY <1>1 DEF CallState
<1> HIDE DEF k
<1>3. RowOffset(k) = RowOffset(q) /\ Missing(k) = Missing(q)
  BY <1>2 DEF RowOffset, Missing
<1>4. BearerSound(k)
  BY <1>1, <1>2 DEF CallSound, BearerSound
<1>5. EntriesSound(k)
  BY <1>1, <1>2 DEF CallSound, EntriesSound
<1>6. WalkSound(k)
  BY <1>1, <1>2, <1>3 DEF CallSound, WalkSound
<1>7. CallSound(k)
  BY <1>2, <1>4, <1>5, <1>6 DEF CallSound
<1>8. QED
  BY <1>1, <1>7, CallStep

LEMMA AuthenticateBearerInv ==
  ASSUME ListInv, NEW c \in Caller, AuthenticateBearer(c)
  PROVE  ListInv'
<1> DEFINE refused == Denied(call[c].tok) \/ sub[call[c].tok] = NoSub
           p == IF refused THEN "unauthorized"
                ELSE IF call[c].kind = "list" THEN "rows" ELSE "claims"
<1>1. /\ CallSound(call[c]) /\ call[c].pc = "auth" /\ call' = [call EXCEPT ![c].pc = p]
      /\ UNCHANGED <<vars, sub, iat>>
  BY DEF ListInv, AuthenticateBearer
<1>2. ~refused => call[c].tok \notin call[c].dead0
  BY <1>1 DEF CallSound, BearerSound, DeadTokens, Denied
<1> HIDE DEF refused
<1>3. QED
  BY <1>1, <1>2, CallGoto

LEMMA UserinfoClaimsInv ==
  ASSUME ListInv, NEW c \in Caller, UserinfoClaims(c)
  PROVE  ListInv'
<1>1. CallSound(call[c]) /\ call[c].pc = "claims" /\ call[c].kind # "list"
  BY DEF ListInv, UserinfoClaims, CallSound, BearerSound
<1>2. QED
  BY <1>1, CallGoto DEF UserinfoClaims

(* Of a page and what it skips: whoever had at least off rows ahead is on  *)
(* the page or has off + size rows ahead.                                  *)
LEMMA PageTakesTheNext ==
  ASSUME iat \in [Jti -> Nat], NEW R \in SUBSET Jti, IsFiniteSet(R),
         NEW off \in Nat, NEW size \in Nat \ {0}, NEW S \in Pages(R, off, size),
         NEW j \in R, Behind(j, R, off), j \notin S
  PROVE  Behind(j, R, off + size)
<1>1. PICK skipped \in SUBSET (R \ S) :
        LET rest == R \ (S \cup skipped)
            Before(A, B) == \A a \in A, b \in B : iat[a] >= iat[b]
        IN /\ Cardinality(skipped) = Min({off, Cardinality(R)})
           /\ Cardinality(S) = Min({size, Cardinality(R \ skipped)})
           /\ Before(skipped, S \cup rest)
           /\ Before(S, rest)
  BY DEF Pages
<1> DEFINE rest == R \ (S \cup skipped)
           A == {k \in R : iat[k] > iat[j]}
<1>2. S \subseteq R /\ skipped \subseteq R /\ S \cap skipped = {} /\ A \subseteq R
  BY DEF Pages
<1>3. /\ \A a \in skipped, b \in S \cup rest : iat[a] >= iat[b]
      /\ \A a \in S, b \in rest : iat[a] >= iat[b]
  BY <1>1
<1>4. /\ IsFiniteSet(skipped) /\ IsFiniteSet(S) /\ IsFiniteSet(A) /\ IsFiniteSet(R \ skipped)
      /\ Cardinality(skipped) \in Nat /\ Cardinality(S) \in Nat /\ Cardinality(A) \in Nat
      /\ Cardinality(R) \in Nat /\ Cardinality(R \ skipped) \in Nat
  <2>1. R \ skipped \subseteq R
    OBVIOUS
  <2>2. QED
    BY <1>2, <2>1, SubsetCard
<1>5. /\ Cardinality(skipped) = IF off <= Cardinality(R) THEN off ELSE Cardinality(R)
      /\ Cardinality(S) = IF size <= Cardinality(R \ skipped) THEN size
                                                              ELSE Cardinality(R \ skipped)
  BY <1>1, <1>4, MinOfTwo
<1> SUFFICES ASSUME ~Twin(j, R) PROVE Cardinality(A) >= off + size
  BY DEF Behind, Ahead
<1>6. Cardinality(A) >= off
  BY DEF Behind, Ahead
<1>7. \A k \in R : k # j => iat[k] # iat[j]
  BY DEF Twin
<1>8. j \notin skipped
  <2> SUFFICES ASSUME j \in skipped PROVE FALSE
    OBVIOUS
  <2>1. A \subseteq skipped
    BY <1>2, <1>3
  <2>2. j \in skipped \ A
    OBVIOUS
  <2>3. Cardinality(A) + 1 <= Cardinality(skipped)
    BY <1>4, <2>1, <2>2, SubsetCard
  <2>4. QED
    BY <1>4, <1>5, <1>6, <2>3
<1>9. skipped \cup S \subseteq A
  BY <1>2, <1>3, <1>7, <1>8
<1>10. Cardinality(skipped) = off /\ Cardinality(S) = size
  <2>1. j \in R \ skipped /\ S \subseteq R \ skipped /\ j \in (R \ skipped) \ S
    BY <1>2, <1>8
  <2>2. Cardinality(skipped) + 1 <= Cardinality(R)
    BY <1>2, <2>1, SubsetCard
  <2>3. Cardinality(S) + 1 <= Cardinality(R \ skipped)
    BY <1>4, <2>1, SubsetCard
  <2>4. QED
    BY <1>4, <1>5, <2>2, <2>3
<1>11. Cardinality(skipped \cup S) = off + size
  <2>1. skipped \cap S = {}
    BY <1>2
  <2>2. Cardinality(skipped \cup S) =
          Cardinality(skipped) + Cardinality(S) - Cardinality(skipped \cap S)
    BY <1>4, FS_Union
  <2>3. Cardinality(skipped \cap S) = 0
    BY <2>1, FS_EmptySet
  <2>4. QED
    BY <1>4, <1>10, <2>2, <2>3
<1>12. Cardinality(skipped \cup S) <= Cardinality(A)
  BY <1>4, <1>9, FS_Subset
<1>13. QED
  BY <1>4, <1>11, <1>12

LEMMA RowsFinite ==
  ASSUME ListInv, NEW s
  PROVE  RowsOf(s) \in SUBSET Jti /\ IsFiniteSet(RowsOf(s))
<1>1. RowsOf(s) \subseteq Audit /\ Audit \subseteq Jti
  BY DEF RowsOf, Audit, ListInv, IInv, TypeOK, Row
<1>2. QED
  BY <1>1, FS_Subset DEF ListInv

LEMMA RowOffsetType == ASSUME NEW q \in CallState PROVE RowOffset(q) \in Nat
<1>1. \A a \in Nat, n \in Nat \ {0} : a * n \in Nat
  OBVIOUS
<1>2. q.offset \in Nat /\ q.size \in Nat \ {0}
  BY DEF CallState
<1>3. QED
  BY <1>1, <1>2 DEF RowOffset

LEMMA SelectRowsInv ==
  ASSUME ListInv, NEW c \in Caller, SelectRows(c)
  PROVE  ListInv'
<1> DEFINE q == call[c]
<1>1. PICK all : all = RowsOf(sub[q.tok])
  OBVIOUS
<1> DEFINE there == IF q.offset = 0 THEN all ELSE q.there
<1>2. PICK S \in Pages(all, RowOffset(q), q.size) :
        call' = [call EXCEPT ![c] = [q EXCEPT !.rows = S, !.pc = "count", !.there = there]]
  BY <1>1 DEF SelectRows, ListInv
<1>3. CallSound(q) /\ q \in CallState /\ q.pc = "rows" /\ UNCHANGED <<vars, sub, iat>>
  BY DEF ListInv, SelectRows
<1>4. all \in SUBSET Jti /\ IsFiniteSet(all) /\ S \subseteq all /\ iat \in [Jti -> Nat]
  BY <1>1, <1>2, RowsFinite DEF Pages, ListInv
<1>5. RowOffset(q) \in Nat /\ q.size \in Nat \ {0}
  BY <1>3, RowOffsetType DEF CallState
<1> DEFINE k == [q EXCEPT !.rows = S, !.pc = "count", !.there = there]
<1>6. BearerSound(q) /\ EntriesSound(q) /\ WalkSound(q)
  BY <1>3 DEF CallSound
<1>7. there \subseteq all /\ q.seen \subseteq all /\ q.rows = {}
  BY <1>1, <1>3, <1>6 DEF WalkSound
<1>8. /\ k \in CallState /\ k.pc = "count" /\ k.t0 = q.t0 /\ k.dead0 = q.dead0
      /\ k.tok = q.tok /\ k.rows = S /\ k.status = q.status /\ k.there = there
      /\ k.seen = q.seen /\ k.offset = q.offset /\ k.by_row = q.by_row /\ k.size = q.size
  <2> HIDE DEF there, q
  <2>1. QED
    BY <1>3, <1>4, <1>7 DEF CallState
<1> HIDE DEF k
<1>9. RowOffset(k) = RowOffset(q) /\ Missing(k) = there \ (q.seen \cup S)
  BY <1>8 DEF RowOffset, Missing
<1>10. ASSUME NEW j \in there \ (q.seen \cup S) PROVE Behind(j, all, RowOffset(q) + q.size)
  <2>1. j \in all /\ j \notin S
    BY <1>7, <1>10
  <2>2. Behind(j, all, RowOffset(q))
    <3>1. CASE q.offset = 0
      <4>1. RowOffset(q) = 0
        BY <1>5, <3>1 DEF RowOffset
      <4>2. Ahead(j, all) \subseteq all
        BY DEF Ahead
      <4>3. Cardinality(Ahead(j, all)) \in Nat
        BY <1>4, <4>2, SubsetCard
      <4>4. QED
        BY <4>1, <4>3 DEF Behind
    <3>2. CASE q.offset # 0
      <4>1. j \in Missing(q)
        BY <1>7, <1>10, <3>2 DEF Missing
      <4>2. QED
        BY <1>1, <1>3, <1>6, <4>1 DEF WalkSound
    <3>3. QED
      BY <3>1, <3>2
  <2>3. QED
    BY <1>2, <1>4, <1>5, <2>1, <2>2, PageTakesTheNext
<1>11. BearerSound(k)
  BY <1>3, <1>6, <1>8 DEF BearerSound
<1>12. DOMAIN q.status = {}
  BY <1>6, <1>7 DEF EntriesSound
<1>13. EntriesSound(k)
  BY <1>8, <1>12 DEF EntriesSound
<1>14. WalkSound(k)
  BY <1>1, <1>4, <1>7, <1>8, <1>9, <1>10 DEF WalkSound
<1>15. CallSound(k)
  BY <1>8, <1>11, <1>13, <1>14 DEF CallSound
<1>16. QED
  BY <1>2, <1>3, <1>15, CallStep DEF k

LEMMA SelectCountInv ==
  ASSUME ListInv, NEW c \in Caller, SelectCount(c)
  PROVE  ListInv'
<1> DEFINE q == call[c]
<1>1. PICK all : all = RowsOf(sub[q.tok])
  OBVIOUS
<1>2. PICK n : n = Cardinality(all)
  OBVIOUS
<1> DEFINE k == [q EXCEPT !.total = n, !.read = now, !.pc = "entries"]
<1>3. /\ CallSound(q) /\ q \in CallState /\ q.pc = "count" /\ UNCHANGED <<vars, sub, iat>>
      /\ call' = [call EXCEPT ![c] = k]
  BY <1>1, <1>2 DEF ListInv, SelectCount
<1>4. all \in SUBSET Jti /\ IsFiniteSet(all) /\ n \in Nat /\ now \in Nat
  BY <1>1, <1>2, RowsFinite, FS_CardinalityType DEF ListInv, IInv, TypeOK
<1>5. BearerSound(q) /\ EntriesSound(q) /\ WalkSound(q) /\ RowOffset(q) \in Nat /\ q.size \in Nat
  BY <1>3, RowOffsetType DEF CallSound, CallState
<1>6. /\ k \in CallState /\ k.pc = "entries" /\ k.t0 = q.t0 /\ k.dead0 = q.dead0
      /\ k.tok = q.tok /\ k.rows = q.rows /\ k.status = q.status /\ k.there = q.there
      /\ k.seen = q.seen /\ k.offset = q.offset /\ k.by_row = q.by_row /\ k.size = q.size
      /\ k.total = n /\ k.read = now /\ k.kind = q.kind
  <2> HIDE DEF q
  <2>1. QED
    BY <1>3, <1>4 DEF CallState
<1> HIDE DEF k
<1>7. RowOffset(k) = RowOffset(q) /\ Missing(k) = Missing(q)
  BY <1>6 DEF RowOffset, Missing
<1>8. ASSUME NEW j \in Missing(q), Behind(j, all, RowOffset(q) + q.size)
      PROVE  Twin(j, all) \/ RowOffset(q) + q.size < n
  <2> DEFINE A == Ahead(j, all)
  <2>1. j \in all /\ iat[j] \in Nat
    BY <1>1, <1>4, <1>5, <1>8 DEF WalkSound, Missing, ListInv
  <2>2. A \subseteq all /\ j \in all \ A
    BY <2>1 DEF Ahead
  <2>3. Cardinality(A) \in Nat /\ Cardinality(A) + 1 <= n
    BY <1>2, <1>4, <2>2, SubsetCard
  <2> HIDE DEF A
  <2>4. Twin(j, all) \/ Cardinality(A) >= RowOffset(q) + q.size
    BY <1>8 DEF Behind, A
  <2>5. QED
    BY <1>4, <1>5, <2>3, <2>4
<1>9. BearerSound(k)
  BY <1>3, <1>5, <1>6 DEF BearerSound
<1>10. EntriesSound(k)
  BY <1>5, <1>6 DEF EntriesSound, BearerSound
<1>11. WalkSound(k)
  BY <1>1, <1>3, <1>5, <1>6, <1>7, <1>8 DEF WalkSound
<1>12. CallSound(k)
  BY <1>6, <1>9, <1>10, <1>11 DEF CallSound
<1>13. QED
  BY <1>3, <1>12, CallStep

LEMMA SelectEntryInv ==
  ASSUME ListInv, NEW c \in Caller, SelectEntry(c)
  PROVE  ListInv'
<1> DEFINE q == call[c]
           seen == DOMAIN q.status
<1>1. CallSound(q) /\ q \in CallState /\ q.pc = "entries" /\ UNCHANGED <<vars, sub, iat>>
  BY DEF ListInv, SelectEntry
<1>2. CASE call' = [call EXCEPT ![c].pc = "ok"]
  BY <1>1, <1>2, CallGoto
<1>3. ASSUME NEW j \in q.rows \ seen, NEW st \in RowStatus,
             st = IF Denied(j) THEN "revoked"
                  ELSE IF exp[j] < q.read THEN "expired" ELSE "active",
             call' = [call EXCEPT ![c].status =
                       [i \in seen \cup {j} |-> IF i = j THEN st ELSE q.status[i]]]
      PROVE  ListInv'
  <2>1. PICK f : f = [i \in seen \cup {j} |-> IF i = j THEN st ELSE q.status[i]]
    OBVIOUS
  <2> DEFINE k == [q EXCEPT !.status = f]
  <2>2. call' = [call EXCEPT ![c] = k]
    BY <1>1, <1>3, <2>1 DEF ListInv
  <2>3. /\ j \in Jti /\ q.status \in StatusMaps /\ exp[j] \in Nat /\ q.read \in Nat
        /\ q.t0 \in Nat /\ q.t0 <= q.read
    BY <1>1, <1>3 DEF CallState, ListInv, IInv, TypeOK, CallSound, EntriesSound
  <2>4. f \in StatusMaps
    BY <2>1, <2>3, StatusMapType
  <2>5. /\ k \in CallState /\ k.pc = "entries" /\ k.t0 = q.t0 /\ k.dead0 = q.dead0
        /\ k.tok = q.tok /\ k.rows = q.rows /\ k.status = f /\ k.there = q.there
        /\ k.seen = q.seen /\ k.offset = q.offset /\ k.by_row = q.by_row /\ k.size = q.size
        /\ k.total = q.total /\ k.read = q.read /\ k.kind = q.kind
    <3> HIDE DEF q
    <3>1. QED
      BY <1>1, <2>4 DEF CallState
  <2> HIDE DEF k
  <2>6. RowOffset(k) = RowOffset(q) /\ Missing(k) = Missing(q)
    BY <2>5 DEF RowOffset, Missing
  <2>7. BearerSound(k)
    BY <1>1, <2>5 DEF CallSound, BearerSound
  <2>8. st = "active" => j \notin q.dead0 /\ exp[j] >= q.t0
    BY <1>1, <1>3, <2>3 DEF CallSound, BearerSound, DeadTokens, Denied
  <2>9. EntriesSound(k)
    <3>1. DOMAIN f = seen \cup {j} /\ f[j] = st /\ \A i \in seen : i # j => f[i] = q.status[i]
      BY <2>1
    <3> HIDE DEF q
    <3>2. QED
      BY <1>1, <1>3, <2>3, <2>5, <2>8, <3>1 DEF CallSound, EntriesSound
  <2>10. WalkSound(k)
    BY <1>1, <2>5, <2>6 DEF CallSound, WalkSound
  <2>11. CallSound(k)
    BY <2>5, <2>7, <2>9, <2>10 DEF CallSound
  <2>12. QED
    BY <1>1, <2>2, <2>11, CallStep
<1>4. QED
  BY <1>2, <1>3 DEF SelectEntry, RowStatus

LEMMA CallEndsInv ==
  ASSUME ListInv, NEW c \in Caller, CallEnds(c)
  PROVE  ListInv'
  BY NoCallSound, CallStep DEF CallEnds

-----------------------------------------------------------------------------
(* A step of the service under a listing.                                  *)

(* Tokens are never unsigned and their claims never change.                *)
LEMMA TokensGrow ==
  ASSUME IInv, Next
  PROVE  /\ minted \subseteq minted' /\ now <= now' /\ now' \in Nat
         /\ \A j \in minted : exp'[j] = exp[j]
         /\ \A j \in minted' \ minted : \E q \in Request : req'[q].new = j
<1>1. CASE Tick
  BY <1>1 DEF Tick, IInv, TypeOK
<1>2. ASSUME NEW r \in Request, Generate(r) \/ (SelectChain(r) /\ minted' # minted)
      PROVE  \E j \in Jti \ minted, e \in Nat :
               /\ minted' = minted \cup {j} /\ exp' = [exp EXCEPT ![j] = e]
               /\ req'[r].new = j /\ now' = now
  <2>1. CASE Generate(r)
    <3>1. PICK life \in Lifetimes \ {0}, j \in Jti \ minted :
            /\ minted' = minted \cup {j} /\ exp' = [exp EXCEPT ![j] = now + life]
            /\ req' = [req EXCEPT ![r] = [Idle EXCEPT !.op = "generate", !.pc = "insert", !.new = j]]
            /\ now' = now
      BY <2>1 DEF Generate
    <3>2. now + life \in Nat
      BY LifetimesAssumption DEF IInv, TypeOK
    <3>3. req'[r].new = j
      BY <3>1, IdleType DEF IInv, TypeOK, ReqState
    <3>4. QED
      BY <3>1, <3>2, <3>3
  <2>2. CASE SelectChain(r) /\ minted' # minted
    <3>1. PICK life \in Lifetimes \ {0}, j \in Jti \ minted :
            /\ minted' = minted \cup {j} /\ exp' = [exp EXCEPT ![j] = req[r].t0 + life]
            /\ req' = [req EXCEPT ![r] =
                 [@ EXCEPT !.pc = "tx", !.new = j,
                    !.root = IF Recorded(req[r].tok) THEN RowOf(req[r].tok).original_jwt_uuid
                             ELSE req[r].tok,
                    !.prev = IF Recorded(req[r].tok) THEN req[r].tok ELSE NoJti]]
            /\ now' = now
      BY <2>2 DEF SelectChain
    <3>2. req[r].t0 + life \in Nat
      BY LifetimesAssumption DEF IInv, TypeOK, ReqState
    <3>3. req'[r].new = j
      <4>1. req[r] \in ReqState
        BY DEF IInv, TypeOK
      <4>2. \A root, prev : [req[r] EXCEPT !.pc = "tx", !.new = j, !.root = root, !.prev = prev].new = j
        BY <4>1 DEF ReqState
      <4>3. QED
        BY <3>1, <4>2 DEF IInv, TypeOK
    <3>4. QED
      BY <3>1, <3>2, <3>3
  <2>3. QED
    BY <1>2, <2>1, <2>2
<1>3. ASSUME NEW r \in Request, Generate(r) \/ (SelectChain(r) /\ minted' # minted)
      PROVE  /\ minted \subseteq minted' /\ now <= now' /\ now' \in Nat
             /\ \A j \in minted : exp'[j] = exp[j]
             /\ \A j \in minted' \ minted : \E q \in Request : req'[q].new = j
  BY <1>2, <1>3 DEF IInv, TypeOK
<1>4. ASSUME NEW r \in Request, Arrive(r) \/ Advance(r) \/ Abandon(r),
             ~(Generate(r) \/ (SelectChain(r) /\ minted' # minted))
      PROVE  minted' = minted /\ exp' = exp /\ now' = now
  <2>1. CASE SelectChain(r)
    <3>1. minted' = minted
      BY <1>4, <2>1
    <3>2. \A j \in Jti \ minted : minted' # minted \cup {j}
      BY <3>1
    <3>3. QED
      BY <2>1, <3>1, <3>2 DEF SelectChain
  <2>2. CASE ~SelectChain(r)
    BY <1>4, <2>2 DEF Arrive, Refuse, Validate, Introspect, Check, Revoke, RevokeByJti,
                      Extend, Advance, InsertMetadata, InsertDenylist, AnswerLookup,
                      SelectRow, ExtendLookup, TxInserts, Commit, Reply, Abandon
  <2>3. QED
    BY <2>1, <2>2
<1>5. QED
  BY <1>1, <1>3, <1>4 DEF Next, IInv, TypeOK

(* At most one row is added by a step.                                     *)
LEMMA AuditFinite ==
  ASSUME Next, IsFiniteSet(Audit)
  PROVE  IsFiniteSet(Audit)'
<1>1. metadata' = metadata \/ \E m : metadata' = metadata \cup {m}
  BY DEF Next, Tick, Arrive, Refuse, Generate, Validate, Introspect, Check, Revoke,
         RevokeByJti, Extend, Advance, InsertMetadata, InsertDenylist, AnswerLookup, SelectRow,
         ExtendLookup, SelectChain, TxInserts, Commit, Reply, Abandon, tables
<1>2. CASE metadata' = metadata
  BY <1>2 DEF Audit
<1>3. ASSUME NEW m, metadata' = metadata \cup {m} PROVE IsFiniteSet(Audit)'
  <2>1. Audit' = Audit \cup {m.jwt_uuid}
    BY <1>3 DEF Audit
  <2>2. QED
    BY <2>1, FS_AddElement
<1>4. QED
  BY <1>1, <1>2, <1>3

LEMMA ServiceInv ==
  ASSUME ListInv, Service
  PROVE  ListInv'
<1>1. IInv /\ IInv' /\ Next
  BY NextInv DEF ListInv, Service
<1>2. /\ minted \subseteq minted' /\ now <= now' /\ now \in Nat /\ now' \in Nat
      /\ \A j \in minted : exp'[j] = exp[j]
      /\ \A j \in minted' \ minted : \E q \in Request : req'[q].new = j
      /\ metadata \subseteq metadata' /\ denylist \subseteq denylist'
      /\ minted \subseteq Jti /\ minted' \subseteq Jti
  BY <1>1, TokensGrow, TablesGrow DEF IInv, TypeOK
<1>3. IsFiniteSet(Audit)'
  BY <1>1, AuditFinite DEF ListInv
<1>4. sub' \in [Jti -> Subject \cup {NoSub}] /\ \A j \in minted : sub'[j] = sub[j]
  <2>1. PICK s \in Subject \cup {NoSub} :
          sub' = [j \in Jti |-> IF j \in minted' \ minted THEN s ELSE sub[j]]
    BY DEF Service
  <2>2. QED
    BY <1>2, <2>1 DEF ListInv
<1>5. iat' \in [Jti -> Nat] /\ \A j \in minted : iat'[j] = iat[j]
  <2> DEFINE At(j) == IF j \notin minted' \ minted THEN iat[j]
                      ELSE IF parent'[j] = NoJti THEN now
                      ELSE req[CHOOSE q \in Request : req'[q].new = j].t0
  <2>1. iat' = [j \in Jti |-> At(j)]
    BY DEF Service
  <2>2. ASSUME NEW j \in Jti PROVE At(j) \in Nat
    <3>1. CASE j \in minted' \ minted
      <4>1. (CHOOSE q \in Request : req'[q].new = j) \in Request
        BY <1>2, <3>1
      <4>2. \A q \in Request : req[q].t0 \in Nat
        BY <1>1 DEF IInv, TypeOK, ReqState
      <4>3. QED
        BY <1>2, <3>1, <4>1, <4>2
    <3>2. CASE j \notin minted' \ minted
      BY <3>2 DEF ListInv
    <3>3. QED
      BY <3>1, <3>2
  <2>3. \A j \in minted : At(j) = iat[j]
    OBVIOUS
  <2> HIDE DEF At
  <2>4. QED
    BY <1>2, <2>1, <2>2, <2>3
<1>6. ASSUME NEW s PROVE RowsOf(s) \subseteq RowsOf(s)' /\ RowsOf(s) \subseteq minted
  <2>1. \A m \in metadata : m.jwt_uuid \in minted
    BY <1>1 DEF IInv, Tables, RowsSound
  <2>2. QED
    BY <1>2, <1>4, <2>1 DEF RowsOf
<1>7. ASSUME NEW c \in Caller, NEW q, q = call[c] PROVE CallSound(q)'
  <2>1. CallSound(q) /\ q \in CallState
    BY <1>7 DEF ListInv
  <2>2. BearerSound(q)'
    <3>1. q.t0 \in Nat /\ DeadTokens \subseteq DeadTokens'
      BY <1>2, <2>1 DEF CallState, DeadTokens
    <3>2. q.pc # "idle" => q.tok \in minted /\ exp'[q.tok] = exp[q.tok]
      BY <1>2, <2>1 DEF CallSound, BearerSound
    <3>3. QED
      BY <1>2, <2>1, <3>1, <3>2 DEF CallSound, BearerSound
  <2>3. (WalkSound(q)' /\ q.rows \subseteq minted) \/ q.pc = "idle"
    <3> SUFFICES ASSUME q.pc # "idle" PROVE WalkSound(q)' /\ q.rows \subseteq minted
      OBVIOUS
    <3>1. PICK R : R = RowsOf(sub[q.tok])
      OBVIOUS
    <3>2. PICK T : T = RowsOf(sub[q.tok])'
      OBVIOUS
    <3>3. sub'[q.tok] = sub[q.tok]
      BY <1>4, <2>1 DEF CallSound, BearerSound
    <3>4. R \subseteq T /\ R \subseteq minted
      <4>1. PICK s : s = sub[q.tok]
        OBVIOUS
      <4>2. R = RowsOf(s) /\ T = RowsOf(s)'
        BY <3>1, <3>2, <3>3, <4>1 DEF RowsOf
      <4>3. QED
        BY <1>6, <4>2
    <3>5. T \in SUBSET Jti /\ IsFiniteSet(T)
      <4>1. T \subseteq Audit' /\ Audit' \subseteq Jti
        BY <1>1, <3>2 DEF RowsOf, Audit, IInv, TypeOK, Row
      <4>2. QED
        BY <1>3, <4>1, FS_Subset
    <3>6. \A j \in R : iat'[j] = iat[j]
      BY <1>5, <3>4
    <3>7. RowOffset(q) \in Nat /\ RowOffset(q) + q.size \in Nat
      <4>1. q.size \in Nat
        BY <2>1 DEF CallState
      <4>2. QED
        BY <2>1, <4>1, RowOffsetType
    <3>8. WalkSound(q) /\ Missing(q) \subseteq R
      BY <2>1, <3>1 DEF CallSound, WalkSound, Missing
    <3>9. \A j \in R, n \in Nat :
            (Twin(j, R) => Twin(j, T)') /\ (Behind(j, R, n) => Behind(j, T, n)')
      BY <1>2, <1>5, <3>4, <3>5, <3>6, BehindGrows DEF ListInv
    <3>10. q.there \cup q.seen \cup q.rows \subseteq R
      BY <3>1, <3>8 DEF WalkSound
    <3>11. WalkSound(q)'
      BY <3>1, <3>2, <3>4, <3>7, <3>8, <3>9, <3>10 DEF WalkSound
    <3>12. QED
      BY <3>4, <3>10, <3>11
  <2>4. q.rows \subseteq minted /\ (q.pc # "idle" => WalkSound(q)')
    BY <2>1, <2>3 DEF CallSound, EntriesSound
  <2>5. EntriesSound(q)'
    BY <1>2, <2>1, <2>4 DEF CallSound, EntriesSound, Denied
  <2>6. QED
    BY <2>1, <2>2, <2>4, <2>5 DEF CallSound
<1>8. UNCHANGED call
  BY DEF Service
<1>9. ASSUME NEW c \in Caller PROVE CallSound(call[c])'
  <2>1. PICK q : q = call[c]
    OBVIOUS
  <2>2. CallSound(q)' /\ call'[c] = q
    BY <1>7, <1>8, <2>1
  <2>3. QED
    BY <2>2 DEF CallSound, BearerSound, EntriesSound, WalkSound, Missing
<1>10. QED
  BY <1>1, <1>3, <1>4, <1>5, <1>8, <1>9 DEF ListInv

LEMMA ListInitInv == ListInit => ListInv
<1> SUFFICES ASSUME ListInit PROVE ListInv
  OBVIOUS
<1>1. IInv
  BY InitInv DEF ListInit
<1>2. IsFiniteSet(Audit)
  <2>1. Audit = {}
    BY DEF ListInit, Init, Audit
  <2>2. QED
    BY <2>1, FS_EmptySet
<1>3. sub \in [Jti -> Subject \cup {NoSub}] /\ iat \in [Jti -> Nat]
  BY DEF ListInit
<1>4. now \in Nat
  BY <1>1 DEF IInv, TypeOK
<1>5. CallSound(NoCall)
  BY <1>4, NoCallType, EmptyStatus DEF CallSound, BearerSound, EntriesSound
<1>6. QED
  BY <1>1, <1>2, <1>3, <1>5, NoCallType DEF ListInit, ListInv

LEMMA ListNextInv ==
  ASSUME ListInv, [ListNext]_listVars
  PROVE  ListInv'
<1>1. CASE UNCHANGED listVars
  <2>1. UNCHANGED <<vars, sub, iat>> /\ UNCHANGED call
    BY <1>1 DEF listVars
  <2>2. CASE Caller = {}
    <3>1. IInv'
      BY <2>1, NextInv DEF ListInv
    <3>2. IsFiniteSet(Audit)'
      BY <2>1 DEF ListInv, Audit, vars
    <3>3. QED
      BY <2>1, <2>2, <3>1, <3>2 DEF ListInv
  <2>3. ASSUME NEW c \in Caller PROVE ListInv'
    <3>1. PICK k : k = call[c]
      OBVIOUS
    <3>2. CallSound(k) /\ call' = [call EXCEPT ![c] = k]
      BY <2>1, <3>1 DEF ListInv
    <3>3. QED
      BY <2>1, <3>2, CallStep
  <2>4. QED
    BY <2>2, <2>3
<1>2. QED
  BY <1>1, ServiceInv, FirstPageInv, NextPageInv, AuthenticateBearerInv, UserinfoClaimsInv,
     SelectRowsInv, SelectCountInv, SelectEntryInv, CallEndsInv
  DEF ListNext, Userinfo, CustomUserinfo

LEMMA ListInvariant == ListSpec => []ListInv
  BY ListInitInv, ListNextInv, PTL DEF ListSpec

(* authenticate_bearer's one look at the denylist is enough: no answer     *)
(* goes to a token that was dead, or expired beyond the leeway, when the   *)
(* request came.                                                           *)
THEOREM NoAnswerToDeadBearers == ListSpec => []BearerLive
<1>1. ASSUME ListInv PROVE BearerLive
  BY <1>1 DEF ListInv, CallSound, BearerSound, BearerLive
<1>2. QED
  BY <1>1, ListInvariant, PTL

(* list_for_subject's per-row SELECTs give every row a status that was     *)
(* true at some time of the request.                                       *)
THEOREM StatusesTrue == ListSpec => []ListedStatusTrue
<1>1. ASSUME ListInv PROVE ListedStatusTrue
  BY <1>1 DEF ListInv, CallSound, EntriesSound, ListedStatusTrue
<1>2. QED
  BY <1>1, ListInvariant, PTL

(* LIMIT and OFFSET over a table that grows: a walk to the last page of    *)
(* list/me shows every row there was, for any page size, by pages or rows. *)
THEOREM WalksSeeEverything == ListSpec => []WalkSeesAll
<1>1. ASSUME ListInv PROVE WalkSeesAll
  <2>1. ASSUME NEW c \in Caller, NEW q, q = call[c], q.kind = "list", q.pc = "ok"
        PROVE  LET mine == RowsOf(sub[q.tok])
                   shown == q.seen \cup q.rows
               IN /\ shown \subseteq mine
                  /\ PageNumber(q) + 1 >= TotalPages(q) =>
                       \A j \in q.there \ shown : \E k \in mine \ {j} : iat[k] = iat[j]
    <3>1. q \in CallState /\ WalkSound(q)
      BY <1>1, <2>1 DEF ListInv, CallSound
    <3>2. PageNumber(q) \in Int /\ TotalPages(q) \in Int
      <4>1. q.offset \in Nat /\ q.size \in Nat \ {0} /\ q.total \in Nat
        BY <3>1 DEF CallState
      <4>2. \A a \in Nat, n \in Nat \ {0} : a \div n \in Int
        OBVIOUS
      <4>3. q.total + q.size - 1 \in Nat
        BY <4>1
      <4>4. QED
        BY <4>1, <4>2, <4>3 DEF PageNumber, TotalPages
    <3>3. PageNumber(q) + 1 >= TotalPages(q) => ~(RowOffset(q) + q.size < q.total)
      BY <3>1, <3>2, LastPage
    <3>4. QED
      BY <2>1, <3>1, <3>3 DEF WalkSound, Missing, Twin
  <2>2. QED
    BY <2>1 DEF WalkSeesAll
<1>2. QED
  BY <1>1, ListInvariant, PTL

(* Listings and userinfo only read: the service beside them is the service *)
(* of JwtService, with all its promises, the refinement of the ledger and  *)
(* the single credit for a revocation included.                            *)
LEMMA ReadersHarmless == ListSpec => Spec
<1>1. ListInit => Init
  BY DEF ListInit
<1>2. [ListNext]_listVars => [Next]_vars
  <2>1. ASSUME NEW c \in Caller, ListMe(c) \/ Userinfo(c) \/ CustomUserinfo(c)
        PROVE  UNCHANGED vars
    BY <2>1 DEF ListMe, Userinfo, CustomUserinfo, Introduce, Present
  <2>2. ASSUME NEW c \in Caller,
               \/ NextPage(c) \/ AuthenticateBearer(c) \/ UserinfoClaims(c) \/ SelectRows(c)
               \/ SelectCount(c) \/ SelectEntry(c) \/ CallEnds(c)
        PROVE  UNCHANGED vars
    BY <2>2 DEF NextPage, AuthenticateBearer, UserinfoClaims, SelectRows, SelectCount,
                SelectEntry, CallEnds
  <2>3. Service => Next
    BY DEF Service
  <2>4. UNCHANGED listVars => UNCHANGED vars
    BY DEF listVars
  <2>5. QED
    BY <2>1, <2>2, <2>3, <2>4 DEF ListNext
<1>3. QED
  BY <1>1, <1>2, PTL DEF ListSpec, Spec
=============================================================================
