----------------------------- MODULE JwtService -----------------------------
(***************************************************************************)
(* The custom-JWT service: generate, validate, introspect, revoke, revoke  *)
(* by jti and extend, running concurrently on any number of TIM replicas   *)
(* over the two Postgres tables custom_jwt.jwt_metadata and                *)
(* custom_jwt.denylist (jwt/service.rs, introspect/mod.rs).                *)
(*                                                                         *)
(* A request is a sequence of steps, one per await point: everything the   *)
(* handler does between two awaits is one action.  At each await the       *)
(* request can be abandoned (TimeoutLayer, a dropped connection, a         *)
(* database error, a crash of the replica); an open transaction is then    *)
(* rolled back by sqlx.                                                    *)
(*                                                                         *)
(* A token is identified by its jti.  The clock counts seconds.            *)
(***************************************************************************)
EXTENDS Naturals, FiniteSets

CONSTANTS
  Jti,        \* the UUIDs the service may draw (bounds the tokens minted)
  NoJti,      \* SQL NULL
  Request,    \* request slots: how many handlers run at once
  Lifetimes,  \* lifetimes callers ask for; 0 stands for any value <= 0
  MaxTime,    \* bound of the clock
  Preissued   \* tokens signed with our key that this database never recorded

ASSUME NoJtiAssumption == NoJti \notin Jti
ASSUME LifetimesAssumption == Lifetimes \subseteq Nat
ASSUME PreissuedAssumption == Preissued \subseteq Jti

VARIABLES
  now,        \* Utc::now(), in seconds
  minted,     \* jtis drawn so far: a UUIDv4 is never drawn twice
  exp,        \* the signed `exp` claim of every minted token
  metadata,   \* rows of custom_jwt.jwt_metadata
  denylist,   \* rows of custom_jwt.denylist
  req,        \* the request in each slot
  held,       \* tokens some client has received
  parent,     \* history: the token a successor was minted from
  credited    \* history: how many callers received "newly revoked"

tables == <<metadata, denylist>>
history == <<parent, credited>>
vars == <<now, minted, exp, metadata, denylist, req, held, parent, credited>>

(* A row of jwt_metadata.  The row id is identified with the jti it is     *)
(* for; the columns that only describe the token are left out.             *)
Row == [jwt_uuid : Jti, supersedes : Jti \cup {NoJti}, original_jwt_uuid : Jti]

(* A row of the denylist, whose primary key is jwt_uuid.                   *)
DenyRow == [jwt_uuid : Jti, reason : {"revoked", "superseded_by_extend"}]

Op == {"none", "generate", "validate", "introspect", "revoke", "extend"}

PC == {"idle", "insert", "lookup", "row", "deny", "chain", "tx", "commit", "reply"}

Answer == {"none", "created", "extended", "active", "inactive", "revoked",
           "already_revoked", "not_found", "refused"}

(* What a handler carries across its awaits: the token presented (tok),    *)
(* the one minted (new), the columns read from the old row (root, prev),   *)
(* the time captured at the start (t0) and the answer.  at0 is history:    *)
(* whether tok was already denylisted when the request arrived.            *)
ReqState ==
  [op : Op, pc : PC, tok : Jti \cup {NoJti}, new : Jti \cup {NoJti},
   root : Jti \cup {NoJti}, prev : Jti \cup {NoJti}, t0 : Nat,
   ans : Answer, at0 : {"live", "dead"}]

Idle == [op |-> "none", pc |-> "idle", tok |-> NoJti, new |-> NoJti,
         root |-> NoJti, prev |-> NoJti, t0 |-> 0, ans |-> "none",
         at0 |-> "live"]

Denied(j) == \E d \in denylist : d.jwt_uuid = j

Recorded(j) == \E m \in metadata : m.jwt_uuid = j

(* SELECT ... WHERE jwt_uuid = $1 ORDER BY created_at DESC LIMIT 1         *)
RowOf(j) == CHOOSE m \in metadata : m.jwt_uuid = j

At0(j) == IF Denied(j) THEN "dead" ELSE "live"

(***************************************************************************)
(* Postgres row locking.  An extend transaction that has inserted its      *)
(* denylist row and not yet committed owns that primary key; any other     *)
(* INSERT of the key waits until it commits or rolls back.  An INSERT that *)
(* met a committed row did nothing (ON CONFLICT DO NOTHING) and owns none. *)
(***************************************************************************)
OwnsKey(q, j) ==
  /\ req[q].pc = "commit"
  /\ req[q].tok = j
  /\ ~Denied(j)

KeyFree(r, j) == \A q \in Request : q # r => ~OwnsKey(q, j)

-----------------------------------------------------------------------------
Init ==
  /\ now = 0
  /\ minted = Preissued
  /\ \E e \in [Preissued -> Lifetimes] :
       exp = [j \in Jti |-> IF j \in Preissued THEN e[j] ELSE 0]
  /\ metadata = {}
  /\ denylist = {}
  /\ req = [r \in Request |-> Idle]
  /\ held = Preissued
  /\ parent = [j \in Jti |-> NoJti]
  /\ credited = [j \in Jti |-> 0]

Tick ==
  /\ now < MaxTime
  /\ now' = now + 1
  /\ UNCHANGED <<minted, exp, tables, req, held, history>>

Ends(r, answer) ==
  req' = [req EXCEPT ![r].pc = "reply", ![r].ans = answer]

(* A request that is turned away before it touches the database: admin or  *)
(* Basic gate, malformed body or token, bad signature, audience or size.   *)
Refuse(r) ==
  /\ req[r].pc = "idle"
  /\ Ends(r, "refused")
  /\ UNCHANGED <<now, minted, exp, tables, held, history>>

-----------------------------------------------------------------------------
(* Mutant: the token is handed out before its row is inserted.             *)
GenerateUnaudited(r) ==
  \E life \in Lifetimes \ {0}, j \in Jti \ minted :
    /\ req[r].pc = "idle"
    /\ minted' = minted \cup {j}
    /\ exp' = [exp EXCEPT ![j] = now + life]
    /\ req' = [req EXCEPT ![r] =
         [Idle EXCEPT !.op = "generate", !.pc = "reply", !.new = j,
            !.ans = "created"]]
    /\ UNCHANGED <<now, tables, held, history>>

(* generate: draw a jti, sign the claims, then INSERT the audit row.       *)
Generate(r) ==
  \E life \in Lifetimes \ {0}, j \in Jti \ minted :
    /\ req[r].pc = "idle"
    /\ minted' = minted \cup {j}
    /\ exp' = [exp EXCEPT ![j] = now + life]
    /\ req' = [req EXCEPT ![r] =
                 [Idle EXCEPT !.op = "generate", !.pc = "insert", !.new = j]]
    /\ UNCHANGED <<now, tables, held, history>>

(* Mutant: the first row of a chain is stored without its root.            *)
InsertMetadataRootless(r) ==
  /\ req[r].pc = "insert"
  /\ metadata' = metadata \cup
       {[jwt_uuid |-> req[r].new, supersedes |-> NoJti,
         original_jwt_uuid |-> NoJti]}
  /\ Ends(r, "created")
  /\ UNCHANGED <<now, minted, exp, denylist, held, history>>

InsertMetadata(r) ==
  LET j == req[r].new IN
    /\ req[r].pc = "insert"
    /\ metadata' = metadata \cup
         {[jwt_uuid |-> j, supersedes |-> NoJti, original_jwt_uuid |-> j]}
    /\ Ends(r, "created")
    /\ UNCHANGED <<now, minted, exp, denylist, held, history>>

-----------------------------------------------------------------------------
(* validate and introspect: signature, claims and expiry are checked in    *)
(* memory; only a token that passes is looked up in the denylist.  Callers *)
(* of validate may also name an issuer or audience the token fails.        *)
Check(r, op, mismatch) ==
  \E j \in held :
    /\ req[r].pc = "idle"
    /\ req' = [req EXCEPT ![r] =
         [Idle EXCEPT !.op = op, !.tok = j, !.at0 = At0(j),
            !.pc = IF mismatch \/ exp[j] < now THEN "reply" ELSE "lookup",
            !.ans = IF mismatch \/ exp[j] < now THEN "inactive" ELSE "none"]]
    /\ UNCHANGED <<now, minted, exp, tables, held, history>>

Validate(r) == \E mismatch \in BOOLEAN : Check(r, "validate", mismatch)

Introspect(r) == Check(r, "introspect", FALSE)

(* Mutant: the denylist is not consulted.                                  *)
AnswerUnchecked(r) ==
  /\ req[r].pc = "lookup"
  /\ req[r].op \in {"validate", "introspect"}
  /\ Ends(r, "active")
  /\ UNCHANGED <<now, minted, exp, tables, held, history>>

AnswerLookup(r) ==
  /\ req[r].pc = "lookup"
  /\ req[r].op \in {"validate", "introspect"}
  /\ Ends(r, IF Denied(req[r].tok) THEN "inactive" ELSE "active")
  /\ UNCHANGED <<now, minted, exp, tables, held, history>>

-----------------------------------------------------------------------------
(* revoke: an expired token can still be revoked.                          *)
Revoke(r) ==
  \E j \in held :
    /\ req[r].pc = "idle"
    /\ req' = [req EXCEPT ![r] =
                 [Idle EXCEPT !.op = "revoke", !.pc = "deny", !.tok = j]]
    /\ UNCHANGED <<now, minted, exp, tables, held, history>>

(* revoke_by_jti: any UUID may be named; its audit row is looked up first. *)
RevokeByJti(r) ==
  \E j \in Jti :
    /\ req[r].pc = "idle"
    /\ req' = [req EXCEPT ![r] =
                 [Idle EXCEPT !.op = "revoke", !.pc = "row", !.tok = j]]
    /\ UNCHANGED <<now, minted, exp, tables, held, history>>

SelectRow(r) ==
  /\ req[r].pc = "row"
  /\ IF Recorded(req[r].tok)
       THEN req' = [req EXCEPT ![r].pc = "deny"]
       ELSE Ends(r, "not_found")
  /\ UNCHANGED <<now, minted, exp, tables, held, history>>

(* Mutant: the caller is told "revoked" whatever rows_affected() says.     *)
InsertDenylistCredited(r) ==
  LET j == req[r].tok IN
    /\ req[r].pc = "deny"
    /\ KeyFree(r, j)
    /\ denylist' = denylist \cup {[jwt_uuid |-> j, reason |-> "revoked"]}
    /\ Ends(r, "revoked")
    /\ UNCHANGED <<now, minted, exp, metadata, held, history>>

(* INSERT ... ON CONFLICT DO NOTHING; rows_affected() tells who won.       *)
InsertDenylist(r) ==
  LET j == req[r].tok IN
    /\ req[r].pc = "deny"
    /\ KeyFree(r, j)
    /\ \/ /\ ~Denied(j)
          /\ denylist' = denylist \cup {[jwt_uuid |-> j, reason |-> "revoked"]}
          /\ Ends(r, "revoked")
       \/ /\ Denied(j)
          /\ Ends(r, "already_revoked")
          /\ UNCHANGED denylist
    /\ UNCHANGED <<now, minted, exp, metadata, held, history>>

-----------------------------------------------------------------------------
(* extend: check the old token, read its chain columns, mint the new one,  *)
(* then one transaction inserts the successor's row and denylists the old. *)
Extend(r) ==
  \E j \in held :
    /\ req[r].pc = "idle"
    /\ req' = [req EXCEPT ![r] =
         [Idle EXCEPT !.op = "extend", !.tok = j, !.at0 = At0(j), !.t0 = now,
            !.pc = IF exp[j] < now THEN "reply" ELSE "lookup",
            !.ans = IF exp[j] < now THEN "refused" ELSE "none"]]
    /\ UNCHANGED <<now, minted, exp, tables, held, history>>

ExtendLookup(r) ==
  /\ req[r].pc = "lookup"
  /\ req[r].op = "extend"
  /\ IF Denied(req[r].tok)
       THEN Ends(r, "refused")
       ELSE req' = [req EXCEPT ![r].pc = "chain"]
  /\ UNCHANGED <<now, minted, exp, tables, held, history>>

(* Mutant: every successor starts a chain of its own, rooted at the old    *)
(* token.                                                                  *)
SelectChainUnrooted(r) ==
  LET old == req[r].tok IN
    /\ req[r].pc = "chain"
    /\ \E life \in Lifetimes \ {0}, j \in Jti \ minted :
         /\ minted' = minted \cup {j}
         /\ exp' = [exp EXCEPT ![j] = req[r].t0 + life]
         /\ parent' = [parent EXCEPT ![j] = old]
         /\ req' = [req EXCEPT ![r] =
              [@ EXCEPT !.pc = "tx", !.new = j, !.root = old,
                 !.prev = IF Recorded(old) THEN old ELSE NoJti]]
    /\ UNCHANGED <<now, tables, held, credited>>

(* The SELECT of the chain columns; the requested lifetime is checked only *)
(* now; then the successor is minted, with the time captured at the start. *)
SelectChain(r) ==
  LET old == req[r].tok IN
    /\ req[r].pc = "chain"
    /\ \/ /\ 0 \in Lifetimes
          /\ Ends(r, "refused")
          /\ UNCHANGED <<minted, exp, parent>>
       \/ \E life \in Lifetimes \ {0}, j \in Jti \ minted :
            /\ minted' = minted \cup {j}
            /\ exp' = [exp EXCEPT ![j] = req[r].t0 + life]
            /\ parent' = [parent EXCEPT ![j] = old]
            /\ req' = [req EXCEPT ![r] =
                 [@ EXCEPT !.pc = "tx", !.new = j,
                    !.root = IF Recorded(old) THEN RowOf(old).original_jwt_uuid
                             ELSE old,
                    !.prev = IF Recorded(old) THEN old ELSE NoJti]]
    /\ UNCHANGED <<now, tables, held, credited>>

(* BEGIN, the INSERT of the successor's row and the INSERT of the old      *)
(* token's denylist row: invisible to others until COMMIT, except that the *)
(* denylist key is owned from here on.  rows_affected() is ignored.        *)
TxInserts(r) ==
  /\ req[r].pc = "tx"
  /\ KeyFree(r, req[r].tok)
  /\ req' = [req EXCEPT ![r].pc = "commit"]
  /\ UNCHANGED <<now, minted, exp, tables, held, history>>

(* Mutant: the old token is denylisted outside the transaction, and a      *)
(* crash comes first.                                                      *)
CommitSuccessorOnly(r) ==
  LET q == req[r] IN
    /\ q.pc = "commit"
    /\ metadata' = metadata \cup
         {[jwt_uuid |-> q.new, supersedes |-> q.prev,
           original_jwt_uuid |-> q.root]}
    /\ Ends(r, "extended")
    /\ UNCHANGED <<now, minted, exp, denylist, held, history>>

(* Mutant: the old token's row is overwritten instead of superseded.       *)
CommitOverwrites(r) ==
  LET q == req[r] IN
    /\ q.pc = "commit"
    /\ metadata' = {m \in metadata : m.jwt_uuid # q.tok} \cup
         {[jwt_uuid |-> q.new, supersedes |-> q.prev,
           original_jwt_uuid |-> q.root]}
    /\ denylist' = denylist \cup
         (IF Denied(q.tok) THEN {}
          ELSE {[jwt_uuid |-> q.tok, reason |-> "superseded_by_extend"]})
    /\ Ends(r, "extended")
    /\ UNCHANGED <<now, minted, exp, held, history>>

(* Mutant: a second denylist INSERT goes through the pool while the        *)
(* transaction is open, and waits for the key the request itself owns.     *)
CommitSelfBlocked(r) ==
  LET q == req[r] IN
    /\ q.pc = "commit"
    /\ \A p \in Request : ~OwnsKey(p, q.tok)
    /\ metadata' = metadata \cup
         {[jwt_uuid |-> q.new, supersedes |-> q.prev,
           original_jwt_uuid |-> q.root]}
    /\ Ends(r, "extended")
    /\ UNCHANGED <<now, minted, exp, denylist, held, history>>

Commit(r) ==
  LET q == req[r] IN
    /\ q.pc = "commit"
    /\ metadata' = metadata \cup
         {[jwt_uuid |-> q.new, supersedes |-> q.prev,
           original_jwt_uuid |-> q.root]}
    /\ denylist' = denylist \cup
         (IF Denied(q.tok) THEN {}
          ELSE {[jwt_uuid |-> q.tok, reason |-> "superseded_by_extend"]})
    /\ Ends(r, "extended")
    /\ UNCHANGED <<now, minted, exp, held, history>>

-----------------------------------------------------------------------------
(* The response reaches the client, which from then on holds the token or  *)
(* knows that it was the one that revoked it.                              *)
Reply(r) ==
  /\ req[r].pc = "reply"
  /\ held' = IF req[r].ans \in {"created", "extended"}
               THEN held \cup {req[r].new} ELSE held
  /\ credited' = IF req[r].ans = "revoked"
                   THEN [credited EXCEPT ![req[r].tok] = @ + 1] ELSE credited
  /\ req' = [req EXCEPT ![r] = Idle]
  /\ UNCHANGED <<now, minted, exp, tables, parent>>

(* The handler is dropped at an await or the database call fails: nothing  *)
(* that was not committed happens, and nobody receives an answer.          *)
Abandon(r) ==
  /\ req[r].pc # "idle"
  /\ req' = [req EXCEPT ![r] = Idle]
  /\ UNCHANGED <<now, minted, exp, tables, held, history>>

-----------------------------------------------------------------------------
Arrive(r) ==
  \/ Refuse(r) \/ Generate(r) \/ Validate(r) \/ Introspect(r)
  \/ Revoke(r) \/ RevokeByJti(r) \/ Extend(r)

Advance(r) ==
  \/ InsertMetadata(r) \/ AnswerLookup(r) \/ SelectRow(r)
  \/ InsertDenylist(r) \/ ExtendLookup(r) \/ SelectChain(r)
  \/ TxInserts(r) \/ Commit(r) \/ Reply(r)

Next ==
  \/ Tick
  \/ \E r \in Request : Arrive(r) \/ Advance(r) \/ Abandon(r)

Spec == Init /\ [][Next]_vars
-----------------------------------------------------------------------------
(* Every variable keeps its type.                                          *)
TypeOK ==
  /\ now \in Nat
  /\ minted \subseteq Jti
  /\ exp \in [Jti -> Nat]
  /\ metadata \subseteq Row
  /\ denylist \subseteq DenyRow
  /\ req \in [Request -> ReqState]
  /\ held \subseteq Jti
  /\ parent \in [Jti -> Jti \cup {NoJti}]
  /\ credited \in [Jti -> Nat]

(* The two INSERTs of extend's transaction (service.rs 475-514) happen     *)
(* together: a recorded successor's parent is denylisted, and a token      *)
(* denylisted with reason superseded_by_extend has a recorded successor,   *)
(* wherever a request was abandoned.                                       *)
SupersedeAtomic ==
  /\ \A m \in metadata :
       parent[m.jwt_uuid] # NoJti => Denied(parent[m.jwt_uuid])
  /\ \A d \in denylist :
       d.reason = "superseded_by_extend" =>
         \E m \in metadata : parent[m.jwt_uuid] = d.jwt_uuid

(* The audit columns, read by extend before its transaction, tell the true *)
(* history: a fresh token is its own root, a successor carries the root of *)
(* the token it was minted from and points to that token's row, and the    *)
(* successor of a token without a row starts a chain rooted at that token. *)
ChainRooted ==
  \A m \in metadata :
    LET p == parent[m.jwt_uuid] IN
      IF p = NoJti
        THEN m.original_jwt_uuid = m.jwt_uuid /\ m.supersedes = NoJti
        ELSE IF Recorded(p)
          THEN /\ m.original_jwt_uuid = RowOf(p).original_jwt_uuid
               /\ m.supersedes = p
          ELSE m.original_jwt_uuid = p /\ m.supersedes = NoJti

(* No client ever holds a token the audit table does not know, although    *)
(* the token is signed before its row is inserted and the request can die  *)
(* in between; and nothing but issued tokens is ever denylisted.           *)
IssuedIsAudited ==
  /\ \A j \in held : Recorded(j) \/ j \in Preissued
  /\ \A d \in denylist : Recorded(d.jwt_uuid) \/ d.jwt_uuid \in Preissued

(* Whatever is retried after a lost answer, no two callers are ever told   *)
(* that they revoked the same token, and a caller is told so only when a   *)
(* revocation, not an extend, retired it (rows_affected() == 1,            *)
(* service.rs 311 and 342).                                                *)
CreditedOnce ==
  \A j \in Jti :
    /\ credited[j] <= 1
    /\ credited[j] = 1 => [jwt_uuid |-> j, reason |-> "revoked"] \in denylist

(* A token denylisted before a request arrived is neither reported active  *)
(* to it nor extended by it, whatever runs between its awaits.             *)
AnswersSound ==
  \A r \in Request :
    req[r].ans \in {"active", "extended"} => req[r].at0 = "live"

(* The tables implement the ledger: rows are never removed or changed, and *)
(* each step records a fresh token, retires one, or replaces one.          *)
Ledger == INSTANCE TokenLedger
            WITH audit <- {m.jwt_uuid : m \in metadata},
                 retired <- {d.jwt_uuid : d \in denylist}

ImplementsLedger == Ledger!LedgerSpec

(* extend answers 422 when the old token is revoked (failure-modes.md 97): *)
(* a successor is recorded only while the token it supersedes is still     *)
(* live.  But the denylist check (service.rs 414) and the transaction are  *)
(* separate statements, and the transaction ignores whether its denylist   *)
(* INSERT did anything (service.rs 501).                                   *)
ExtendOnlyLive ==
  [][\A m \in metadata' \ metadata :
       m.supersedes # NoJti => ~Denied(m.supersedes)]_vars
=============================================================================
