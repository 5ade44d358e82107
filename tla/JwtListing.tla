----------------------------- MODULE JwtListing -----------------------------
(***************************************************************************)
(* The two endpoints that authenticate a caller by the token it presents:  *)
(* POST /jwt/custom/list/me and GET /jwt/userinfo (with its cookie-named   *)
(* variant), beside the requests of JwtService.  A listing is four kinds   *)
(* of statement with no common snapshot: the denylist check of the bearer  *)
(* token, the page of rows, the COUNT, and one denylist SELECT per row     *)
(* (service.rs authenticate_bearer and list_for_subject, router/mod.rs).   *)
(* A client that wants all its tokens walks the pages one request after    *)
(* the other, while tokens are generated and extended.  The optional       *)
(* filters of a listing are left out.                                      *)
(***************************************************************************)
EXTENDS JwtService, FiniteSetsExt

CONSTANTS
  Caller,     \* slots for list/me and userinfo requests
  Subject,    \* values of the `sub` claim
  NoSub,      \* a token without `sub`
  Leeway,     \* jsonwebtoken's default leeway on `exp`
  Limits,     \* values of `limit` in requests
  MaxSize     \* cap on the size of a page (200)

ASSUME SubjectAssumption == NoSub \notin Subject
ASSUME LeewayAssumption == Leeway \in Nat
ASSUME PagingAssumption == Limits \subseteq Nat /\ MaxSize \in Nat \ {0}

VARIABLES
  sub,        \* the signed `sub` claim of every minted token
  iat,        \* issued_at of every minted token
  call        \* the request in each caller slot

listVars == <<vars, sub, iat, call>>

(* The query of a request (offset, by_row, size), what it has read (rows,  *)
(* total, read, status), and history: when it came and what was denylisted *)
(* then, and for a walk over the pages the rows there were when it began   *)
(* and those seen on earlier pages.                                        *)
NoCall == [kind |-> "none", pc |-> "idle", tok |-> NoJti,
           offset |-> 0, by_row |-> FALSE, size |-> 1,
           rows |-> {}, total |-> 0, read |-> 0, status |-> <<>>,
           t0 |-> 0, dead0 |-> {}, there |-> {}, seen |-> {}]

DeadTokens == {d.jwt_uuid : d \in denylist}

RowsOf(s) == {m.jwt_uuid : m \in {n \in metadata : sub[n.jwt_uuid] = s}}

(* req.limit.clamp(1, 200): any number asked for is brought into range.     *)
(* failure-modes.md:105 speaks of a 400 for limit > 200 and for a negative *)
(* offset; the code has no such answer and neither has the model.          *)
PageSize(limit) == Max({1, Min({limit, MaxSize})})

(* In by_row mode the offset counts rows, else pages.                      *)
RowOffset(q) == IF q.by_row THEN q.offset ELSE q.offset * q.size

PageNumber(q) == IF q.by_row THEN q.offset \div q.size ELSE q.offset

TotalPages(q) == (q.total + q.size - 1) \div q.size

(* ORDER BY issued_at DESC LIMIT size OFFSET off: the pages Postgres may   *)
(* return of a set of rows; nothing orders rows with the same issued_at.   *)
Pages(rows, off, size) ==
  {S \in SUBSET rows :
     \E skipped \in SUBSET (rows \ S) :
       LET rest == rows \ (S \cup skipped)
           Before(A, B) == \A a \in A, b \in B : iat[a] >= iat[b]
       IN /\ Cardinality(skipped) = Min({off, Cardinality(rows)})
          /\ Cardinality(S) = Min({size, Cardinality(rows \ skipped)})
          /\ Before(skipped, S \cup rest)
          /\ Before(S, rest)}

ListInit ==
  /\ Init
  /\ iat = [j \in Jti |-> 0]
  /\ \E s \in [Preissued -> Subject \cup {NoSub}] :
       sub = [j \in Jti |-> IF j \in Preissued THEN s[j] ELSE NoSub]
  /\ call = [c \in Caller |-> NoCall]

(* generate signs the caller's subject, extend the subject of the old      *)
(* token; the audit row stores the subject that was signed, and the time   *)
(* the request read first: an extend carries it through its awaits.        *)
Service ==
  /\ Next
  /\ \E s \in Subject \cup {NoSub} :
       /\ \A j \in minted' \ minted : parent'[j] # NoJti => s = sub[parent'[j]]
       /\ minted' = minted => s = NoSub
       /\ sub' = [j \in Jti |-> IF j \in minted' \ minted THEN s ELSE sub[j]]
  /\ iat' = [j \in Jti |->
       IF j \notin minted' \ minted THEN iat[j]
       ELSE IF parent'[j] = NoJti THEN now
       ELSE req[CHOOSE q \in Request : req'[q].new = j].t0]
  /\ UNCHANGED call

(* A request as it comes in.  Signature and `exp` are checked in memory,   *)
(* the latter with a leeway.                                               *)
Arriving(q) ==
  [q EXCEPT !.t0 = now, !.dead0 = DeadTokens,
            !.pc = IF exp[q.tok] + Leeway < now THEN "unauthorized" ELSE "auth"]

Present(c, q) ==
  /\ call[c].pc = "idle"
  /\ call' = [call EXCEPT ![c] = Arriving(q)]
  /\ UNCHANGED <<vars, sub, iat>>

(* A client asks for its first page.                                       *)
ListMe(c) ==
  \E j \in held, limit \in Limits, by_row \in BOOLEAN :
    Present(c, [NoCall EXCEPT !.kind = "list", !.tok = j, !.by_row = by_row,
                              !.size = PageSize(limit)])

(* It has an answer that names further pages and asks for the next.        *)
NextPage(c) ==
  LET q == call[c] IN
    /\ q.pc = "ok"
    /\ q.kind = "list"
    /\ PageNumber(q) + 1 < TotalPages(q)
    /\ call' = [call EXCEPT ![c] = Arriving(
         [NoCall EXCEPT !.kind = "list", !.tok = q.tok, !.by_row = q.by_row,
            !.size = q.size, !.there = q.there, !.seen = q.seen \cup q.rows,
            !.offset = q.offset + (IF q.by_row THEN q.size ELSE 1)])]
    /\ UNCHANGED <<vars, sub, iat>>

Introduce(c) ==
  \E j \in held : Present(c, [NoCall EXCEPT !.kind = "userinfo", !.tok = j])

Userinfo(c) == Introduce(c)

(* The caller names the cookie that holds its token.                       *)
CustomUserinfo(c) == Introduce(c)

(* Mutant: the bearer token is not looked up in the denylist.              *)
AuthenticateUnchecked(c) ==
  /\ call[c].pc = "auth"
  /\ call' = [call EXCEPT ![c].pc =
       IF sub[call[c].tok] = NoSub THEN "unauthorized"
       ELSE IF call[c].kind = "list" THEN "rows" ELSE "claims"]
  /\ UNCHANGED <<vars, sub, iat>>

(* authenticate_bearer's denylist SELECT; a token without `sub` names no   *)
(* caller.                                                                 *)
AuthenticateBearer(c) ==
  LET refused == Denied(call[c].tok) \/ sub[call[c].tok] = NoSub IN
    /\ call[c].pc = "auth"
    /\ call' = [call EXCEPT ![c].pc =
         IF refused THEN "unauthorized"
         ELSE IF call[c].kind = "list" THEN "rows" ELSE "claims"]
    /\ UNCHANGED <<vars, sub, iat>>

(* userinfo decodes the token again with validate, for the claims only:    *)
(* whatever validate says of the token's state, the answer is 200.         *)
UserinfoClaims(c) ==
  /\ call[c].pc = "claims"
  /\ call' = [call EXCEPT ![c].pc = "ok"]
  /\ UNCHANGED <<vars, sub, iat>>

(* The page; the first page of a walk remembers the rows there are.        *)
SelectRows(c) ==
  LET q == call[c]
      all == RowsOf(sub[q.tok])
  IN /\ q.pc = "rows"
     /\ \E S \in Pages(all, RowOffset(q), q.size) :
          call' = [call EXCEPT ![c].rows = S, ![c].pc = "count",
                     ![c].there = IF q.offset = 0 THEN all ELSE @]
     /\ UNCHANGED <<vars, sub, iat>>

(* Mutant: the rows of the page are counted.                               *)
SelectCountOfPage(c) ==
  /\ call[c].pc = "count"
  /\ call' = [call EXCEPT ![c].total = Cardinality(call[c].rows),
                          ![c].read = now, ![c].pc = "entries"]
  /\ UNCHANGED <<vars, sub, iat>>

(* COUNT with the same filters; then the clock is read once for all rows.  *)
SelectCount(c) ==
  /\ call[c].pc = "count"
  /\ call' = [call EXCEPT ![c].total = Cardinality(RowsOf(sub[call[c].tok])),
                          ![c].read = now, ![c].pc = "entries"]
  /\ UNCHANGED <<vars, sub, iat>>

(* Mutant: the status of a row is its expiry only.                         *)
SelectEntryUndenied(c) ==
  LET seen == DOMAIN call[c].status IN
    /\ call[c].pc = "entries"
    /\ \/ \E j \in call[c].rows \ seen :
            LET st == IF exp[j] < call[c].read THEN "expired" ELSE "active"
            IN call' = [call EXCEPT ![c].status =
                 [k \in seen \cup {j} |-> IF k = j THEN st ELSE call[c].status[k]]]
       \/ /\ call[c].rows = seen
          /\ call' = [call EXCEPT ![c].pc = "ok"]
    /\ UNCHANGED <<vars, sub, iat>>

(* One denylist SELECT per row, in some order.                             *)
SelectEntry(c) ==
  LET seen == DOMAIN call[c].status IN
    /\ call[c].pc = "entries"
    /\ \/ \E j \in call[c].rows \ seen :
            LET st == IF Denied(j) THEN "revoked"
                      ELSE IF exp[j] < call[c].read THEN "expired" ELSE "active"
            IN call' = [call EXCEPT ![c].status =
                 [k \in seen \cup {j} |-> IF k = j THEN st ELSE call[c].status[k]]]
       \/ /\ call[c].rows = seen
          /\ call' = [call EXCEPT ![c].pc = "ok"]
    /\ UNCHANGED <<vars, sub, iat>>

(* The response is sent, or the request is dropped at one of its awaits.   *)
CallEnds(c) ==
  /\ call[c].pc # "idle"
  /\ call' = [call EXCEPT ![c] = NoCall]
  /\ UNCHANGED <<vars, sub, iat>>

ListNext ==
  \/ Service
  \/ \E c \in Caller :
       \/ ListMe(c) \/ NextPage(c) \/ Userinfo(c) \/ CustomUserinfo(c)
       \/ AuthenticateBearer(c) \/ UserinfoClaims(c) \/ SelectRows(c) \/ SelectCount(c)
       \/ SelectEntry(c) \/ CallEnds(c)

ListSpec == ListInit /\ [][ListNext]_listVars

-----------------------------------------------------------------------------
(* A caller whose token was revoked or superseded before it asked, or had  *)
(* expired longer ago than the leeway of the JWT library, gets neither a   *)
(* listing nor userinfo.                                                   *)
BearerLive ==
  \A c \in Caller :
    call[c].pc = "ok" =>
      call[c].tok \notin call[c].dead0 /\ exp[call[c].tok] + Leeway >= call[c].t0

(* Although the rows and their denylist entries are read one by one while  *)
(* other requests write: a token listed as active was not revoked before   *)
(* the listing began and has not expired when it began, and a token listed *)
(* as revoked is.                                                          *)
ListedStatusTrue ==
  \A c \in Caller : \A j \in DOMAIN call[c].status :
    /\ call[c].status[j] = "active" =>
         j \notin call[c].dead0 /\ exp[j] >= call[c].t0
    /\ call[c].status[j] = "revoked" => Denied(j)

(* A client that walks the pages until page + 1 reaches totalPages has     *)
(* seen every token of its own that was recorded when it began, although   *)
(* tokens generated meanwhile, and late ones with an earlier issued_at,    *)
(* shift the pages under it, and it has seen no token of anyone else.      *)
(* Tokens that share their issued_at with another one are excepted: the    *)
(* query does not order them.                                              *)
WalkSeesAll ==
  \A c \in Caller :
    LET q == call[c]
        mine == RowsOf(sub[q.tok])
        shown == q.seen \cup q.rows
    IN q.kind = "list" /\ q.pc = "ok" =>
         /\ shown \subseteq mine
         /\ PageNumber(q) + 1 >= TotalPages(q) =>
              \A j \in q.there \ shown : \E k \in mine \ {j} : iat[k] = iat[j]
=============================================================================
