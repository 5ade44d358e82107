-------------------------- MODULE JwtServiceProofs --------------------------
(***************************************************************************)
(* Proofs about JwtService, for any number of tokens, request slots and    *)
(* pre-issued tokens, any lifetimes and any clock bound.                   *)
(***************************************************************************)
EXTENDS JwtService, TLAPS

-----------------------------------------------------------------------------
(***************************************************************************)
(* The inductive invariant: what the tables satisfy (Tables), what each    *)
(* request knows (Local) and that no two requests issue the same token.    *)
(***************************************************************************)

(* A request that has signed a token whose row is not yet inserted.        *)
Pending(r) == req[r].pc \in {"insert", "tx", "commit"}

Issued(j) == Recorded(j) \/ j \in Preissued

(* root and prev are the columns extend writes for a successor of j.       *)
Origin(j, root, prev) ==
  /\ \A m \in metadata :
       m.jwt_uuid = j => root = m.original_jwt_uuid /\ prev = j
  /\ ~Recorded(j) => root = j /\ prev = NoJti

(* Rows have distinct tokens, all drawn before; a pre-issued token never   *)
(* gets a row; a token not drawn yet has no parent.                        *)
RowsSound ==
  /\ \A m, n \in metadata : m.jwt_uuid = n.jwt_uuid => m = n
  /\ \A m \in metadata : m.jwt_uuid \in minted /\ m.jwt_uuid \notin Preissued
  /\ Preissued \subseteq minted
  /\ \A j \in Jti \ minted : parent[j] = NoJti

(* ChainRooted without the choice of a row.                                *)
ChainSound ==
  \A m \in metadata :
    IF parent[m.jwt_uuid] = NoJti
      THEN m.original_jwt_uuid = m.jwt_uuid /\ m.supersedes = NoJti
      ELSE /\ Issued(parent[m.jwt_uuid])
           /\ Origin(parent[m.jwt_uuid], m.original_jwt_uuid, m.supersedes)

Tables ==
  /\ RowsSound
  /\ ChainSound
  /\ SupersedeAtomic
  /\ IssuedIsAudited

(* The token being issued is new and remembers where it comes from.        *)
PendingSound(r) ==
  Pending(r) =>
    /\ req[r].new \in minted
    /\ req[r].new \notin Preissued
    /\ ~Recorded(req[r].new)
    /\ parent[req[r].new] = IF req[r].pc = "insert" THEN NoJti ELSE req[r].tok

(* Only issued tokens are looked up, extended or denylisted.               *)
TokSound(r) ==
  req[r].pc \in {"lookup", "chain", "tx", "commit", "deny"} =>
    req[r].tok \in Jti /\ Issued(req[r].tok)

(* The columns read by SelectChain stay true until they are written.       *)
ColumnsSound(r) ==
  req[r].pc \in {"tx", "commit"} =>
    req[r].root \in Jti /\ Origin(req[r].tok, req[r].root, req[r].prev)

(* Answers are given only at the end; one that carries a token carries a   *)
(* recorded one; a token dead on arrival never gets past the lookup.       *)
AnswerSound(r) ==
  /\ req[r].ans # "none" => req[r].pc = "reply"
  /\ req[r].ans \in {"created", "extended"} =>
       req[r].new \in Jti /\ Recorded(req[r].new)
  /\ req[r].at0 = "dead" =>
       /\ req[r].pc \in {"lookup", "reply"}
       /\ req[r].pc = "lookup" => Denied(req[r].tok)
       /\ req[r].ans \notin {"active", "extended"}

Local(r) ==
  PendingSound(r) /\ TokSound(r) /\ ColumnsSound(r) /\ AnswerSound(r)

Distinct ==
  \A r, q \in Request :
    Pending(r) /\ Pending(q) /\ r # q => req[r].new # req[q].new

IInv == TypeOK /\ Tables /\ Distinct /\ \A r \in Request : Local(r)

-----------------------------------------------------------------------------
(* Well-typed requests.                                                    *)

(* An empty slot is well typed.                                            *)
LEMMA IdleType == Idle \in ReqState
  BY DEF Idle, ReqState, Op, PC, Answer

(* Moving a request to another step changes nothing but its pc.            *)
LEMMA GotoEffect ==
  ASSUME req \in [Request -> ReqState], NEW r \in Request, NEW p \in PC,
         req' = [req EXCEPT ![r].pc = p]
  PROVE  /\ req' \in [Request -> ReqState]
         /\ \A q \in Request : q # r => req'[q] = req[q]
         /\ req'[r].pc = p
         /\ req'[r].tok = req[r].tok /\ req'[r].new = req[r].new
         /\ req'[r].root = req[r].root /\ req'[r].prev = req[r].prev
         /\ req'[r].ans = req[r].ans /\ req'[r].at0 = req[r].at0
<1>1. [req[r] EXCEPT !.pc = p] \in ReqState
  BY DEF ReqState
<1>2. req' = [req EXCEPT ![r] = [req[r] EXCEPT !.pc = p]]
  OBVIOUS
<1>3. req'[r] = [req[r] EXCEPT !.pc = p]
  BY <1>2
<1>4. QED
  BY <1>1, <1>2, <1>3 DEF ReqState

(* Answering a request changes nothing but its pc and its answer.          *)
LEMMA EndsEffect ==
  ASSUME req \in [Request -> ReqState], NEW r \in Request,
         NEW a \in Answer, Ends(r, a)
  PROVE  /\ req' \in [Request -> ReqState]
         /\ \A q \in Request : q # r => req'[q] = req[q]
         /\ req'[r].pc = "reply" /\ req'[r].ans = a
         /\ req'[r].tok = req[r].tok /\ req'[r].new = req[r].new
         /\ req'[r].at0 = req[r].at0
<1>1. [req[r] EXCEPT !.pc = "reply", !.ans = a] \in ReqState
  BY DEF ReqState, PC
<1>2. req' = [req EXCEPT ![r] = [req[r] EXCEPT !.pc = "reply", !.ans = a]]
  BY DEF Ends
<1>3. req'[r] = [req[r] EXCEPT !.pc = "reply", !.ans = a]
  BY <1>2
<1>4. req' \in [Request -> ReqState] /\ \A q \in Request : q # r => req'[q] = req[q]
  BY <1>1, <1>2
<1>5. QED
  BY <1>3, <1>4 DEF ReqState

(* Filling a slot with a well-typed request.                               *)
LEMMA SlotEffect ==
  ASSUME req \in [Request -> ReqState], NEW r \in Request, NEW x \in ReqState,
         req' = [req EXCEPT ![r] = x]
  PROVE  /\ req' \in [Request -> ReqState]
         /\ \A q \in Request : q # r => req'[q] = req[q]
         /\ req'[r] = x
  OBVIOUS

-----------------------------------------------------------------------------
(* What one request's steps leave of the others' knowledge.                *)

(* The tables only grow, and a new row is for a token nobody else issues.  *)
Grows(q) ==
  /\ minted \subseteq minted'
  /\ metadata \subseteq metadata'
  /\ denylist \subseteq denylist'
  /\ \A m \in metadata' \ metadata :
       ~Issued(m.jwt_uuid) /\ (Pending(q) => m.jwt_uuid # req[q].new)
  /\ \A j \in minted : parent'[j] = parent[j]

(* What a step of one request leaves alone: the local facts of the others. *)
LEMMA OthersKept ==
  ASSUME IInv, NEW q \in Request, req'[q] = req[q], Grows(q)
  PROVE  Local(q)'
<1> USE DEF IInv, Grows, Local, Pending, Issued, Recorded
<1>1. PendingSound(q)'
  BY DEF PendingSound
<1>2. TokSound(q)'
  BY DEF TokSound
<1>3. ColumnsSound(q)'
  BY DEF ColumnsSound, Origin, TokSound
<1>4. AnswerSound(q)'
  BY DEF AnswerSound, Denied
<1>5. QED
  BY <1>1, <1>2, <1>3, <1>4

(* A step that touches no table keeps the invariant if the request that    *)
(* took it still knows the truth and issues nobody else's token.           *)
LEMMA QuietStep ==
  ASSUME IInv, TypeOK', NEW r \in Request,
         metadata' = metadata, denylist' = denylist,
         minted \subseteq minted',
         \A j \in minted : parent'[j] = parent[j],
         \A j \in Jti \ minted' : parent'[j] = NoJti,
         \A j \in held' : j \in held \/ Issued(j),
         \A q \in Request : q # r => req'[q] = req[q],
         Local(r)',
         Pending(r)' => \A q \in Request :
                          q # r /\ Pending(q) => req'[r].new # req[q].new
  PROVE  IInv'
<1>1. \A q \in Request : Local(q)'
  <2> SUFFICES ASSUME NEW q \in Request, q # r PROVE Local(q)'
    OBVIOUS
  <2>1. Grows(q)
    BY DEF Grows
  <2>2. QED
    BY <2>1, OthersKept
<1>2. Distinct'
  BY DEF IInv, Distinct, Pending
<1>3. Tables'
  <2>1. \A m \in metadata : parent'[m.jwt_uuid] = parent[m.jwt_uuid]
    BY DEF IInv, Tables, RowsSound
  <2>2. RowsSound'
    BY DEF IInv, Tables, RowsSound
  <2>3. ChainSound'
    BY <2>1 DEF IInv, Tables, ChainSound, Issued, Origin, Recorded
  <2>4. SupersedeAtomic'
    BY <2>1 DEF IInv, Tables, SupersedeAtomic, Denied
  <2>5. IssuedIsAudited'
    BY DEF IInv, Tables, IssuedIsAudited, Issued, Recorded
  <2>6. QED
    BY <2>2, <2>3, <2>4, <2>5 DEF Tables
<1>4. QED
  BY <1>1, <1>2, <1>3 DEF IInv

-----------------------------------------------------------------------------
(* Initial states, then one lemma per action.                              *)

(* The empty tables and idle slots of a fresh database satisfy it.         *)
LEMMA InitInv == Init => IInv
<1> SUFFICES ASSUME Init PROVE IInv
  OBVIOUS
<1>1. PICK e \in [Preissued -> Lifetimes] :
        exp = [j \in Jti |-> IF j \in Preissued THEN e[j] ELSE 0]
  BY DEF Init
<1>2. exp \in [Jti -> Nat]
  BY <1>1, LifetimesAssumption
<1>3. TypeOK
  BY <1>2, IdleType, PreissuedAssumption DEF Init, TypeOK
<1>4. Tables
  BY PreissuedAssumption DEF Init, Tables, RowsSound, ChainSound,
     SupersedeAtomic, IssuedIsAudited, Recorded
<1>5. \A r \in Request : req[r].pc = "idle" /\ req[r].ans = "none" /\ req[r].at0 = "live"
  BY DEF Init, Idle
<1>6. Distinct /\ \A r \in Request : Local(r)
  BY <1>5 DEF Distinct, Local, Pending, PendingSound, TokSound, ColumnsSound, AnswerSound
<1>7. QED
  BY <1>3, <1>4, <1>6 DEF IInv

(* The passing of time.                                                    *)
LEMMA TickInv == IInv /\ Tick => IInv'
<1> SUFFICES ASSUME IInv, Tick PROVE IInv'
  OBVIOUS
<1>1. TypeOK'
  BY DEF IInv, TypeOK, Tick, tables, history
<1>2. Tables' /\ Distinct'
  BY DEF IInv, Tick, tables, history, Tables, RowsSound, ChainSound,
     SupersedeAtomic, IssuedIsAudited, Denied, Recorded, Issued, Origin,
     Distinct, Pending
<1>3. \A r \in Request : Local(r)'
  BY OthersKept DEF IInv, Tick, tables, history, Grows
<1>4. QED
  BY <1>1, <1>2, <1>3 DEF IInv

(* Steps that only answer: a request refused at the door, a lookup, a      *)
(* missing row, extend's refusals.                                         *)
LEMMA PlainEnd ==
  ASSUME IInv, NEW r \in Request,
         NEW a \in Answer \ {"created", "extended"}, Ends(r, a),
         a = "active" => req[r].at0 = "live",
         UNCHANGED <<now, minted, exp, tables, held, history>>
  PROVE  IInv'
<1>1. /\ req' \in [Request -> ReqState]
      /\ \A q \in Request : q # r => req'[q] = req[q]
      /\ req'[r].pc = "reply" /\ req'[r].ans = a
      /\ req'[r].tok = req[r].tok /\ req'[r].new = req[r].new
      /\ req'[r].at0 = req[r].at0
  BY EndsEffect DEF IInv, TypeOK
<1>2. TypeOK'
  BY <1>1 DEF IInv, TypeOK, tables, history
<1>3. Local(r)'
  BY <1>1 DEF Local, PendingSound, Pending, TokSound, ColumnsSound, AnswerSound
<1>4. ~Pending(r)'
  BY <1>1 DEF Pending
<1>5. QED
  BY <1>1, <1>2, <1>3, <1>4, QuietStep DEF IInv, Tables, RowsSound, tables, history

(* A request refused before it reaches the database disturbs nothing.      *)
LEMMA RefuseInv == ASSUME IInv, NEW r \in Request, Refuse(r) PROVE IInv'
  BY PlainEnd DEF Refuse, Answer

(* The denylist SELECT of validate and introspect answers truly.           *)
LEMMA AnswerLookupInv ==
  ASSUME IInv, NEW r \in Request, AnswerLookup(r) PROVE IInv'
<1>1. CASE Denied(req[r].tok)
  BY <1>1, PlainEnd DEF AnswerLookup, Answer
<1>2. CASE ~Denied(req[r].tok)
  <2>1. req[r].at0 = "live"
    BY <1>2 DEF IInv, TypeOK, ReqState, Local, AnswerSound, AnswerLookup
  <2>2. QED
    BY <1>2, <2>1, PlainEnd DEF AnswerLookup, Answer
<1>3. QED
  BY <1>1, <1>2

(* A slot that takes in a new request, or is emptied.                      *)
LEMMA SlotInv ==
  ASSUME IInv, NEW r \in Request, NEW x \in ReqState,
         req' = [req EXCEPT ![r] = x],
         x.pc \in {"idle", "lookup", "row", "deny", "reply"},
         x.pc \in {"lookup", "deny"} => x.tok \in Jti /\ Issued(x.tok),
         x.ans \in {"none", "inactive", "refused"},
         x.ans # "none" => x.pc = "reply",
         x.at0 = "dead" => x.pc \in {"lookup", "reply"} /\ Denied(x.tok),
         \A j \in held' : j \in Jti /\ (j \in held \/ Issued(j)),
         UNCHANGED <<now, minted, exp, tables, parent>>,
         credited' \in [Jti -> Nat]
  PROVE  IInv'
<1>0. credited \in [Jti -> Nat]
  BY DEF IInv, TypeOK
<1>1. /\ req' \in [Request -> ReqState]
      /\ \A q \in Request : q # r => req'[q] = req[q]
      /\ req'[r] = x
  BY SlotEffect DEF IInv, TypeOK
<1>2. TypeOK'
  BY <1>1 DEF IInv, TypeOK, tables, history
<1>3. Local(r)'
  BY <1>1 DEF Local, PendingSound, Pending, TokSound, ColumnsSound,
     AnswerSound, tables, Issued, Recorded, Denied
<1>4. ~Pending(r)'
  BY <1>1 DEF Pending
<1>5. QED
  BY <1>1, <1>2, <1>3, <1>4, QuietStep DEF IInv, Tables, RowsSound, tables, history

LEMMA FillSlot ==
  ASSUME IInv, NEW r \in Request, NEW x \in ReqState,
         req' = [req EXCEPT ![r] = x],
         x.pc \in {"idle", "lookup", "row", "deny", "reply"},
         x.pc \in {"lookup", "deny"} => x.tok \in Jti /\ Issued(x.tok),
         x.ans \in {"none", "inactive", "refused"},
         x.ans # "none" => x.pc = "reply",
         x.at0 = "dead" => x.pc \in {"lookup", "reply"} /\ Denied(x.tok),
         \A j \in held' : j \in Jti /\ (j \in held \/ Issued(j)),
         UNCHANGED <<now, minted, exp, tables, history>>
  PROVE  IInv'
<1>1. credited' \in [Jti -> Nat] /\ UNCHANGED <<now, minted, exp, tables, parent>>
  BY DEF IInv, TypeOK, history
<1>2. QED
  BY <1>1, SlotInv

(* validate and introspect taking in a held token.                         *)
LEMMA CheckInv ==
  ASSUME IInv, NEW r \in Request, NEW op \in Op, NEW mm \in BOOLEAN,
         Check(r, op, mm)
  PROVE  IInv'
<1>1. PICK j \in held :
        /\ req' = [req EXCEPT ![r] =
             [Idle EXCEPT !.op = op, !.tok = j, !.at0 = At0(j),
                !.pc = IF mm \/ exp[j] < now THEN "reply" ELSE "lookup",
                !.ans = IF mm \/ exp[j] < now THEN "inactive" ELSE "none"]]
        /\ UNCHANGED <<now, minted, exp, tables, held, history>>
  BY DEF Check
<1> DEFINE x == [Idle EXCEPT !.op = op, !.tok = j, !.at0 = At0(j),
                !.pc = IF mm \/ exp[j] < now THEN "reply" ELSE "lookup",
                !.ans = IF mm \/ exp[j] < now THEN "inactive" ELSE "none"]
<1>2. req' = [req EXCEPT ![r] = x]
  BY <1>1
<1>3. j \in Jti /\ Issued(j)
  BY DEF IInv, TypeOK, Tables, IssuedIsAudited, Issued
<1>4. x \in ReqState
  BY <1>3, IdleType DEF ReqState, PC, Answer, At0
<1>5. x.at0 = "dead" => Denied(x.tok)
  BY DEF At0, Idle
<1>6. x.pc \in {"lookup", "reply"} /\ x.ans \in {"none", "inactive"}
      /\ (x.ans # "none" => x.pc = "reply") /\ x.tok = j
  BY DEF Idle
<1> HIDE DEF x
<1>7. QED
  BY <1>1, <1>2, <1>3, <1>4, <1>5, <1>6, FillSlot DEF IInv, TypeOK

(* extend's checks in memory record the state on arrival.                  *)
LEMMA ExtendInv == ASSUME IInv, NEW r \in Request, Extend(r) PROVE IInv'
<1>1. PICK j \in held :
        /\ req' = [req EXCEPT ![r] =
             [Idle EXCEPT !.op = "extend", !.tok = j, !.at0 = At0(j), !.t0 = now,
                !.pc = IF exp[j] < now THEN "reply" ELSE "lookup",
                !.ans = IF exp[j] < now THEN "refused" ELSE "none"]]
        /\ UNCHANGED <<now, minted, exp, tables, held, history>>
  BY DEF Extend
<1> DEFINE x == [Idle EXCEPT !.op = "extend", !.tok = j, !.at0 = At0(j), !.t0 = now,
                !.pc = IF exp[j] < now THEN "reply" ELSE "lookup",
                !.ans = IF exp[j] < now THEN "refused" ELSE "none"]
<1>2. req' = [req EXCEPT ![r] = x]
  BY <1>1
<1>3. j \in Jti /\ Issued(j) /\ now \in Nat
  BY DEF IInv, TypeOK, Tables, IssuedIsAudited, Issued
<1>4. x \in ReqState
  <2>1. /\ At0(j) \in {"live", "dead"} /\ "extend" \in Op
        /\ (IF exp[j] < now THEN "reply" ELSE "lookup") \in PC
        /\ (IF exp[j] < now THEN "refused" ELSE "none") \in Answer
    BY DEF At0, Op, PC, Answer
  <2>2. QED
    BY <1>3, <2>1, IdleType DEF ReqState
<1>5. x.at0 = "dead" => Denied(x.tok)
  BY DEF At0, Idle
<1>6. x.pc \in {"lookup", "reply"} /\ x.ans \in {"none", "refused"}
      /\ (x.ans # "none" => x.pc = "reply") /\ x.tok = j
  BY DEF Idle
<1> HIDE DEF x
<1>7. QED
  BY <1>1, <1>2, <1>3, <1>4, <1>5, <1>6, FillSlot DEF IInv, TypeOK

(* revoke is asked for a token some client holds, so an issued one.        *)
LEMMA RevokeInv == ASSUME IInv, NEW r \in Request, Revoke(r) PROVE IInv'
<1>1. PICK j \in held :
        /\ req' = [req EXCEPT ![r] =
             [Idle EXCEPT !.op = "revoke", !.pc = "deny", !.tok = j]]
        /\ UNCHANGED <<now, minted, exp, tables, held, history>>
  BY DEF Revoke
<1> DEFINE x == [Idle EXCEPT !.op = "revoke", !.pc = "deny", !.tok = j]
<1>2. req' = [req EXCEPT ![r] = x]
  BY <1>1
<1>3. j \in Jti /\ Issued(j)
  BY DEF IInv, TypeOK, Tables, IssuedIsAudited, Issued
<1>4. x \in ReqState
  BY <1>3, IdleType DEF ReqState, Op, PC, Answer
<1>5. x.pc = "deny" /\ x.ans = "none" /\ x.at0 = "live" /\ x.tok = j
  BY DEF Idle
<1> HIDE DEF x
<1>6. QED
  BY <1>1, <1>2, <1>3, <1>4, <1>5, FillSlot DEF IInv, TypeOK

(* A revocation by jti starts with the look-up of its row.                 *)
LEMMA RevokeByJtiInv ==
  ASSUME IInv, NEW r \in Request, RevokeByJti(r) PROVE IInv'
<1>1. PICK j \in Jti :
        /\ req' = [req EXCEPT ![r] =
             [Idle EXCEPT !.op = "revoke", !.pc = "row", !.tok = j]]
        /\ UNCHANGED <<now, minted, exp, tables, held, history>>
  BY DEF RevokeByJti
<1> DEFINE x == [Idle EXCEPT !.op = "revoke", !.pc = "row", !.tok = j]
<1>2. req' = [req EXCEPT ![r] = x]
  BY <1>1
<1>3. x \in ReqState
  BY IdleType DEF ReqState, Op, PC, Answer
<1>4. x.pc = "row" /\ x.ans = "none" /\ x.at0 = "live"
  BY DEF Idle
<1> HIDE DEF x
<1>5. QED
  BY <1>1, <1>2, <1>3, <1>4, FillSlot DEF IInv, TypeOK

(* Emptying the slot, with or without the client learning of a token.      *)
LEMMA ReplyInv == ASSUME IInv, NEW r \in Request, Reply(r) PROVE IInv'
<1>1. \A j \in held' : j \in Jti /\ (j \in held \/ Issued(j))
  BY DEF IInv, TypeOK, Local, AnswerSound, Reply, Issued
<1>2. Idle.pc = "idle" /\ Idle.ans = "none" /\ Idle.at0 = "live"
  BY DEF Idle
<1>3. credited' \in [Jti -> Nat]
  <2>1. credited \in [Jti -> Nat]
    BY DEF IInv, TypeOK
  <2>2. CASE req[r].tok \in Jti
    BY <2>1, <2>2 DEF Reply
  <2>3. CASE req[r].tok \notin Jti
    BY <2>1, <2>3 DEF Reply
  <2>4. QED
    BY <2>2, <2>3
<1>4. QED
  BY <1>1, <1>2, <1>3, IdleType, SlotInv DEF Reply

(* A dropped request takes its uncommitted work with it.                   *)
LEMMA AbandonInv == ASSUME IInv, NEW r \in Request, Abandon(r) PROVE IInv'
<1>1. Idle.pc = "idle" /\ Idle.ans = "none" /\ Idle.at0 = "live"
  BY DEF Idle
<1>2. QED
  BY <1>1, IdleType, FillSlot DEF Abandon, IInv, TypeOK

(* A request that moves on without answering or touching a table.          *)
LEMMA GotoInv ==
  ASSUME IInv, NEW r \in Request, NEW p \in {"deny", "chain", "commit"},
         req' = [req EXCEPT ![r].pc = p],
         req[r].pc \in {"row", "lookup", "tx"},
         p = "deny" => req[r].pc = "row" /\ req[r].tok \in Jti /\ Issued(req[r].tok),
         p = "chain" => req[r].pc = "lookup" /\ req[r].at0 = "live",
         p = "commit" => req[r].pc = "tx",
         UNCHANGED <<now, minted, exp, tables, held, history>>
  PROVE  IInv'
<1>1. /\ req' \in [Request -> ReqState]
      /\ \A q \in Request : q # r => req'[q] = req[q]
      /\ req'[r].pc = p
      /\ req'[r].tok = req[r].tok /\ req'[r].new = req[r].new
      /\ req'[r].root = req[r].root /\ req'[r].prev = req[r].prev
      /\ req'[r].ans = req[r].ans /\ req'[r].at0 = req[r].at0
  BY GotoEffect DEF IInv, TypeOK, PC
<1>2. TypeOK'
  BY <1>1 DEF IInv, TypeOK, tables, history
<1>3. Local(r)'
  <2>1. Local(r)
    BY DEF IInv
  <2>2. PendingSound(r)'
    BY <1>1, <2>1 DEF Local, PendingSound, Pending, tables, history, Recorded
  <2>3. TokSound(r)'
    BY <1>1, <2>1 DEF Local, TokSound, tables, Issued, Recorded
  <2>4. ColumnsSound(r)'
    BY <1>1, <2>1 DEF Local, ColumnsSound, tables, Origin, Recorded
  <2>5. AnswerSound(r)'
    BY <1>1, <2>1 DEF Local, AnswerSound
  <2>6. QED
    BY <2>2, <2>3, <2>4, <2>5 DEF Local
<1>4. Pending(r)' => Pending(r)
  BY <1>1 DEF Pending
<1>5. QED
  BY <1>1, <1>2, <1>3, <1>4, QuietStep
     DEF IInv, Tables, RowsSound, Distinct, tables, history

(* Only a token with a row goes on to be denylisted by jti.                *)
LEMMA SelectRowInv == ASSUME IInv, NEW r \in Request, SelectRow(r) PROVE IInv'
<1>1. CASE Recorded(req[r].tok)
  <2>1. req[r].tok \in Jti /\ Issued(req[r].tok)
    BY <1>1 DEF IInv, TypeOK, Row, Recorded, Issued
  <2>2. QED
    BY <1>1, <2>1, GotoInv DEF SelectRow
<1>2. CASE ~Recorded(req[r].tok)
  BY <1>2, PlainEnd DEF SelectRow, Answer
<1>3. QED
  BY <1>1, <1>2

(* extend goes on only with a token found live.                            *)
LEMMA ExtendLookupInv ==
  ASSUME IInv, NEW r \in Request, ExtendLookup(r) PROVE IInv'
<1>1. CASE Denied(req[r].tok)
  BY <1>1, PlainEnd DEF ExtendLookup, Answer
<1>2. CASE ~Denied(req[r].tok)
  <2>1. req[r].at0 = "live"
    BY <1>2 DEF IInv, TypeOK, ReqState, Local, AnswerSound, ExtendLookup
  <2>2. QED
    BY <1>2, <2>1, GotoInv DEF ExtendLookup
<1>3. QED
  BY <1>1, <1>2

(* The open transaction changes nothing that others see.                   *)
LEMMA TxInsertsInv == ASSUME IInv, NEW r \in Request, TxInserts(r) PROVE IInv'
  BY GotoInv DEF TxInserts

(* A request that draws a fresh token: nobody else is issuing it.          *)
LEMMA MintInv ==
  ASSUME IInv, NEW r \in Request, NEW j \in Jti \ minted, NEW x \in ReqState,
         NEW e \in Nat, NEW p \in Jti \cup {NoJti},
         minted' = minted \cup {j},
         exp' = [exp EXCEPT ![j] = e],
         parent' = [parent EXCEPT ![j] = p],
         req' = [req EXCEPT ![r] = x],
         x.new = j, x.ans = "none", x.at0 = "live",
         \/ x.pc = "insert" /\ p = NoJti
         \/ /\ x.pc = "tx" /\ p = x.tok /\ x.root \in Jti
            /\ x.tok \in Jti /\ Issued(x.tok) /\ Origin(x.tok, x.root, x.prev),
         UNCHANGED <<now, tables, held, credited>>
  PROVE  IInv'
<1>1. /\ req' \in [Request -> ReqState]
      /\ \A q \in Request : q # r => req'[q] = req[q]
      /\ req'[r] = x
  BY SlotEffect DEF IInv, TypeOK
<1>2. TypeOK'
  BY <1>1 DEF IInv, TypeOK, tables
<1>3. j \notin Preissued /\ ~Recorded(j)
  BY DEF IInv, Tables, RowsSound, Recorded
<1>4. parent'[j] = p /\ \A k \in minted : parent'[k] = parent[k]
  BY DEF IInv, TypeOK
<1>5. Local(r)'
  <2>1. PendingSound(r)'
    BY <1>1, <1>3, <1>4 DEF PendingSound, Pending, Recorded, tables
  <2>2. TokSound(r)' /\ ColumnsSound(r)' /\ AnswerSound(r)'
    BY <1>1 DEF TokSound, ColumnsSound, AnswerSound, Issued, Origin, Recorded, tables
  <2>3. QED
    BY <2>1, <2>2 DEF Local
<1>6. \A q \in Request : q # r /\ Pending(q) => req'[r].new # req[q].new
  BY <1>1 DEF IInv, Local, PendingSound
<1>7. \A k \in Jti \ minted' : parent'[k] = NoJti
  BY DEF IInv, TypeOK, Tables, RowsSound
<1>8. QED
  BY <1>1, <1>2, <1>4, <1>5, <1>6, <1>7, QuietStep DEF tables

(* generate signs a token that is new and has no parent.                   *)
LEMMA GenerateInv == ASSUME IInv, NEW r \in Request, Generate(r) PROVE IInv'
<1>1. PICK life \in Lifetimes \ {0}, j \in Jti \ minted :
        /\ minted' = minted \cup {j}
        /\ exp' = [exp EXCEPT ![j] = now + life]
        /\ req' = [req EXCEPT ![r] =
             [Idle EXCEPT !.op = "generate", !.pc = "insert", !.new = j]]
        /\ UNCHANGED <<now, tables, held, history>>
  BY DEF Generate
<1> DEFINE x == [Idle EXCEPT !.op = "generate", !.pc = "insert", !.new = j]
<1>2. req' = [req EXCEPT ![r] = x]
  BY <1>1
<1>3. x \in ReqState
  BY IdleType DEF ReqState, Op, PC
<1>4. x.new = j /\ x.ans = "none" /\ x.at0 = "live" /\ x.pc = "insert"
  BY DEF Idle
<1>5. PICK e \in Nat : exp' = [exp EXCEPT ![j] = e]
  <2>1. now + life \in Nat
    BY LifetimesAssumption DEF IInv, TypeOK
  <2>2. QED
    BY <1>1, <2>1
<1>6. parent' = [parent EXCEPT ![j] = NoJti]
  BY <1>1 DEF IInv, TypeOK, Tables, RowsSound, history
<1> HIDE DEF x
<1>7. QED
  <2>1. UNCHANGED <<now, tables, held, credited>>
    BY <1>1 DEF history
  <2>2. NoJti \in Jti \cup {NoJti} /\ minted' = minted \cup {j}
    BY <1>1
  <2>3. QED
    BY <1>2, <1>3, <1>4, <1>5, <1>6, <2>1, <2>2, MintInv

(* Reading the chain columns and minting the successor.                    *)
LEMMA SelectChainInv ==
  ASSUME IInv, NEW r \in Request, SelectChain(r) PROVE IInv'
<1>1. CASE Ends(r, "refused") /\ UNCHANGED <<minted, exp, parent>>
  BY <1>1, PlainEnd DEF SelectChain, Answer, history
<1> DEFINE old == req[r].tok
           root == IF Recorded(old) THEN RowOf(old).original_jwt_uuid ELSE old
           prev == IF Recorded(old) THEN old ELSE NoJti
<1>2. ASSUME NEW life \in Lifetimes \ {0}, NEW j \in Jti \ minted,
             minted' = minted \cup {j},
             exp' = [exp EXCEPT ![j] = req[r].t0 + life],
             parent' = [parent EXCEPT ![j] = old],
             req' = [req EXCEPT ![r] =
               [@ EXCEPT !.pc = "tx", !.new = j, !.root = root, !.prev = prev]]
      PROVE  IInv'
  <2> DEFINE x == [req[r] EXCEPT !.pc = "tx", !.new = j, !.root = root,
                                 !.prev = prev]
  <2>1. req[r] \in ReqState /\ req[r].pc = "chain"
    BY DEF SelectChain, IInv, TypeOK
  <2>2. old \in Jti /\ Issued(old)
    BY <2>1 DEF IInv, Local, TokSound
  <2>3. Recorded(old) => RowOf(old) \in metadata /\ RowOf(old).jwt_uuid = old
    BY DEF Recorded, RowOf
  <2>4. root \in Jti /\ prev \in Jti \cup {NoJti} /\ Origin(old, root, prev)
    BY <2>2, <2>3 DEF IInv, TypeOK, Row, Tables, RowsSound, Origin, Recorded
  <2> HIDE DEF root, prev
  <2>5. x \in ReqState
    BY <2>1, <2>4 DEF ReqState, PC
  <2>6. /\ x.new = j /\ x.pc = "tx" /\ x.root = root /\ x.prev = prev
        /\ x.tok = old /\ x.ans = req[r].ans /\ x.at0 = req[r].at0
    BY <2>1 DEF ReqState
  <2>7. req[r].ans = "none" /\ req[r].at0 = "live"
    BY <2>1 DEF IInv, Local, AnswerSound, ReqState
  <2>8. PICK e \in Nat : exp' = [exp EXCEPT ![j] = e]
    <3>1. req[r].t0 \in Nat
      BY <2>1 DEF ReqState
    <3>2. req[r].t0 + life \in Nat
      BY <3>1, LifetimesAssumption
    <3>3. QED
      BY <1>2, <3>2
  <2>9. req' = [req EXCEPT ![r] = x]
    BY <1>2
  <2>10. UNCHANGED <<now, tables, held, credited>>
    BY DEF SelectChain
  <2>11. /\ x.pc = "tx" /\ old = x.tok /\ x.root \in Jti
         /\ x.tok \in Jti /\ Issued(x.tok) /\ Origin(x.tok, x.root, x.prev)
    BY <2>2, <2>4, <2>6
  <2>12. x.new = j /\ x.ans = "none" /\ x.at0 = "live"
    BY <2>6, <2>7
  <2>13. old \in Jti \cup {NoJti}
    BY <2>2
  <2>14. minted' = minted \cup {j} /\ parent' = [parent EXCEPT ![j] = old]
    BY <1>2
  <2> HIDE DEF x, old
  <2>15. QED
    BY <2>5, <2>8, <2>9, <2>10, <2>11, <2>12, <2>13, <2>14, MintInv
<1>3. QED
  BY <1>1, <1>2 DEF SelectChain

-----------------------------------------------------------------------------
(* The three steps that write the tables.                                  *)

(* A row for a new token: what it adds to the audit table.  Its parent, if *)
(* it has one, is denylisted by the same step.                             *)
LEMMA RecordInv ==
  ASSUME IInv, NEW r \in Request, Pending(r), NEW row \in Row,
         row.jwt_uuid = req[r].new,
         metadata' = metadata \cup {row},
         IF parent[row.jwt_uuid] = NoJti
           THEN row.original_jwt_uuid = row.jwt_uuid /\ row.supersedes = NoJti
           ELSE /\ Issued(parent[row.jwt_uuid])
                /\ Origin(parent[row.jwt_uuid], row.original_jwt_uuid, row.supersedes),
         denylist \subseteq denylist', denylist' \subseteq DenyRow,
         \A d \in denylist' \ denylist : Issued(d.jwt_uuid) /\ d.reason = "superseded_by_extend"
                                         /\ parent[row.jwt_uuid] = d.jwt_uuid,
         parent[row.jwt_uuid] # NoJti =>
           \E d \in denylist' : d.jwt_uuid = parent[row.jwt_uuid],
         NEW a \in {"created", "extended"}, Ends(r, a), req[r].at0 = "live",
         UNCHANGED <<now, minted, exp, held, history>>
  PROVE  IInv'
<1>1. /\ req' \in [Request -> ReqState]
      /\ \A q \in Request : q # r => req'[q] = req[q]
      /\ req'[r].pc = "reply" /\ req'[r].ans = a
      /\ req'[r].tok = req[r].tok /\ req'[r].new = req[r].new
      /\ req'[r].at0 = req[r].at0
  BY EndsEffect DEF IInv, TypeOK, Answer
<1>2. TypeOK'
  BY <1>1 DEF IInv, TypeOK, history
<1>3. PendingSound(r)
  BY DEF IInv, Local
<1>4. ~Issued(row.jwt_uuid) /\ row.jwt_uuid \in minted
  BY <1>3 DEF PendingSound, Issued
<1>5. \A q \in Request : Local(q)'
  <2>1. ASSUME NEW q \in Request, q # r PROVE Local(q)'
    <3>1. Pending(q) => row.jwt_uuid # req[q].new
      BY <2>1 DEF IInv, Distinct
    <3>2. Grows(q)
      BY <1>4, <3>1 DEF Grows, history
    <3>3. QED
      BY <1>1, <2>1, <3>2, OthersKept
  <2>2. Local(r)'
    BY <1>1 DEF Local, PendingSound, Pending, TokSound, ColumnsSound,
       AnswerSound, Recorded, Row
  <2>3. QED
    BY <2>1, <2>2
<1>6. Distinct'
  BY <1>1 DEF IInv, Distinct, Pending
<1>7. RowsSound'
  BY <1>4 DEF IInv, Tables, RowsSound, Issued, Recorded, history
<1>8. ChainSound'
  <2>1. \A j : Issued(j) => Issued(j)'
    BY DEF Issued, Recorded
  <2>2. \A j, root, prev : Issued(j) /\ Origin(j, root, prev) => Origin(j, root, prev)'
    BY <1>4 DEF Origin, Issued, Recorded
  <2>3. \A m \in metadata : (IF parent[m.jwt_uuid] = NoJti
      THEN m.original_jwt_uuid = m.jwt_uuid /\ m.supersedes = NoJti
      ELSE /\ Issued(parent[m.jwt_uuid])
           /\ Origin(parent[m.jwt_uuid], m.original_jwt_uuid, m.supersedes))
    BY DEF IInv, Tables, ChainSound
  <2>4. QED
    BY <2>1, <2>2, <2>3 DEF ChainSound, history
<1>9. SupersedeAtomic'
  BY DEF IInv, Tables, SupersedeAtomic, Denied, history
<1>10. IssuedIsAudited'
  BY DEF IInv, Tables, IssuedIsAudited, Issued, Recorded
<1>11. QED
  BY <1>2, <1>5, <1>6, <1>7, <1>8, <1>9, <1>10 DEF IInv, Tables

(* The INSERT of generate records a root.                                  *)
LEMMA InsertMetadataInv ==
  ASSUME IInv, NEW r \in Request, InsertMetadata(r) PROVE IInv'
<1> DEFINE row == [jwt_uuid |-> req[r].new, supersedes |-> NoJti,
                   original_jwt_uuid |-> req[r].new]
<1>1. Pending(r) /\ PendingSound(r) /\ req[r].pc = "insert" /\ AnswerSound(r)
  BY DEF InsertMetadata, Pending, IInv, Local
<1>2. req[r].new \in Jti /\ parent[req[r].new] = NoJti
  BY <1>1 DEF PendingSound, IInv, TypeOK
<1>3. row \in Row /\ row.jwt_uuid = req[r].new
  BY <1>2 DEF Row
<1>4. req[r].at0 = "live"
  BY <1>1 DEF AnswerSound, IInv, TypeOK, ReqState
<1>5. denylist' = denylist /\ metadata' = metadata \cup {row} /\ denylist \subseteq DenyRow
      /\ Ends(r, "created") /\ UNCHANGED <<now, minted, exp, held, history>>
  BY DEF InsertMetadata, IInv, TypeOK
<1>6. row.original_jwt_uuid = row.jwt_uuid /\ row.supersedes = NoJti
  OBVIOUS
<1> HIDE DEF row
<1>7. QED
  BY <1>1, <1>2, <1>3, <1>4, <1>5, <1>6, RecordInv

(* COMMIT records the successor and denylists its parent together.         *)
LEMMA CommitInv == ASSUME IInv, NEW r \in Request, Commit(r) PROVE IInv'
<1> DEFINE row == [jwt_uuid |-> req[r].new, supersedes |-> req[r].prev,
                   original_jwt_uuid |-> req[r].root]
           deny == [jwt_uuid |-> req[r].tok, reason |-> "superseded_by_extend"]
<1>1. /\ Pending(r) /\ req[r].pc = "commit" /\ req[r] \in ReqState
      /\ PendingSound(r) /\ TokSound(r) /\ ColumnsSound(r) /\ AnswerSound(r)
  BY DEF Commit, Pending, IInv, TypeOK, Local
<1>2. /\ req[r].tok \in Jti /\ Issued(req[r].tok) /\ req[r].root \in Jti
      /\ Origin(req[r].tok, req[r].root, req[r].prev)
      /\ parent[req[r].new] = req[r].tok /\ req[r].new \in Jti
      /\ req[r].tok # NoJti
  BY <1>1, NoJtiAssumption DEF TokSound, ColumnsSound, PendingSound, IInv, TypeOK
<1>3. row \in Row /\ deny \in DenyRow
  BY <1>1, <1>2 DEF Row, DenyRow, ReqState
<1>4. req[r].at0 = "live"
  BY <1>1 DEF AnswerSound, ReqState
<1>5. /\ metadata' = metadata \cup {row} /\ Ends(r, "extended")
      /\ denylist' = denylist \cup (IF Denied(req[r].tok) THEN {} ELSE {deny})
      /\ UNCHANGED <<now, minted, exp, held, history>>
      /\ denylist \subseteq DenyRow
  BY DEF Commit, IInv, TypeOK
<1>6. /\ row.jwt_uuid = req[r].new /\ row.original_jwt_uuid = req[r].root
      /\ row.supersedes = req[r].prev /\ deny.jwt_uuid = req[r].tok
      /\ deny.reason = "superseded_by_extend"
  OBVIOUS
<1> HIDE DEF row, deny
<1>7. \E d \in denylist' : d.jwt_uuid = req[r].tok
  BY <1>5, <1>6 DEF Denied
<1>8. QED
  BY <1>1, <1>2, <1>3, <1>4, <1>5, <1>6, <1>7, RecordInv

(* An issued token is denylisted, whoever is told of it.                   *)
LEMMA DenyInv ==
  ASSUME IInv, NEW j \in Jti, Issued(j),
         denylist' = denylist \cup {[jwt_uuid |-> j, reason |-> "revoked"]},
         credited' \in [Jti -> Nat],
         UNCHANGED <<now, minted, exp, metadata, held, parent>>,
         req' \in [Request -> ReqState],
         \A q \in Request : req'[q] = req[q] \/ (Local(q)' /\ ~Pending(q)')
  PROVE  IInv'
<1>1. TypeOK'
  BY DEF IInv, TypeOK, DenyRow
<1>2. ASSUME NEW q \in Request PROVE Local(q)'
  <2>1. Grows(q)
    BY DEF Grows
  <2>2. QED
    BY <2>1, OthersKept
<1>3. Distinct'
  BY DEF IInv, Distinct, Pending
<1>4. RowsSound' /\ ChainSound'
  BY DEF IInv, Tables, RowsSound, ChainSound, Issued, Origin, Recorded
<1>5. SupersedeAtomic'
  BY DEF IInv, Tables, SupersedeAtomic, Denied
<1>6. IssuedIsAudited'
  BY DEF IInv, Tables, IssuedIsAudited, Issued, Recorded
<1>7. QED
  BY <1>1, <1>2, <1>3, <1>4, <1>5, <1>6 DEF IInv, Tables

(* The INSERT of a revocation.                                             *)
LEMMA InsertDenylistInv ==
  ASSUME IInv, NEW r \in Request, InsertDenylist(r) PROVE IInv'
<1>1. CASE Denied(req[r].tok)
  BY <1>1, PlainEnd DEF InsertDenylist, Answer, tables, history
<1>2. CASE ~Denied(req[r].tok)
  <2> DEFINE j == req[r].tok
  <2>1. /\ req[r].pc = "deny"
        /\ denylist' = denylist \cup {[jwt_uuid |-> j, reason |-> "revoked"]}
        /\ Ends(r, "revoked")
        /\ UNCHANGED <<now, minted, exp, metadata, held, parent, credited>>
    BY <1>2 DEF InsertDenylist, history
  <2>2. j \in Jti /\ Issued(j)
    BY <2>1 DEF IInv, Local, TokSound
  <2>3. /\ req' \in [Request -> ReqState]
        /\ \A q \in Request : q # r => req'[q] = req[q]
        /\ req'[r].pc = "reply" /\ req'[r].ans = "revoked"
    BY <2>1, EndsEffect DEF IInv, TypeOK, Answer
  <2>4. Local(r)' /\ ~Pending(r)'
    BY <2>3 DEF Local, PendingSound, Pending, TokSound, ColumnsSound, AnswerSound
  <2>5. credited' \in [Jti -> Nat]
    BY <2>1 DEF IInv, TypeOK
  <2> HIDE DEF j
  <2>6. QED
    BY <2>1, <2>2, <2>3, <2>4, <2>5, DenyInv
<1>3. QED
  BY <1>1, <1>2

-----------------------------------------------------------------------------
(***************************************************************************)
(* The theorems.                                                           *)
(***************************************************************************)

(* The invariant does not depend on who was told what.                     *)
LEMMA CreditFree ==
  ASSUME IInv, UNCHANGED <<now, minted, exp, metadata, denylist, req, held, parent>>,
         credited' \in [Jti -> Nat]
  PROVE  IInv'
<1>1. TypeOK'
  BY DEF IInv, TypeOK
<1>2. Tables' /\ Distinct'
  BY DEF IInv, Tables, RowsSound, ChainSound, SupersedeAtomic,
     IssuedIsAudited, Denied, Recorded, Issued, Origin, Distinct, Pending
<1>3. \A r \in Request : Local(r)'
  BY OthersKept DEF IInv, Grows
<1>4. QED
  BY <1>1, <1>2, <1>3 DEF IInv

(* Every action of the service keeps the invariant.                        *)
LEMMA NextInv == IInv /\ [Next]_vars => IInv'
<1> SUFFICES ASSUME IInv, [Next]_vars PROVE IInv'
  OBVIOUS
<1>1. CASE UNCHANGED vars
  BY <1>1, CreditFree DEF vars, IInv, TypeOK
<1>2. CASE Tick
  BY <1>2, TickInv
<1>3. ASSUME NEW r \in Request, Arrive(r) PROVE IInv'
  <2>1. CASE Validate(r) \/ Introspect(r)
    BY <2>1, CheckInv DEF Validate, Introspect, Op
  <2>2. QED
    BY <1>3, <2>1, RefuseInv, GenerateInv, RevokeInv, RevokeByJtiInv, ExtendInv
       DEF Arrive
<1>4. ASSUME NEW r \in Request, Advance(r) PROVE IInv'
  BY <1>4, InsertMetadataInv, AnswerLookupInv, SelectRowInv, InsertDenylistInv,
     ExtendLookupInv, SelectChainInv, TxInsertsInv, CommitInv, ReplyInv
     DEF Advance
<1>5. ASSUME NEW r \in Request, Abandon(r) PROVE IInv'
  BY <1>5, AbandonInv
<1>6. QED
  BY <1>1, <1>2, <1>3, <1>4, <1>5 DEF Next

(* The inductive invariant holds in every state of every behaviour.        *)
THEOREM InvariantHolds == Spec => []IInv
<1>1. QED
  BY InitInv, NextInv, PTL DEF Spec

(* Every variable of the service keeps its type.                           *)
THEOREM TypeCorrect == Spec => []TypeOK
<1>1. IInv => TypeOK
  BY DEF IInv
<1>2. QED
  BY <1>1, InvariantHolds, PTL

(* Extend's two INSERTs are seen together or not at all.                   *)
THEOREM ExtendIsAtomic == Spec => []SupersedeAtomic
<1>1. IInv => SupersedeAtomic
  BY DEF IInv, Tables
<1>2. QED
  BY <1>1, InvariantHolds, PTL

(* Clients hold, and the denylist names, only tokens that were issued.     *)
THEOREM IssuedAlwaysAudited == Spec => []IssuedIsAudited
<1>1. IInv => IssuedIsAudited
  BY DEF IInv, Tables
<1>2. QED
  BY <1>1, InvariantHolds, PTL

-----------------------------------------------------------------------------
(* Credit for a revocation.  A claim is an answer "newly revoked" that its *)
(* caller has not received yet: there is one claim or one credited caller  *)
(* per token at most, and its denylist row is the revocation's.            *)
RevokedRow(j) == [jwt_uuid |-> j, reason |-> "revoked"]

Claim(r, j) == req[r].ans = "revoked" /\ req[r].tok = j

CreditInv ==
  /\ CreditedOnce
  /\ \A r \in Request, j \in Jti :
       Claim(r, j) => RevokedRow(j) \in denylist /\ credited[j] = 0
  /\ \A r, q \in Request, j \in Jti : Claim(r, j) /\ Claim(q, j) => r = q

(* The three things a step does to claims: nothing new, a claim by the     *)
(* INSERT that found no row, and the delivery of one.                      *)
ClaimsRest ==
  /\ credited' = credited
  /\ \A r \in Request, j \in Jti : Claim(r, j)' => Claim(r, j)

ClaimMade(r, j) ==
  /\ ~Denied(j)
  /\ RevokedRow(j) \in denylist'
  /\ credited' = credited
  /\ \A q \in Request, k \in Jti : Claim(q, k)' => Claim(q, k) \/ (q = r /\ k = j)

ClaimDelivered(r, j) ==
  /\ Claim(r, j)
  /\ credited' = [credited EXCEPT ![j] = @ + 1]
  /\ \A q \in Request, k \in Jti : Claim(q, k)' => Claim(q, k) /\ q # r

(* Rows are only ever added, by every step of the service.                 *)
LEMMA TablesGrow ==
  ASSUME [Next]_vars
  PROVE  metadata \subseteq metadata' /\ denylist \subseteq denylist'
<1>1. ASSUME NEW r \in Request, Arrive(r) \/ Advance(r) \/ Abandon(r)
      PROVE  metadata \subseteq metadata' /\ denylist \subseteq denylist'
  BY <1>1 DEF Arrive, Refuse, Generate, Validate, Introspect, Check, Revoke, RevokeByJti,
              Extend, Advance, InsertMetadata, InsertDenylist, AnswerLookup, SelectRow,
              ExtendLookup, SelectChain, TxInserts, Commit, Reply, Abandon, tables
<1>2. CASE Tick \/ UNCHANGED vars
  BY <1>2 DEF Tick, vars, tables
<1>3. QED
  BY <1>1, <1>2 DEF Next

(* A step of one request that does not answer "newly revoked".             *)
LEMMA NoClaim ==
  ASSUME NEW r \in Request, credited' = credited, req'[r].ans # "revoked",
         \A q \in Request : q # r => req'[q] = req[q]
  PROVE  ClaimsRest
  BY DEF ClaimsRest, Claim

(* Requests that arrive claim nothing.                                     *)
LEMMA ArrivalClaims ==
  ASSUME IInv, NEW r \in Request, Arrive(r)
  PROVE  ClaimsRest
<1>1. req \in [Request -> ReqState] /\ credited' = credited
  BY DEF IInv, TypeOK, Arrive, Refuse, Generate, Validate, Introspect, Check, Revoke,
         RevokeByJti, Extend, history
<1>2. CASE Refuse(r)
  BY <1>1, <1>2, EndsEffect, NoClaim DEF Refuse, Answer
<1>3. ASSUME NEW x, x.ans # "revoked", req' = [req EXCEPT ![r] = x] PROVE ClaimsRest
  BY <1>1, <1>3, NoClaim
<1>4. CASE Generate(r)
  BY <1>3, <1>4 DEF Generate, Idle
<1>5. CASE Validate(r) \/ Introspect(r)
  BY <1>3, <1>5 DEF Validate, Introspect, Check, Idle
<1>6. CASE Revoke(r) \/ RevokeByJti(r)
  BY <1>3, <1>6 DEF Revoke, RevokeByJti, Idle
<1>7. CASE Extend(r)
  BY <1>3, <1>7 DEF Extend, Idle
<1>8. QED
  BY <1>2, <1>4, <1>5, <1>6, <1>7 DEF Arrive

(* The INSERT that finds no row makes a claim, the other none.             *)
LEMMA InsertClaims ==
  ASSUME IInv, NEW r \in Request, InsertDenylist(r)
  PROVE  ClaimsRest \/ \E j \in Jti : ClaimMade(r, j)
<1>1. /\ req \in [Request -> ReqState] /\ credited' = credited
      /\ req[r].tok \in Jti
  BY DEF IInv, TypeOK, InsertDenylist, history, Local, TokSound
<1>2. CASE Denied(req[r].tok)
  BY <1>1, <1>2, EndsEffect, NoClaim DEF InsertDenylist, Answer
<1>3. CASE ~Denied(req[r].tok)
  <2>1. PICK j \in Jti : j = req[r].tok
    BY <1>1
  <2>2. Ends(r, "revoked") /\ RevokedRow(j) \in denylist'
    BY <1>3, <2>1 DEF InsertDenylist, RevokedRow
  <2>3. \A q \in Request : q # r => req'[q] = req[q]
    BY <1>1, <2>2, EndsEffect DEF Answer
  <2>4. req'[r].tok = j
    BY <1>1, <2>1, <2>2, EndsEffect DEF Answer
  <2>5. ClaimMade(r, j)
    BY <1>1, <1>3, <2>1, <2>2, <2>3, <2>4 DEF ClaimMade, Claim
  <2>6. QED
    BY <2>5
<1>4. QED
  BY <1>2, <1>3

(* Every other step of a request claims nothing, and a reply delivers.     *)
LEMMA AdvanceClaims ==
  ASSUME IInv, NEW r \in Request, Advance(r) \/ Abandon(r), ~InsertDenylist(r)
  PROVE  ClaimsRest \/ \E j \in Jti : ClaimDelivered(r, j)
<1>1. /\ req \in [Request -> ReqState] /\ credited \in [Jti -> Nat]
      /\ req[r].pc # "reply" => req[r].ans = "none"
  BY DEF IInv, TypeOK, Local, AnswerSound
<1>2. ASSUME NEW a \in Answer, a # "revoked", Ends(r, a), credited' = credited
      PROVE  ClaimsRest
  BY <1>1, <1>2, EndsEffect, NoClaim
<1>3. ASSUME NEW p \in PC, req' = [req EXCEPT ![r].pc = p], credited' = credited,
             req[r].pc # "reply"
      PROVE  ClaimsRest
  BY <1>1, <1>3, GotoEffect, NoClaim
<1>4. CASE InsertMetadata(r) \/ AnswerLookup(r) \/ Commit(r)
  BY <1>2, <1>4 DEF InsertMetadata, AnswerLookup, Commit, Answer, history
<1>5. CASE SelectRow(r) \/ ExtendLookup(r) \/ TxInserts(r)
  BY <1>2, <1>3, <1>5 DEF SelectRow, ExtendLookup, TxInserts, Answer, PC, history
<1>6. CASE SelectChain(r)
  <2>1. CASE Ends(r, "refused")
    BY <1>2, <1>6, <2>1 DEF SelectChain, Answer
  <2>2. CASE ~Ends(r, "refused")
    <3> DEFINE root == IF Recorded(req[r].tok) THEN RowOf(req[r].tok).original_jwt_uuid
                       ELSE req[r].tok
               prev == IF Recorded(req[r].tok) THEN req[r].tok ELSE NoJti
    <3>1. PICK j \in Jti :
            req' = [req EXCEPT ![r] = [@ EXCEPT !.pc = "tx", !.new = j, !.root = root,
                                                !.prev = prev]]
      BY <1>6, <2>2 DEF SelectChain
    <3> HIDE DEF root, prev
    <3>2. /\ req'[r] = [req[r] EXCEPT !.pc = "tx", !.new = j, !.root = root, !.prev = prev]
          /\ \A q \in Request : q # r => req'[q] = req[q]
      BY <1>1, <3>1
    <3>3. req'[r].ans = req[r].ans
      BY <1>1, <3>2 DEF ReqState
    <3>4. req[r].pc = "chain" /\ credited' = credited
      BY <1>6 DEF SelectChain
    <3>5. QED
      BY <1>1, <3>2, <3>3, <3>4, NoClaim
  <2>3. QED
    BY <2>1, <2>2
<1>7. ASSUME req' = [req EXCEPT ![r] = Idle]
      PROVE  req'[r].ans = "none" /\ \A q \in Request : q # r => req'[q] = req[q]
  BY <1>1, <1>7 DEF Idle
<1>8. CASE Abandon(r)
  BY <1>7, <1>8, NoClaim DEF Abandon, history
<1>9. CASE Reply(r)
  <2>1. CASE req[r].ans = "revoked" /\ req[r].tok \in Jti
    <3>1. PICK j \in Jti : j = req[r].tok
      BY <2>1
    <3>2. ClaimDelivered(r, j)
      BY <1>7, <1>9, <2>1, <3>1 DEF Reply, ClaimDelivered, Claim
    <3>3. QED
      BY <3>2
  <2>2. CASE req[r].ans = "revoked" /\ req[r].tok \notin Jti
    <3>1. credited' = credited
      BY <1>1, <1>9, <2>2 DEF Reply
    <3>2. QED
      BY <1>7, <1>9, <3>1, NoClaim DEF Reply
  <2>3. CASE req[r].ans # "revoked"
    BY <1>7, <1>9, <2>3, NoClaim DEF Reply
  <2>4. QED
    BY <2>1, <2>2, <2>3
<1>10. QED
  BY <1>4, <1>5, <1>6, <1>8, <1>9 DEF Advance

(* Every step of the service is one of the three.                          *)
LEMMA ClaimsStep ==
  ASSUME IInv, [Next]_vars
  PROVE  ClaimsRest \/ \E r \in Request, j \in Jti : ClaimMade(r, j) \/ ClaimDelivered(r, j)
<1>1. CASE Tick \/ UNCHANGED vars
  BY <1>1 DEF Tick, vars, history, ClaimsRest, Claim
<1>2. QED
  BY <1>1, ArrivalClaims, InsertClaims, AdvanceClaims DEF Next, Advance

(* A token nobody denylisted is neither claimed nor credited.              *)
LEMMA UnclaimedIfLive ==
  ASSUME CreditInv, TypeOK, NEW j \in Jti, ~Denied(j)
  PROVE  credited[j] = 0 /\ \A r \in Request : ~Claim(r, j)
<1>1. RevokedRow(j).jwt_uuid = j
  BY DEF RevokedRow
<1>2. RevokedRow(j) \notin denylist
  BY <1>1 DEF Denied
<1>3. QED
  BY <1>2 DEF CreditInv, CreditedOnce, TypeOK, RevokedRow

(* One claim or one credited caller per token, after every step.           *)
LEMMA CreditStep ==
  ASSUME IInv, CreditInv, [Next]_vars
  PROVE  CreditInv'
<1>1. denylist \subseteq denylist' /\ TypeOK
  BY TablesGrow DEF IInv
<1> DEFINE row(k) == RevokedRow(k)
<1>2. \A k \in Jti : credited[k] <= 1 /\ (credited[k] = 1 => row(k) \in denylist)
  BY DEF CreditInv, CreditedOnce, RevokedRow
<1>3. /\ \A r \in Request, k \in Jti : Claim(r, k) => row(k) \in denylist /\ credited[k] = 0
      /\ \A r, q \in Request, k \in Jti : Claim(r, k) /\ Claim(q, k) => r = q
  BY DEF CreditInv
<1> SUFFICES
      /\ \A k \in Jti : credited'[k] <= 1 /\ (credited'[k] = 1 => row(k) \in denylist')
      /\ \A r \in Request, k \in Jti :
           Claim(r, k)' => row(k) \in denylist' /\ credited'[k] = 0
      /\ \A r, q \in Request, k \in Jti : Claim(r, k)' /\ Claim(q, k)' => r = q
  BY DEF CreditInv, CreditedOnce, RevokedRow
<1>4. CASE ClaimsRest
  <2> HIDE DEF row
  <2>1. QED
    BY <1>1, <1>2, <1>3, <1>4 DEF ClaimsRest
<1>5. ASSUME NEW r \in Request, NEW j \in Jti, ClaimMade(r, j)
      PROVE  /\ \A k \in Jti : credited'[k] <= 1 /\ (credited'[k] = 1 => row(k) \in denylist')
             /\ \A q \in Request, k \in Jti :
                  Claim(q, k)' => row(k) \in denylist' /\ credited'[k] = 0
             /\ \A p, q \in Request, k \in Jti : Claim(p, k)' /\ Claim(q, k)' => p = q
  <2>1. credited[j] = 0 /\ \A q \in Request : ~Claim(q, j)
    BY <1>1, <1>5, UnclaimedIfLive DEF ClaimMade
  <2>2. row(j) \in denylist'
    BY <1>5 DEF ClaimMade
  <2> HIDE DEF row
  <2>3. QED
    BY <1>1, <1>2, <1>3, <1>5, <2>1, <2>2 DEF ClaimMade
<1>6. ASSUME NEW r \in Request, NEW j \in Jti, ClaimDelivered(r, j)
      PROVE  /\ \A k \in Jti : credited'[k] <= 1 /\ (credited'[k] = 1 => row(k) \in denylist')
             /\ \A q \in Request, k \in Jti :
                  Claim(q, k)' => row(k) \in denylist' /\ credited'[k] = 0
             /\ \A p, q \in Request, k \in Jti : Claim(p, k)' /\ Claim(q, k)' => p = q
  <2>1. credited[j] = 0 /\ row(j) \in denylist /\ \A q \in Request : Claim(q, j) => q = r
    BY <1>3, <1>6 DEF ClaimDelivered
  <2>2. credited'[j] = 1 /\ \A k \in Jti : k # j => credited'[k] = credited[k]
    BY <1>1, <1>6, <2>1 DEF ClaimDelivered, TypeOK
  <2> HIDE DEF row
  <2>3. QED
    BY <1>1, <1>2, <1>3, <1>6, <2>1, <2>2 DEF ClaimDelivered
<1>7. QED
  BY <1>4, <1>5, <1>6, ClaimsStep

LEMMA CreditInitially == Init => CreditInv
  BY DEF Init, CreditInv, CreditedOnce, Claim, Idle

(* However many revocations race, are lost and are tried again, at most    *)
(* one caller per token hears that it revoked it, and only a revocation    *)
(* that did retire the token does.                                         *)
THEOREM RevocationCreditedOnce == Spec => []CreditedOnce
<1>1. CreditInv => CreditedOnce
  BY DEF CreditInv
<1>2. QED
  BY <1>1, CreditInitially, CreditStep, InvariantHolds, PTL DEF Spec

LEMMA IInvAnswers == IInv => AnswersSound
  BY DEF IInv, TypeOK, ReqState, AnswersSound, Local, AnswerSound

(* A token dead on arrival is never reported active nor extended.          *)
THEOREM DeadOnArrivalStaysDead == Spec => []AnswersSound
  BY IInvAnswers, InvariantHolds, PTL

LEMMA IInvChains == IInv => ChainRooted
<1> SUFFICES ASSUME IInv, NEW m \in metadata
             PROVE  LET p == parent[m.jwt_uuid] IN
                      IF p = NoJti
                        THEN m.original_jwt_uuid = m.jwt_uuid /\ m.supersedes = NoJti
                        ELSE IF Recorded(p)
                          THEN /\ m.original_jwt_uuid = RowOf(p).original_jwt_uuid
                               /\ m.supersedes = p
                          ELSE m.original_jwt_uuid = p /\ m.supersedes = NoJti
  BY DEF ChainRooted
<1> DEFINE p == parent[m.jwt_uuid]
<1>1. Recorded(p) => RowOf(p) \in metadata /\ RowOf(p).jwt_uuid = p
  BY DEF Recorded, RowOf
<1>2. QED
  BY <1>1 DEF IInv, Tables, ChainSound, Origin

(* The audit columns tell the true history of every token.                 *)
THEOREM ChainsTellHistory == Spec => []ChainRooted
  BY IInvChains, InvariantHolds, PTL

-----------------------------------------------------------------------------
(* The refinement of TokenLedger.                                          *)

audited == {m.jwt_uuid : m \in metadata}
denied == {d.jwt_uuid : d \in denylist}

(* A step that leaves both tables alone is a stuttering step of the ledger. *)
LEMMA LedgerStutters ==
  ASSUME metadata' = metadata, denylist' = denylist
  PROVE  [Ledger!LedgerNext]_(Ledger!ledgerVars)
  BY DEF Ledger!ledgerVars

(* generate's INSERT is a step Issue of the ledger.                        *)
LEMMA InsertMetadataIssues ==
  ASSUME IInv, NEW r \in Request, InsertMetadata(r)
  PROVE  Ledger!LedgerNext
<1>1. PendingSound(r) /\ Pending(r)
  BY DEF InsertMetadata, Pending, IInv, Local
<1>2. PICK j \in Jti : j = req[r].new /\ ~Recorded(j)
  BY <1>1 DEF PendingSound, IInv, TypeOK
<1>3. PICK row : row.jwt_uuid = j /\ metadata' = metadata \cup {row}
  BY <1>2 DEF InsertMetadata
<1>4. j \notin audited /\ audited' = audited \cup {j}
  BY <1>2, <1>3 DEF audited, Recorded
<1>5. denied' = denied
  BY DEF InsertMetadata, denied
<1>6. Ledger!Issue(j)
  BY <1>4, <1>5 DEF Ledger!Issue, audited, denied
<1>7. QED
  BY <1>6 DEF Ledger!LedgerNext

(* revoke's INSERT is a step Retire of the ledger, or none.                *)
LEMMA InsertDenylistRetires ==
  ASSUME IInv, NEW r \in Request, InsertDenylist(r)
  PROVE  [Ledger!LedgerNext]_(Ledger!ledgerVars)
<1>1. CASE Denied(req[r].tok)
  BY <1>1, LedgerStutters DEF InsertDenylist
<1>2. CASE ~Denied(req[r].tok)
  <2>1. PICK j \in Jti : j = req[r].tok
    BY DEF InsertDenylist, IInv, Local, TokSound
  <2>2. PICK row : row.jwt_uuid = j /\ denylist' = denylist \cup {row}
    BY <1>2, <2>1 DEF InsertDenylist
  <2>3. j \notin denied /\ denied' = denied \cup {j}
    BY <1>2, <2>1, <2>2 DEF denied, Denied
  <2>4. audited' = audited
    BY DEF InsertDenylist, audited
  <2>5. Ledger!Retire(j)
    BY <2>3, <2>4 DEF Ledger!Retire, audited, denied
  <2>6. QED
    BY <2>5 DEF Ledger!LedgerNext
<1>3. QED
  BY <1>1, <1>2

(* extend's COMMIT is a step Supersede of the ledger.                      *)
LEMMA CommitSupersedes ==
  ASSUME IInv, NEW r \in Request, Commit(r)
  PROVE  Ledger!LedgerNext
<1>1. PendingSound(r) /\ Pending(r) /\ TokSound(r) /\ req[r].pc = "commit"
  BY DEF Commit, Pending, IInv, Local
<1>2. PICK old \in Jti, new \in Jti :
        old = req[r].tok /\ new = req[r].new /\ Issued(old) /\ ~Issued(new)
  BY <1>1 DEF PendingSound, TokSound, IInv, TypeOK, Issued
<1>3. new \notin audited /\ new \notin denied /\ old # new
  BY <1>2 DEF audited, denied, Issued, Recorded, IInv, Tables, IssuedIsAudited
<1>4. PICK row : row.jwt_uuid = new /\ metadata' = metadata \cup {row}
  BY <1>2 DEF Commit
<1>5. audited' = audited \cup {new}
  BY <1>4 DEF audited
<1>6. denied' = denied \cup {old}
  <2>1. CASE Denied(old)
    BY <1>2, <2>1 DEF Commit, denied, Denied
  <2>2. CASE ~Denied(old)
    <3>1. PICK d : d.jwt_uuid = old /\ denylist' = denylist \cup {d}
      BY <1>2, <2>2 DEF Commit
    <3>2. QED
      BY <3>1 DEF denied
  <2>3. QED
    BY <2>1, <2>2
<1>7. Ledger!Supersede(old, new)
  BY <1>3, <1>5, <1>6 DEF Ledger!Supersede, audited, denied
<1>8. QED
  BY <1>7 DEF Ledger!LedgerNext

(* Every step of the service is a step of the ledger or changes neither    *)
(* table.                                                                  *)
LEMMA StepRefines ==
  IInv /\ [Next]_vars => [Ledger!LedgerNext]_(Ledger!ledgerVars)
<1> SUFFICES ASSUME IInv, [Next]_vars
             PROVE  [Ledger!LedgerNext]_(Ledger!ledgerVars)
  OBVIOUS
<1> USE DEF tables
<1>1. CASE UNCHANGED vars
  BY <1>1, LedgerStutters DEF vars
<1>2. CASE Tick
  BY <1>2, LedgerStutters DEF Tick
<1>3. ASSUME NEW r \in Request, Arrive(r)
      PROVE  [Ledger!LedgerNext]_(Ledger!ledgerVars)
  BY <1>3, LedgerStutters
     DEF Arrive, Refuse, Generate, Validate, Introspect, Check, Revoke,
         RevokeByJti, Extend
<1>4. ASSUME NEW r \in Request, Advance(r)
      PROVE  [Ledger!LedgerNext]_(Ledger!ledgerVars)
  <2>1. CASE AnswerLookup(r) \/ SelectRow(r) \/ ExtendLookup(r)
             \/ SelectChain(r) \/ TxInserts(r) \/ Reply(r)
    BY <2>1, LedgerStutters
       DEF AnswerLookup, SelectRow, ExtendLookup, SelectChain, TxInserts, Reply
  <2>2. QED
    BY <1>4, <2>1, InsertMetadataIssues, InsertDenylistRetires, CommitSupersedes
       DEF Advance
<1>5. ASSUME NEW r \in Request, Abandon(r)
      PROVE  [Ledger!LedgerNext]_(Ledger!ledgerVars)
  BY <1>5, LedgerStutters DEF Abandon
<1>6. QED
  BY <1>1, <1>2, <1>3, <1>4, <1>5 DEF Next

(* The service, its races and failures included, implements the ledger.    *)
THEOREM RefinesLedger == Spec => ImplementsLedger
<1>1. Init => Ledger!LedgerInit
  BY DEF Init, Ledger!LedgerInit
<1>2. QED
  BY <1>1, StepRefines, InvariantHolds, PTL
     DEF Spec, ImplementsLedger, Ledger!LedgerSpec
=============================================================================
