---------------------------- MODULE MCJwtListing ----------------------------
EXTENDS JwtListing, TLC

(* Tokens and subjects are interchangeable, as no token is pre-issued.     *)
Interchangeable == Permutations(Jti) \cup Permutations(Subject)

(* Walks over pages of one row, while up to three tokens are generated and *)
(* extended: a row can be inserted while an older one is still unseen.     *)
Walking ==
  /\ now < MaxTime
  /\ \A d \in denylist : d.reason # "revoked"
  /\ \A r \in Request : req[r].op # "revoke"
  /\ \A j \in minted : sub[j] # NoSub
  /\ \A c \in Caller :
       call[c].kind # "userinfo" /\ call[c].pc # "unauthorized" /\ call[c].size = 1

(* Single requests for the whole list or for userinfo, with up to two      *)
(* tokens, which are revoked too.                                          *)
Asking ==
  /\ Cardinality(minted) <= 2
  /\ \A c \in Caller :
       call[c].kind = "list" => call[c].size = MaxSize /\ ~call[c].by_row

(* The two kinds of use explored.  Requests of the service that write      *)
(* nothing cannot be seen by a listing and are left aside.                 *)
Focus ==
  /\ \A r \in Request :
       /\ req[r].op \in {"none", "generate", "extend", "revoke"}
       /\ req[r].ans \notin {"refused", "not_found"}
  /\ Walking \/ Asking
=============================================================================
