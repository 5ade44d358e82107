------------------------------ MODULE IdToken -------------------------------
(***************************************************************************)
(* idtoken::verify (oauth2/idtoken.rs): an ID token is checked with the    *)
(* key set that JwksCache hands over, while the provider rotates its keys. *)
(* A provider signs with its newest key and still publishes the one before *)
(* it.                                                                     *)
(***************************************************************************)
EXTENDS JwksCache, Integers, Sequences

CONSTANTS
  KeyAlg,   \* the algorithm each provider's keys declare, or only their type
  Skew      \* token_validation.clock_skew_seconds

Alg == {"RS256", "RS512", "ES256"}
KeyType == {"RSA", "EC"}

ASSUME IdTokenAssumption ==
  /\ KeyAlg \in [Provider -> [Version -> Alg \cup KeyType]]
  /\ Skew \in Nat

(* The keys of the v-th set, the newest first.                             *)
KeySet(v) == IF v = 1 THEN <<1>> ELSE <<v, v - 1>>

(* The type of key that an algorithm is for, and that a key is of.         *)
Family(alg) ==
  CASE alg \in {"RS256", "RS512", "RSA"} -> "RSA"
    [] alg \in {"ES256", "EC"} -> "EC"
    [] OTHER -> "symmetric"

(* A token signed with a key of provider p: kid is 0 when the header names *)
(* no key, alg is the header's algorithm and the one it was signed with;   *)
(* left, ahead and early are exp, iat and nbf minus the present time; sub  *)
(* says whether there is one, iss, aud and nonce whether the claim is the  *)
(* expected one.                                                           *)
Plain(p, key) ==
  [key |-> key, kid |-> key, left |-> 1, ahead |-> 0, early |-> 0,
   alg |-> IF Family(KeyAlg[p][key]) = "RSA" THEN "RS256" ELSE "ES256",
   sub |-> TRUE, iss |-> TRUE, aud |-> TRUE, nonce |-> TRUE]

(* Tokens with a peculiar header and tokens with one peculiar claim.       *)
Token(p) ==
  UNION {
    LET t == Plain(p, key) IN
      {[t EXCEPT !.sub = FALSE], [t EXCEPT !.iss = FALSE],
       [t EXCEPT !.aud = FALSE], [t EXCEPT !.nonce = FALSE]}
        \cup {[t EXCEPT !.kid = kid] : kid \in Version}
        \cup {[t EXCEPT !.alg = alg] : alg \in {"HS256"} \cup Alg}
        \cup {[t EXCEPT !.kid = 0, !.alg = alg] : alg \in {"HS256"} \cup Alg}
        \cup {[t EXCEPT !.left = n] : n \in {-Skew - 1, -Skew}}
        \cup {[t EXCEPT !.ahead = n] : n \in {Skew, Skew + 1}}
        \cup {[t EXCEPT !.early = n] : n \in {Skew, Skew + 1}}
    : key \in Version}

(* The algorithm that the key declares, or one for a key of its type.      *)
jwk_matches_alg(p, key, alg) ==
  IF KeyAlg[p][key] \in KeyType THEN KeyAlg[p][key] = Family(alg)
  ELSE KeyAlg[p][key] = alg

(* The key that a kid names, or the first that matches the algorithm; 0    *)
(* when there is none.                                                     *)
SelectKey(p, set, t) ==
  LET ks == KeySet(set)
      fits == {i \in DOMAIN ks : IF t.kid # 0 THEN ks[i] = t.kid
                                 ELSE jwk_matches_alg(p, ks[i], t.alg)}
  IN  IF fits = {} THEN 0 ELSE ks[CHOOSE i \in fits : \A j \in fits : i <= j]

(* exp and nbf with the configured skew as leeway, sub, iss, aud, iat and  *)
(* nonce.                                                                  *)
ClaimsHold(t) ==
  /\ t.left >= -Skew /\ t.early <= Skew /\ t.sub /\ t.iss
  /\ t.aud /\ t.ahead <= Skew /\ t.nonce

(* verify, once the keys are there.  A symmetric algorithm is refused even *)
(* before they are asked for, which only saves the load.  The library      *)
(* wants a key of the algorithm's type; the algorithm that a key declares  *)
(* only counts where no kid selects it.                                    *)
VerifyToken(p, set, t) ==
  /\ t.alg # "HS256"
  /\ LET key == SelectKey(p, set, t) IN
       /\ key # 0
       /\ Family(KeyAlg[p][key]) = Family(t.alg)
       /\ t.key = key
  /\ ClaimsHold(t)

Decide(c) ==
  LET v == verify[c] IN
    /\ v.pc = "reply"
    /\ \E t \in Token(v.provider) :
         verify' = [verify EXCEPT ![c] = [NoVerify EXCEPT !.pc =
           IF v.ans = "ok" /\ VerifyToken(v.provider, v.set, t)
             THEN "accepted" ELSE "refused"]]
    /\ UNCHANGED <<now, keys, replaced, cache>>

IdTokenNext == JwksNext \/ \E c \in Caller : Decide(c)

(* A task that can go on does; the HTTP client's timeout ends every load.  *)
IdTokenSpec ==
  /\ JwksInit /\ [][IdTokenNext]_jwksVars
  /\ \A c \in Caller :
       WF_jwksVars(Fetch(c)) /\ WF_jwksVars(Loaded(c) \/ LoadFails(c))
-----------------------------------------------------------------------------
(* When the provider last published a key: until the set after the one     *)
(* that introduced it is replaced, Never when that has not happened.       *)
Withdrawn(p, key) == IF key + 1 \in Version THEN replaced[p][key + 1] ELSE Never

(* Whatever token an ID-token verification may accept with the keys it was *)
(* handed, it is signed with an asymmetric key of the provider, by an      *)
(* algorithm for keys of that type and, unless it names the key, by the    *)
(* one the key declares; the key was still published at most the greatest  *)
(* TTL, floored, and one HTTP timeout ago; the token expired at most the   *)
(* clock skew ago, is issued and valid from no further in the future, and  *)
(* is meant for this client, this issuer and this login.                   *)
AcceptedTokenSound ==
  LET bound == Max({CacheTtl[p] : p \in Provider} \cup {Floor}) + Timeout IN
    \A c \in Caller :
      LET v == verify[c]
      IN  v.pc = "reply" /\ v.ans = "ok" =>
            \A t \in {u \in Token(v.provider) : VerifyToken(v.provider, v.set, u)} :
              /\ LET declared == KeyAlg[v.provider][t.key] IN
                   /\ t.alg \in Alg /\ Family(t.alg) = Family(declared)
                   /\ t.kid = 0 /\ declared \in Alg => t.alg = declared
              /\ LET when == Withdrawn(v.provider, t.key) IN
                   when # Never => v.at < when + bound
              /\ t.left + Skew >= 0 /\ t.ahead <= Skew /\ t.early <= Skew
              /\ t.iss /\ t.aud /\ t.nonce
=============================================================================
