------------------------------ MODULE MCIdToken -----------------------------
EXTENDS IdToken, TLC

CONSTANTS p1, p2

(* One provider asks for a short TTL, the other for a longer one.          *)
TwoTtls == p1 :> 1 @@ p2 :> 2

(* One provider rotates its keys twice, from one whose JWK only says that  *)
(* it is RSA to one of RS256 and to an elliptic curve at last.             *)
Versions == p1 :> 3 @@ p2 :> 1
Algs == [p \in Provider |-> <<"RSA", "RS256", "ES256">>]
=============================================================================
