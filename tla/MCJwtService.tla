---------------------------- MODULE MCJwtService ----------------------------
(* JwtService on small instances.                                          *)
EXTENDS JwtService, TLC

(* Tokens and request slots are interchangeable.                           *)
Interchangeable ==
  Permutations(Jti \ Preissued) \cup Permutations(Request)
=============================================================================
