---------------------------- MODULE MCOAuthLogin ----------------------------
EXTENDS OAuthLogin, TLC

(* No definition of the model chooses among logins or among flow slots.    *)
InterchangeableLogins == Permutations(Login) \cup Permutations(Flow)
=============================================================================
