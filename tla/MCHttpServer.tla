---------------------------- MODULE MCHttpServer ----------------------------
EXTENDS HttpServer, TLC

CONSTANTS c1, c2

(* A production deployment.                                                *)
Production ==
  [bind |-> "0.0.0.0", public_base_url |-> TRUE, auto_migrate |-> TRUE,
   issuer_localhost |-> FALSE, audience_validation |-> TRUE,
   previous_key |-> "own", session_store |-> "postgres",
   session_encryption_key_env |-> TRUE, sweep_interval |-> TRUE,
   discovery_url |-> "https", allow_http_discovery |-> FALSE, jwks_uri |-> "pin",
   redirect_uris |-> TRUE,
   required_client_auth |-> TRUE, gate_validation_endpoints |-> TRUE,
   gate_jvm_compat_endpoints |-> FALSE, clients |-> {c1, c2}, clients_named |-> TRUE,
   admin_token_env |-> TRUE, require_admin_token |-> TRUE,
   cors_allowed_origins |-> "none", content_security_policy |-> "set",
   x_frame_options |-> "set", strict_transport_security |-> "preload",
   file |-> "read", release |-> 1, db_url |-> "set", admin_token |-> "old",
   credentials |-> "set", session_key |-> "hex",
   client_secret |-> c1 :> "old" @@ c2 :> "new", TIM_OFFLINE |-> FALSE,
   private_key |-> "ok", previous_pem |-> "ok"]

(* One in which introspection is open and only validation is gated.        *)
OpenIntrospection == [Production EXCEPT !.required_client_auth = FALSE]

(* A developer's, without an admin token.                                  *)
Development ==
  [Production EXCEPT !.require_admin_token = FALSE, !.admin_token = "unset",
                     !.cors_allowed_origins = "star", !.session_store = "memory"]

(* The next release, which an edit may roll back.                          *)
NextRelease == [Production EXCEPT !.release = 2]

Deployments == {Production, OpenIntrospection, Development, NextRelease}

(* Requests are served after boots without a doctor and before any day has *)
(* passed: a request depends on neither.                                   *)
Focus ==
  (\E i \in Request : req[i].pc # "none") =>
    proc.report = NoReport /\ report = NoReport /\ left = "more"
=============================================================================
