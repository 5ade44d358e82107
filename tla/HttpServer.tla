----------------------------- MODULE HttpServer -----------------------------
(***************************************************************************)
(* The running server in front of the handlers (router/mod.rs,             *)
(* access_log.rs, security/): the layers a request passes on its way in,   *)
(* the gates that let it through and the layers its answer passes on its   *)
(* way out, while a timeout runs, the client may hang up and the process   *)
(* may be stopped.  What the handlers do is in the modules of their own;   *)
(* here a handler has an effect and then an outcome.                       *)
(***************************************************************************)
EXTENDS Boot, Sequences

CONSTANT Request   \* slots for requests in flight

VARIABLE req       \* the request in each slot

httpVars == <<bootVars, req>>

Endpoint == {"open", "admin", "introspect", "validate", "compat"}

(* x_tim_admin_token and authorization: what the headers carry, "none" or  *)
(* a secret, a bearer secret or a pair of client and secret.               *)
AdminHeader == {"none", "old", "new"}
Bearer == {<<"Bearer", s>> : s \in {"old", "new"}}
Basic == {<<"Basic", k, s>> : k \in Client, s \in {"empty", "old", "new"}}

(* A body that fits, one whose Content-Length is too large, one that turns *)
(* out too large while it is read, one that does not parse.                *)
Body == {"fits", "declared_large", "streamed_large", "malformed"}

(* A traceparent header that is well formed, or is not or is missing.      *)
Traceparent == {"well_formed", "none"}

NoReq ==
  [pc |-> "none", method |-> "POST", endpoint |-> "open",
   x_tim_admin_token |-> "none", authorization |-> <<>>, body |-> "fits",
   traceparent |-> "none", ran |-> FALSE, read |-> FALSE, status |-> 0, lines |-> <<>>,
   headers |-> {}, trace |-> "none"]

Config == Load(proc.dep)
Gate == Gates(Config)

-----------------------------------------------------------------------------
(* AdminAuth: the header of its own goes before the bearer; without a      *)
(* token there is no gate.                                                 *)
AdminAuth(r) ==
  \/ Gate.admin = "none"
  \/ r.x_tim_admin_token = Gate.admin
  \/ r.x_tim_admin_token = "none" /\ r.authorization = <<"Bearer", Gate.admin>>

(* Mutant: the id and the secret may be those of two clients.              *)
VerifyBasicApart(r) ==
  \E c, d \in Gate.clients : r.authorization = <<"Basic", c[1], d[2]>>

(* verify_basic: one client has both the id and the secret.                *)
VerifyBasic(r) == \E c \in Gate.clients : r.authorization = <<"Basic", c[1], c[2]>>

(* check_validation_gate, check_jvm_compat_gate, introspect_dispatch.      *)
ClientAuth(r) == r.endpoint \in Gate.axes => VerifyBasic(r)

(* header_if_set: a layer unless the text is empty or, without a word, is  *)
(* not a header value.                                                     *)
HeaderIfSet(name, value) == Flag(name, value \notin {"off", "garbled"})

(* headers::build, for three of the five headers.                          *)
SecurityHeaders ==
       HeaderIfSet("content-security-policy", Config.content_security_policy)
  \cup HeaderIfSet("strict-transport-security", Config.strict_transport_security)
  \cup HeaderIfSet("x-frame-options", Config.x_frame_options)

(* parse_or_generate_trace_id.                                             *)
TraceId(r) == IF r.traceparent = "well_formed" THEN "inherited" ELSE "fresh"

(* The way out through access_log_middleware, which writes a line and adds *)
(* the trace, and the header layers.                                       *)
Answered(r, status) ==
  [r EXCEPT !.pc = "done", !.status = status, !.lines = Append(@, status),
            !.trace = TraceId(r), !.headers = SecurityHeaders]

-----------------------------------------------------------------------------
HttpInit == BootInit /\ req = [i \in Request |-> NoReq]

(* What callers present where.                                             *)
Presented(e) ==
  CASE e = "open" -> {<<"none", <<>>>>}
    [] e = "admin" -> AdminHeader \X ({<<>>} \cup Bearer)
    [] OTHER -> {"none"} \X ({<<>>} \cup Basic)

(* The kinds of request: each body, a trace, and a preflight.              *)
Shape ==
  [method : {"POST"}, body : Body, traceparent : {"none"}]
    \cup [method : {"POST", "OPTIONS"}, body : {"fits"}, traceparent : {"well_formed"}]

(* The layers on the way in.  The CORS layer, the outermost, answers every *)
(* OPTIONS itself; body_size_error_mapper refuses by Content-Length;       *)
(* AdminAuth is extracted before the body is read.                         *)
Entered(r) ==
  IF r.method = "OPTIONS" THEN
    IF Config.cors_allowed_origins = "star"
      THEN [r EXCEPT !.pc = "done", !.status = 200]
      ELSE Answered(r, 405)
  ELSE IF r.body = "declared_large" THEN Answered(r, 413)
  ELSE IF r.endpoint = "admin" /\ ~AdminAuth(r) THEN Answered(r, 401)
  ELSE [r EXCEPT !.pc = "body"]

Receive(i) ==
  /\ proc.pc = "up"
  /\ req[i].pc = "none"
  /\ \E s \in Shape, e \in Endpoint : \E p \in Presented(e) :
       req' = [req EXCEPT ![i] = Entered(
         [NoReq EXCEPT !.method = s.method, !.body = s.body,
                       !.traceparent = s.traceparent, !.endpoint = e,
                       !.x_tim_admin_token = p[1], !.authorization = p[2]])]
  /\ UNCHANGED bootVars

(* How the handlers of an endpoint take the body: not at all, as bytes or  *)
(* text, parsed, or parsed if possible (Option<Json>).                     *)
Takes(e) ==
  CASE e = "open" -> {"nothing", "option"}
    [] e = "introspect" -> {"bytes"}
    [] e = "validate" -> {"json"}
    [] OTHER -> {"nothing", "bytes", "json"}

(* The body is extracted, then comes the gate of the clients.  A body that *)
(* cannot be taken ends the request, except where it is optional: there it *)
(* counts as absent, be it malformed or too large.                         *)
Extract(i) ==
  LET r == req[i] IN
    /\ r.pc = "body"
    /\ \E takes \in Takes(r.endpoint) :
         req' = [req EXCEPT ![i] =
           IF takes \in {"bytes", "json"} /\ r.body = "streamed_large" THEN Answered(r, 413)
           ELSE IF takes = "json" /\ r.body = "malformed" THEN Answered(r, 400)
           ELSE IF ~ClientAuth(r) THEN Answered(r, 401)
           ELSE [r EXCEPT !.pc = "handler", !.ran = TRUE,
                          !.read = \/ takes \in {"bytes", "json"}
                                   \/ takes = "option" /\ r.body = "fits"]]
    /\ UNCHANGED bootVars

(* The handler returns, or fails with a TimError (error.rs).               *)
Finish(i) ==
  /\ req[i].pc = "handler"
  /\ \E status \in {200, 400, 500} :
       req' = [req EXCEPT ![i] = Answered(req[i], status)]
  /\ UNCHANGED bootVars

(* Mutant: the timeout is the outermost layer.                             *)
TimeoutOutermost(i) ==
  /\ req[i].pc \in {"body", "handler"}
  /\ req' = [req EXCEPT ![i].pc = "done", ![i].status = 408]
  /\ UNCHANGED bootVars

(* Mutant: only the handler is timed, not the reading of the body.         *)
TimeoutHandler(i) ==
  /\ req[i].pc = "handler"
  /\ req' = [req EXCEPT ![i] = Answered(req[i], 408)]
  /\ UNCHANGED bootVars

(* TimeoutLayer: request_timeout_seconds are over; the handler is dropped  *)
(* where it is.                                                            *)
Timeout(i) ==
  /\ req[i].pc \in {"body", "handler"}
  /\ req' = [req EXCEPT ![i] = Answered(req[i], 408)]
  /\ UNCHANGED bootVars

(* The client hangs up: everything of the request is dropped, no line is   *)
(* written.                                                                *)
HangUp(i) ==
  /\ req[i].pc \in {"body", "handler"}
  /\ req' = [req EXCEPT ![i] = NoReq]
  /\ UNCHANGED bootVars

Deliver(i) ==
  /\ req[i].pc = "done"
  /\ req' = [req EXCEPT ![i] = NoReq]
  /\ UNCHANGED bootVars

(* There is no graceful shutdown: requests end with the process.           *)
HttpStop == Stop /\ req' = [i \in Request |-> NoReq]

HttpNext ==
  \/ (Edit \/ Age \/ Doctor \/ Launch \/ BootStep) /\ UNCHANGED req
  \/ HttpStop
  \/ \E i \in Request :
       \/ Receive(i) \/ Extract(i) \/ Finish(i) \/ Timeout(i)
       \/ HangUp(i) \/ Deliver(i)

(* A launched process goes on and the timer of the timeout fires; neither  *)
(* the client, who may send its body for ever, nor the handler need get    *)
(* anywhere.                                                               *)
HttpSpec ==
  /\ HttpInit /\ [][HttpNext]_httpVars
  /\ WF_httpVars(BootStep /\ UNCHANGED req)
  /\ \A i \in Request : WF_httpVars(Timeout(i))
-----------------------------------------------------------------------------
(* No handler behind a gate runs for a caller without a secret that the    *)
(* deployment had when its process was launched: not on any axis, not with *)
(* the secret of another client, an empty one or one rotated since, and an *)
(* unresolved token leaves no endpoint open while one is required.  No     *)
(* handler sees a body over the limit, declared or not.                    *)
HandlersGuarded ==
  \A i \in Request :
    LET r == req[i]
        d == proc.dep
    IN  r.ran =>
          /\ r.endpoint = "admin" /\ Config.require_admin_token =>
               /\ Resolved(d.admin_token)
               /\ \/ r.x_tim_admin_token = d.admin_token
                  \/ r.authorization = <<"Bearer", d.admin_token>>
          /\ \/ r.endpoint = "introspect" /\ Config.required_client_auth
             \/ r.endpoint = "validate" /\ Config.gate_validation_endpoints
             \/ r.endpoint = "compat" /\ Config.gate_jvm_compat_endpoints
             => \E k \in Config.clients :
                  /\ Resolved(d.client_secret[k])
                  /\ r.authorization = <<"Basic", k, d.client_secret[k]>>
          /\ r.read => r.body \notin {"declared_large", "streamed_large"}

(* Every answer, a timeout's and a refusal's included, has one line in the *)
(* access log with its own status, a trace, the caller's when it sent one, *)
(* and of the security headers those configured with a text that is a      *)
(* header value; only the CORS layer's own answers have none of these,     *)
(* since it is the outermost layer of build_router.                        *)
AnswersTraced ==
  \A i \in Request :
    LET r == req[i]
        cors == r.method = "OPTIONS" /\ Config.cors_allowed_origins # "none"
    IN  r.pc = "done" =>
          /\ r.lines = IF cors THEN <<>> ELSE <<r.status>>
          /\ r.trace = IF cors THEN "none" ELSE
                        IF r.traceparent = "well_formed" THEN "inherited" ELSE "fresh"
          /\ "content-security-policy" \in r.headers <=>
               ~cors /\ Config.content_security_policy = "set"
          /\ "x-frame-options" \in r.headers <=> ~cors /\ Config.x_frame_options = "set"
          /\ "strict-transport-security" \in r.headers <=>
               ~cors /\ Config.strict_transport_security \in {"plain", "preload"}

(* Every request comes to an end: an answer, or the client is gone, also   *)
(* when the client never ends its body and when the handler hangs.         *)
RequestAnswered ==
  \A i \in Request :
    (req[i].pc = "body") ~> (req[i].pc \in {"done", "none"})
=============================================================================
