----------------------------- MODULE OAuthLogin -----------------------------
(***************************************************************************)
(* The OIDC authorization-code flow (oauth2/flow.rs) over the table        *)
(* auth.oauth_state, any number of replicas running logins and callbacks   *)
(* at once, with the sessions the callbacks create in PostgresStore and    *)
(* the sweeper that collects both tables (oauth2/state_sweeper.rs).        *)
(*                                                                         *)
(* A login draws its state, nonce and PKCE verifier together; all three    *)
(* are identified with the login.  The identity provider is external: it   *)
(* may time out, fail, answer without an id_token or with one that does    *)
(* not verify, redirect with an error, and it may be asked twice.          *)
(***************************************************************************)
EXTENDS PgSessions

CONSTANTS
  Login,        \* the states (with nonce and verifier) the service may draw
  NoLogin,      \* none of them
  Provider,     \* configured providers
  Flow,         \* handler slots: logins and callbacks that run at once
  StateMaxAge,  \* oauth2.state_max_age_seconds
  ExpiresIn     \* expires_in of the token response; 0 stands for any <= 0

ASSUME NoLoginAssumption == NoLogin \notin Login

(* Bound as an i32 by the callback's DELETE: a greater value would wrap.   *)
ASSUME StateMaxAgeAssumption == StateMaxAge \in Nat /\ StateMaxAge <= 2147483647

ASSUME ExpiresInAssumption == ExpiresIn \subseteq Nat

VARIABLES
  oauth_state,  \* rows (state, provider_id, created_at) of auth.oauth_state
  drawn,        \* logins whose state has been drawn
  flow,         \* the login or callback in each slot
  sent,         \* logins whose authorization URL reached a browser
  round,        \* where the sweeper's loop is
  origin        \* history: the login and provider each session came from

loginVars == <<oauth_state, drawn, flow, sent, origin>>
oauthVars == <<sessionVars, loginVars, round>>

(* st: the state drawn or presented; nonce: the one RETURNING gave; code:  *)
(* the login whose authorization code the browser brought back; sid, row:  *)
(* the session built and not yet stored.                                   *)
NoFlow ==
  [pc |-> "idle", provider |-> CHOOSE p \in Provider : TRUE,
   st |-> NoLogin, nonce |-> NoLogin, code |-> NoLogin,
   sid |-> CHOOSE s \in Sid : TRUE, row |-> NoRow, ans |-> "none"]

OAuthInit ==
  /\ SessionsInit
  /\ oauth_state = {}
  /\ drawn = {}
  /\ flow = [f \in Flow |-> NoFlow]
  /\ sent = {}
  /\ origin = [s \in Sid |-> [login |-> NoLogin, user |-> NoLogin]]
  /\ round = "asleep"

FlowEnds(f, answer) ==
  flow' = [flow EXCEPT ![f] =
             [NoFlow EXCEPT !.pc = "reply", !.st = flow[f].st, !.ans = answer]]

-----------------------------------------------------------------------------
(* An unknown provider, a redirect_uri that is not on the allow-list, or   *)
(* none to fall back to: turned away before anything is fetched.           *)
LoginRefused(f) ==
  /\ flow[f].pc = "idle"
  /\ FlowEnds(f, "failed")
  /\ UNCHANGED <<sessionVars, oauth_state, drawn, sent, origin>>

(* auth_login.                                                             *)
LoginStart(f) ==
  /\ flow[f].pc = "idle"
  /\ \E p \in Provider :
       flow' = [flow EXCEPT ![f] =
                  [NoFlow EXCEPT !.pc = "login", !.provider = p]]
  /\ UNCHANGED <<sessionVars, oauth_state, drawn, sent, origin>>

(* build_login_url: discovery and the jwks_uri pin, then the draw.         *)
LoginDiscovery(f) ==
  /\ flow[f].pc = "login"
  /\ \/ /\ FlowEnds(f, "failed")
        /\ UNCHANGED drawn
     \/ \E l \in Login \ drawn :
          /\ drawn' = drawn \cup {l}
          /\ flow' = [flow EXCEPT ![f].pc = "insert", ![f].st = l]
  /\ UNCHANGED <<sessionVars, oauth_state, sent, origin>>

(* The INSERT; an authorization_endpoint that does not parse fails the     *)
(* login only after it, and the row stays.                                 *)
LoginInsert(f) ==
  /\ flow[f].pc = "insert"
  /\ oauth_state' = oauth_state \cup
       {[state |-> flow[f].st, provider_id |-> flow[f].provider,
         created_at |-> now]}
  /\ FlowEnds(f, "url") \/ FlowEnds(f, "failed")
  /\ UNCHANGED <<sessionVars, drawn, sent, origin>>

-----------------------------------------------------------------------------
(* auth_callback: an error from the provider, or a missing parameter, ends *)
(* the request without touching the state.  A browser may come back twice, *)
(* to the path of another provider, and with the code of another login.    *)
Callback(f) ==
  /\ flow[f].pc = "idle"
  /\ \/ FlowEnds(f, "idp_error")
     \/ \E p \in Provider, l, c \in sent :
          flow' = [flow EXCEPT ![f] =
            [NoFlow EXCEPT !.pc = "consume", !.provider = p, !.st = l, !.code = c]]
  /\ UNCHANGED <<sessionVars, oauth_state, drawn, sent, origin>>

(* created_at > now() - max_age, without subtraction.                      *)
Consumable(row, f) ==
  /\ row.state = flow[f].st
  /\ row.provider_id = flow[f].provider
  /\ row.created_at + StateMaxAge > now

(* Mutant: the row is read with SELECT and left for the sweeper.           *)
ConsumeKeeps(f) ==
  /\ flow[f].pc = "consume"
  /\ \/ \E row \in oauth_state :
          /\ Consumable(row, f)
          /\ flow' = [flow EXCEPT ![f].pc = "discover", ![f].nonce = row.state]
     \/ /\ \A row \in oauth_state : ~Consumable(row, f)
        /\ FlowEnds(f, "no_state")
  /\ UNCHANGED <<sessionVars, oauth_state, drawn, sent, origin>>

(* DELETE ... RETURNING: at most one callback gets the row.                *)
Consume(f) ==
  /\ flow[f].pc = "consume"
  /\ \/ \E row \in oauth_state :
          /\ Consumable(row, f)
          /\ oauth_state' = oauth_state \ {row}
          /\ flow' = [flow EXCEPT ![f].pc = "discover", ![f].nonce = row.state]
     \/ /\ \A row \in oauth_state : ~Consumable(row, f)
        /\ FlowEnds(f, "no_state")
        /\ UNCHANGED oauth_state
  /\ UNCHANGED <<sessionVars, drawn, sent, origin>>

CallbackDiscovery(f) ==
  /\ flow[f].pc = "discover"
  /\ \/ FlowEnds(f, "failed")
     \/ flow' = [flow EXCEPT ![f].pc = "exchange"]
  /\ UNCHANGED <<sessionVars, oauth_state, drawn, sent, origin>>

(* The POST to the token endpoint: offline, timeout, error status, a body  *)
(* that does not parse or has no id_token, or an id_token for the code.    *)
TokenExchange(f) ==
  /\ flow[f].pc = "exchange"
  /\ \/ FlowEnds(f, "failed")
     \/ flow' = [flow EXCEPT ![f].pc = "verify"]
  /\ UNCHANGED <<sessionVars, oauth_state, drawn, sent, origin>>

(* min(expires_in or the TTL, the TTL), and at least one second.           *)
Effective(candidate) ==
  LET capped == IF candidate < Ttl THEN candidate ELSE Ttl IN
    IF capped < 1 THEN 1 ELSE capped

(* Ids drawn for sessions that are not stored yet.                         *)
BeingCreated == {flow[f].sid : f \in {g \in Flow : flow[g].pc = "create"}}

(* Mutant: the nonce is not compared.                                      *)
VerifyAnyNonce(f) ==
  /\ flow[f].pc = "verify"
  /\ \/ FlowEnds(f, "failed")
     \/ \E candidate \in ExpiresIn \cup {Ttl}, s \in Sid \ (issued \cup BeingCreated) :
          flow' = [flow EXCEPT ![f].pc = "create", ![f].sid = s,
                     ![f].row = NewSession(now, Effective(candidate))]
  /\ UNCHANGED <<sessionVars, oauth_state, drawn, sent, origin>>

(* idtoken::verify fetches the JWKS and checks signature, issuer, audience *)
(* and dates (any may fail), then the nonce against the consumed row's;    *)
(* then the session is built with this moment's clock and a fresh id.      *)
VerifyIdToken(f) ==
  /\ flow[f].pc = "verify"
  /\ \/ FlowEnds(f, "failed")
     \/ /\ flow[f].code = flow[f].nonce
        /\ \E candidate \in ExpiresIn \cup {Ttl}, s \in Sid \ (issued \cup BeingCreated) :
             flow' = [flow EXCEPT ![f].pc = "create", ![f].sid = s,
                        ![f].row = NewSession(now, Effective(candidate))]
  /\ UNCHANGED <<sessionVars, oauth_state, drawn, sent, origin>>

CreateSession(f) ==
  /\ flow[f].pc = "create"
  /\ Create(flow[f].sid, flow[f].row)
  /\ origin' = [origin EXCEPT ![flow[f].sid] =
                  [login |-> flow[f].st, user |-> flow[f].code]]
  /\ FlowEnds(f, "session")
  /\ UNCHANGED <<now, call, ended, loggedOut, oauth_state, drawn, sent>>

FlowReply(f) ==
  /\ flow[f].pc = "reply"
  /\ sent' = IF flow[f].ans = "url" THEN sent \cup {flow[f].st} ELSE sent
  /\ flow' = [flow EXCEPT ![f] = NoFlow]
  /\ UNCHANGED <<sessionVars, oauth_state, drawn, origin>>

(* The handler is dropped at an await, or a statement fails.               *)
FlowAbandon(f) ==
  /\ flow[f].pc # "idle"
  /\ flow' = [flow EXCEPT ![f] = NoFlow]
  /\ UNCHANGED <<sessionVars, oauth_state, drawn, sent, origin>>

-----------------------------------------------------------------------------
(* The sweeper: tick.tick().await, then the two DELETEs one after the      *)
(* other, round and round.  A DELETE that fails is logged and the loop     *)
(* goes on as if it had not.                                               *)
SweeperTick ==
  /\ round = "asleep"
  /\ round' = "sessions"
  /\ UNCHANGED <<sessionVars, loginVars>>

SweepSessions ==
  /\ round = "sessions"
  /\ PgSweep
  /\ round' = "states"
  /\ UNCHANGED loginVars

(* Mutant: a failed sweep of the sessions goes back to the tick.           *)
SweepSessionsFailsSkips ==
  /\ round = "sessions"
  /\ round' = "asleep"
  /\ UNCHANGED <<sessionVars, loginVars>>

SweepSessionsFails ==
  /\ round = "sessions"
  /\ round' = "states"
  /\ UNCHANGED <<sessionVars, loginVars>>

(* Mutant: rows are swept one second too early.                            *)
SweepStatesEarly ==
  /\ round = "states"
  /\ oauth_state' = {row \in oauth_state : row.created_at + StateMaxAge >= now + 2}
  /\ round' = "asleep"
  /\ UNCHANGED <<sessionVars, drawn, flow, sent, origin>>

(* sweep_oauth_state: created_at < now() - max_age.                        *)
SweepStates ==
  /\ round = "states"
  /\ oauth_state' = {row \in oauth_state : row.created_at + StateMaxAge >= now}
  /\ round' = "asleep"
  /\ UNCHANGED <<sessionVars, drawn, flow, sent, origin>>

(* Mutant: the error is handed on with `?`, which ends the task.           *)
SweepStatesFailsStops ==
  /\ round = "states"
  /\ round' = "ended"
  /\ UNCHANGED <<sessionVars, loginVars>>

SweepStatesFails ==
  /\ round = "states"
  /\ round' = "asleep"
  /\ UNCHANGED <<sessionVars, loginVars>>

Sweeper ==
  \/ SweeperTick \/ SweepSessions \/ SweepSessionsFails
  \/ SweepStates \/ SweepStatesFails

-----------------------------------------------------------------------------
FlowStep(f) ==
  \/ LoginRefused(f) \/ LoginStart(f) \/ LoginDiscovery(f) \/ LoginInsert(f)
  \/ Callback(f) \/ Consume(f) \/ CallbackDiscovery(f) \/ TokenExchange(f)
  \/ VerifyIdToken(f) \/ CreateSession(f) \/ FlowReply(f) \/ FlowAbandon(f)

OAuthNext ==
  \/ ClockTick /\ UNCHANGED <<loginVars, round>>
  \/ \E c \in Caller : PgCall(c) /\ UNCHANGED <<loginVars, round>>
  \/ \E f \in Flow : FlowStep(f) /\ UNCHANGED round
  \/ Sweeper

OAuthSpec == OAuthInit /\ [][OAuthNext]_oauthVars

(* The interval ticks for ever and every statement returns, with a result  *)
(* or an error: the loop goes round.  That a statement ever succeeds is    *)
(* assumed nowhere here but in the properties that need it.                *)
OAuthFairSpec == OAuthSpec /\ WF_oauthVars(Sweeper)
-----------------------------------------------------------------------------
(* A login ends in at most one session, however often and by however many  *)
(* callbacks its state is presented (flow.rs 174-193).                     *)
StateSingleUse ==
  \A s, t \in issued : origin[s].login = origin[t].login => s = t

(* A session belongs to the user who authenticated for the very login the  *)
(* callback's state names, also when two logins run side by side in one    *)
(* browser and their codes and states are mixed up (nonce check,           *)
(* idtoken.rs 180-186).                                                    *)
SessionBoundToLogin ==
  \A s \in issued : origin[s].user = origin[s].login

(* The sweeper never removes a state a callback could still consume, so it *)
(* never turns a login that would have succeeded into a 422                *)
(* (state_sweeper.rs 46-57 against flow.rs 185).                           *)
SweepSparesConsumable ==
  [][\A row \in oauth_state \ oauth_state' :
       \/ \E f \in Flow : flow[f].pc = "consume" /\ flow'[f].nonce = row.state
       \/ row.created_at + StateMaxAge <= now]_oauthVars

(* An expired session is eventually collected if the DELETE of sessions    *)
(* does not fail for ever whenever it is tried, however the DELETE of      *)
(* states fares (state_sweeper.rs 32-43).                                  *)
ExpiredSwept == SF_oauthVars(SweepSessions) => ExpiredCollected

(* A stale state nobody consumed, because its login was abandoned, failed  *)
(* after its INSERT or came back with an error, is eventually collected if *)
(* the DELETE of states does not fail for ever whenever it is tried, even  *)
(* while the DELETE of sessions, which comes first, does.                  *)
OrphanStatesSwept ==
  SF_oauthVars(SweepStates) =>
    \A l \in Login :
      (\E row \in oauth_state : row.state = l /\ row.created_at + StateMaxAge < now)
        ~> ~ \E row \in oauth_state : row.state = l
=============================================================================
