-------------------------------- MODULE Boot --------------------------------
(***************************************************************************)
(* A deployment of TIM is judged by `tim doctor` and started by `tim       *)
(* serve` (main.rs, doctor.rs, config/mod.rs).  The two walk through the   *)
(* same configuration and environment with checks of their own.  The       *)
(* environment of a process is fixed when it is launched and tim.yaml and  *)
(* the keys are read at once, so a process works on a copy of the          *)
(* deployment.                                                             *)
(***************************************************************************)
EXTENDS Naturals, FiniteSets

CONSTANTS
  Client,    \* introspection clients that may be configured
  Base,      \* deployments to start from
  MaxEdits   \* bound on the operator's edits

VARIABLES
  dep,     \* the deployment: configuration, environment, key files
  edits,   \* how many edits were made
  left,    \* what is left of the previous key's grace period, by the clock
  report,  \* what the last doctor said: of this deployment, unless edited since
  proc,    \* the server process
  schema   \* release whose migrations are applied, 0 for an empty database

bootVars == <<dep, edits, left, report, proc, schema>>

-----------------------------------------------------------------------------
(* The deployment, one entry per field with the values that are told apart. *)
(* BOOLEAN entries of text fields say that the text is not empty.          *)
HostName == {"localhost", "tim.example"}
BareIPv6 == {"::", "::1"}
Bind == HostName \cup BareIPv6 \cup {"0.0.0.0", "127.0.0.1", "127.0.0.2", "[::1]"}
Var == {"unset", "empty", "set"}
Secret == {"unset", "empty", "old", "new"}
Pem == {"missing", "malformed", "ok"}

(* A configured header: empty, a value, or a text that is no header value, *)
(* as a YAML block that ends in a line break.                              *)
HeaderText == {"off", "set", "garbled"}

ServerConfig == [bind |-> Bind, public_base_url |-> BOOLEAN]

DatabaseConfig == [auto_migrate |-> BOOLEAN]

(* previous_key: with a kid that is blank or that of the current key, or   *)
(* with a kid of its own.                                                  *)
JwtConfig ==
  [issuer_localhost |-> BOOLEAN, audience_validation |-> BOOLEAN,
   previous_key |-> {"none", "blank", "same", "own"}]

(* retires_at against the clock: more days left than rotation_warn_days,   *)
(* fewer, or none.                                                         *)
Left == {"more", "few", "none"}

OAuth2Config ==
  [session_store |-> {"memory", "postgres", "redis"},
   session_encryption_key_env |-> BOOLEAN, sweep_interval |-> BOOLEAN]

(* One provider at most; jwks_uri: not pinned, pinned, or pinned to a blank. *)
ProviderConfig ==
  [discovery_url |-> {"none", "https", "http"}, allow_http_discovery |-> BOOLEAN,
   jwks_uri |-> {"none", "pin", "blank"}, redirect_uris |-> BOOLEAN]

IntrospectionConfig ==
  [required_client_auth |-> BOOLEAN, gate_validation_endpoints |-> BOOLEAN,
   gate_jvm_compat_endpoints |-> BOOLEAN, clients |-> SUBSET Client,
   clients_named |-> BOOLEAN]

SecurityConfig ==
  [admin_token_env |-> BOOLEAN, require_admin_token |-> BOOLEAN,
   cors_allowed_origins |-> {"none", "list", "star"},
   content_security_policy |-> HeaderText, x_frame_options |-> HeaderText,
   strict_transport_security |-> {"off", "plain", "preload", "garbled"}]

(* f laid over g: the entries of f, and those of g where f has none.       *)
Over(f, g) ==
  [x \in DOMAIN f \cup DOMAIN g |-> IF x \in DOMAIN f THEN f[x] ELSE g[x]]

AppConfig ==
  Over(ServerConfig, Over(DatabaseConfig, Over(JwtConfig, Over(OAuth2Config,
    Over(ProviderConfig, Over(IntrospectionConfig, SecurityConfig))))))

(* The file that --config or TIM_CONFIG names, or ./tim.yaml, or none; the *)
(* variables; the key files; the release of the binary.                    *)
Environment ==
  [file |-> {"read", "unreadable", "malformed", "none"}, release |-> 1 .. 2,
   db_url |-> Var, admin_token |-> Secret, credentials |-> Var,
   session_key |-> {"unset", "short", "hex", "padded", "text"},
   client_secret |-> [Client -> Secret], TIM_OFFLINE |-> BOOLEAN,
   private_key |-> Pem, previous_pem |-> Pem]

Fields == Over(AppConfig, Environment)

ASSUME BaseAssumption ==
  \A d \in Base :
    DOMAIN d = DOMAIN Fields /\ \A f \in DOMAIN Fields : d[f] \in Fields[f]

(* AppConfig::default().                                                   *)
Default ==
  [bind |-> "0.0.0.0", public_base_url |-> FALSE, auto_migrate |-> TRUE,
   issuer_localhost |-> FALSE, audience_validation |-> FALSE,
   previous_key |-> "none", session_store |-> "memory",
   session_encryption_key_env |-> TRUE, sweep_interval |-> TRUE,
   discovery_url |-> "none", allow_http_discovery |-> FALSE, jwks_uri |-> "none",
   redirect_uris |-> FALSE,
   required_client_auth |-> TRUE, gate_validation_endpoints |-> FALSE,
   gate_jvm_compat_endpoints |-> FALSE, clients |-> {}, clients_named |-> TRUE,
   admin_token_env |-> FALSE, require_admin_token |-> TRUE,
   cors_allowed_origins |-> "none", content_security_policy |-> "set",
   x_frame_options |-> "set", strict_transport_security |-> "plain"]

-----------------------------------------------------------------------------
(* validate: the cross-field rules.                                        *)
Validate(c) ==
  /\ c.session_store \in {"memory", "postgres"}
  /\ c.session_store = "postgres" => c.session_encryption_key_env
  /\ c.required_client_auth => c.clients # {}
  /\ c.clients # {} => c.clients_named
  /\ c.discovery_url # "none" => c.jwks_uri # "blank"
  /\ c.previous_key \notin {"blank", "same"}

(* load: a file that is found must be read, parsed and valid; with no file *)
(* the defaults are taken as they are.                                     *)
Loads(d) == d.file = "none" \/ (d.file = "read" /\ Validate(d))
Load(d) == IF d.file = "none" THEN Over(Default, d) ELSE d

Resolved(value) == value \notin {"unset", "empty"}

bind_is_loopback(bind) == bind \in {"127.0.0.1", "127.0.0.2", "::1", "[::1]", "localhost"}

(* The text of the header contains "preload", garbled or not.              *)
HasPreload(c) == c.strict_transport_security \in {"preload", "garbled"}

HasPrevious(c) == c.previous_key # "none"
HasProvider(c) == c.discovery_url # "none"

(* A finding under its name, if there is one.                              *)
Flag(name, raised) == IF raised THEN {name} ELSE {}

(* diagnose and http::diagnose_at_boot: the warnings in the boot log.      *)
Diagnose(c) ==
       Flag("public_base_url", ~c.public_base_url /\ ~bind_is_loopback(c.bind))
  \cup Flag("audience", ~c.audience_validation)
  \cup Flag("issuer", c.issuer_localhost)
  \cup Flag("admin_token", ~c.require_admin_token \/ ~c.admin_token_env)
  \cup Flag("cors", c.cors_allowed_origins = "star")
  \cup Flag("csp", c.content_security_policy = "off")
  \cup Flag("hsts", ~bind_is_loopback(c.bind) /\ ~HasPreload(c))
  \cup Flag("introspection", ~c.required_client_auth)
  \cup Flag("session_store", c.session_store = "memory")
  \cup Flag("sweeper", ~c.sweep_interval)
  \cup Flag("redirect_uris", HasProvider(c) /\ ~c.redirect_uris /\ ~c.public_base_url)
  \cup Flag("offline", c.TIM_OFFLINE)

-----------------------------------------------------------------------------
(* Mutant: the session key is only looked for.                             *)
KeyLooksRightIfSet(c) == c.session_store = "postgres" => c.session_key # "unset"

(* The doctor's test of the session key: 64 bytes, whatever they are.      *)
KeyLooksRight(c) ==
  c.session_store = "postgres" => c.session_key \in {"hex", "text"}

(* The doctor's test of the previous key.                                  *)
PreviousKeyFails(c) ==
  HasPrevious(c) /\ (c.previous_key = "same" \/ c.previous_pem # "ok")

(* Its test of the introspection clients.                                  *)
ClientsFail(c) ==
  /\ c.required_client_auth
  /\ c.clients = {} \/ \E k \in c.clients : ~Resolved(c.client_secret[k])

(* doctor::run, the FAIL lines.  The secrets of the clients are looked up  *)
(* for required_client_auth only.                                          *)
DoctorFails(d) ==
  IF ~Loads(d) THEN {"config"}
  ELSE LET c == Load(d) IN
         Flag("config", ~Validate(c))
    \cup Flag("private_key", c.private_key # "ok")
    \cup Flag("previous_key", PreviousKeyFails(c))
    \cup Flag("db_url", ~Resolved(c.db_url))
    \cup Flag("admin_token", /\ c.require_admin_token
                             /\ ~(c.admin_token_env /\ Resolved(c.admin_token)))
    \cup Flag("session_key", ~KeyLooksRight(c))
    \cup Flag("credentials", HasProvider(c) /\ ~Resolved(c.credentials))
    \cup Flag("clients", ClientsFail(c))

(* Mutant: only a deployment that names no variable is called ungated.     *)
UngatedIfUnnamed(c) == ~c.require_admin_token /\ ~c.admin_token_env

Ungated(c) == ~c.require_admin_token

(* doctor::run, the WARN lines, with its own reading of the clock and its  *)
(* own idea of a loopback address.                                         *)
DoctorWarns(d, days) ==
  IF ~Loads(d) THEN {}
  ELSE LET c == Load(d) IN
         Flag("previous_key", /\ HasPrevious(c) /\ ~PreviousKeyFails(c)
                              /\ days # "more")
    \cup Flag("admin_token", Ungated(c))
    \cup Flag("introspection", ~c.required_client_auth)
    \cup Flag("session_store", c.session_store = "memory")
    \cup Flag("audience", ~c.audience_validation)
    \cup Flag("cors", c.cors_allowed_origins = "star")
    \cup Flag("hsts", c.bind \notin {"127.0.0.1", "::1"} /\ ~HasPreload(c))

(* Report::exit_code.                                                      *)
ExitCode(d, days, strict) ==
  IF DoctorFails(d) # {} \/ (strict /\ DoctorWarns(d, days) # {}) THEN 1 ELSE 0

-----------------------------------------------------------------------------
(* serve, up to the connection to the database.                            *)
FirstChecks(d) ==
  LET c == Load(d) IN
    <<<<"load", Loads(d)>>,
      <<"validate", Validate(c)>>,
      <<"private_key", c.private_key = "ok">>,
      <<"previous_key", HasPrevious(c) => /\ c.previous_pem = "ok"
                                          /\ c.previous_key # "same">>,
      <<"db_url", c.db_url # "unset">>>>

AnyRequired(c) ==
  \/ c.required_client_auth
  \/ c.gate_validation_endpoints
  \/ c.gate_jvm_compat_endpoints

(* ProviderRegistry::from_config: https or the opt-in; the credentials are *)
(* set, if only to an empty value.                                         *)
RegistryBuilt(c) ==
  HasProvider(c) =>
    /\ c.discovery_url = "https" \/ c.allow_http_discovery
    /\ c.credentials # "unset"

(* SessionCipher::from_hex_key: the hex digits of 32 bytes, blanks around  *)
(* them trimmed.                                                           *)
FromHexKey(key) == key \in {"hex", "padded"}

(* session::build.                                                         *)
SessionsBuilt(c) == c.session_store = "postgres" => FromHexKey(c.session_key)

AdminToken(c) ==
  IF c.admin_token_env /\ Resolved(c.admin_token) THEN c.admin_token ELSE "none"

(* AdminGate::from_config.                                                 *)
AdminGateBuilt(c) == c.require_admin_token => AdminToken(c) # "none"

(* IntrospectionGate::from_config: every secret must resolve when any axis *)
(* is on; otherwise the clients without one are skipped.                   *)
IntrospectionGateBuilt(c) ==
  AnyRequired(c) => \A k \in c.clients : Resolved(c.client_secret[k])

(* "bind:port" as a SocketAddr: neither a host name nor a bare IPv6        *)
(* address.                                                                *)
AddressParses(bind) == bind \notin HostName \cup BareIPv6

(* tower-http's CorsLayer panics when credentials are allowed together     *)
(* with any header and any method, as headers::build does for a list.      *)
CorsUsable(c) == c.cors_allowed_origins # "list"

(* serve, between the migrations and the listener.                         *)
LastChecks(d) ==
  LET c == Load(d) IN
    <<<<"registry", RegistryBuilt(c)>>,
      <<"sessions", SessionsBuilt(c)>>,
      <<"admin_gate", AdminGateBuilt(c)>>,
      <<"introspection_gate", IntrospectionGateBuilt(c)>>,
      <<"address", AddressParses(c.bind)>>,
      <<"router", CorsUsable(c)>>>>

(* The first check that fails, "none" if all pass.                         *)
FirstFailed(checks) ==
  LET failed == {i \in DOMAIN checks : ~checks[i][2]} IN
    IF failed = {} THEN "none"
    ELSE checks[CHOOSE i \in failed : \A j \in failed : i <= j][1]

(* The gates as they are resolved at boot, for the life of the process.    *)
Gates(c) ==
  [admin |-> AdminToken(c),
   axes |->      Flag("introspect", c.required_client_auth)
            \cup Flag("validate", c.gate_validation_endpoints)
            \cup Flag("compat", c.gate_jvm_compat_endpoints),
   clients |-> {<<k, c.client_secret[k]>> :
                  k \in {j \in c.clients : Resolved(c.client_secret[j])}}]

-----------------------------------------------------------------------------
(* What the doctor answered, and how much it found left.                   *)
NoReport == [exit |-> 2, strict |-> FALSE, left |-> "none"]

(* dep is the deployment the process was launched with, report what the    *)
(* doctor had said of it; left is what the boot itself found left; failed  *)
(* is the check that ended a refused boot.                                 *)
Down(d) ==
  [pc |-> "down", dep |-> d, report |-> NoReport, left |-> "none",
   failed |-> "none", warned |-> {}]

BootInit ==
  /\ dep \in Base
  /\ edits = 0
  /\ left = "more"
  /\ report = NoReport
  /\ proc = Down(dep)
  /\ schema = 0

AtRest == proc.pc \in {"down", "refused"}

(* The operator changes one thing, between the lives of processes or while *)
(* one is up; the doctor's last word is out of date.  Where a change of    *)
(* the file would meet a boot, that boot reads it before or after.         *)
Edit ==
  /\ AtRest \/ proc.pc = "up"
  /\ edits < MaxEdits
  /\ \/ /\ \E f \in DOMAIN Fields : \E v \in Fields[f] \ {dep[f]} :
            dep' = [dep EXCEPT ![f] = v]
        /\ UNCHANGED left
     \/ /\ left' \in Left \ {left}
        /\ UNCHANGED dep
  /\ edits' = edits + 1
  /\ report' = NoReport
  /\ UNCHANGED <<proc, schema>>

(* Days pass.  Only the doctor and a boot that loads its keys look at the  *)
(* days left; the keys of a running process are the matter of KeyRotation. *)
Age ==
  /\ AtRest \/ proc.pc = "load"
  /\ \/ left = "more" /\ left' = "few"
     \/ left = "few" /\ left' = "none"
  /\ UNCHANGED <<dep, edits, report, proc, schema>>

(* tim doctor [--strict].                                                  *)
Doctor ==
  /\ AtRest
  /\ \E strict \in BOOLEAN :
       report' = [exit |-> ExitCode(dep, left, strict), strict |-> strict, left |-> left]
  /\ UNCHANGED <<dep, edits, left, proc, schema>>

Goes(pc) == proc' = [proc EXCEPT !.pc = pc]
Refused(check) == proc' = [proc EXCEPT !.pc = "refused", !.failed = check]
PassesOr(checks, pc) ==
  LET failed == FirstFailed(checks) IN
    IF failed = "none" THEN Goes(pc) ELSE Refused(failed)

(* tim serve: the process gets its environment.                            *)
Launch ==
  /\ AtRest
  /\ proc' = [Down(dep) EXCEPT !.pc = "load", !.report = report]
  /\ UNCHANGED <<dep, edits, left, report, schema>>

(* serve's own warning, once the previous key is loaded, by the clock as   *)
(* it is then.                                                             *)
RetirementWarning(c, days) == Flag("previous_key", HasPrevious(c) /\ days # "more")

(* The configuration, its diagnosis, the keys and the database URL.        *)
LoadConfig ==
  /\ proc.pc = "load"
  /\ LET failed == FirstFailed(FirstChecks(proc.dep))
         c == Load(proc.dep)
     IN
       proc' = [proc EXCEPT
         !.pc = IF failed = "none" THEN "connect" ELSE "refused",
         !.failed = failed, !.left = left,
         !.warned = CASE failed \in {"load", "validate"} -> {}
                      [] failed \in {"private_key", "previous_key"} -> Diagnose(c)
                      [] OTHER -> Diagnose(c) \cup RetirementWarning(c, left)]
  /\ UNCHANGED <<dep, edits, left, report, schema>>

(* db::connect: an empty URL cannot be parsed, and the database may not    *)
(* answer within the acquire timeout.                                      *)
Connect ==
  /\ proc.pc = "connect"
  /\ \/ proc.dep.db_url = "set" /\ Goes("migrate")
     \/ Refused("connect")
  /\ UNCHANGED <<dep, edits, left, report, schema>>

(* Mutant: a failed migration is taken for one that was applied before.    *)
MigrateLeniently ==
  /\ proc.pc = "migrate"
  /\ Goes("assemble")
  /\ schema' \in {schema, proc.dep.release}
  /\ UNCHANGED <<dep, edits, left, report>>

(* db::run_migrations: fails on the database, or because the schema holds  *)
(* migrations that this release does not know.                             *)
Migrate ==
  /\ proc.pc = "migrate"
  /\ \/ /\ ~Load(proc.dep).auto_migrate
        /\ Goes("assemble") /\ UNCHANGED schema
     \/ /\ Load(proc.dep).auto_migrate
        /\ schema <= proc.dep.release
        /\ Goes("assemble") /\ schema' = proc.dep.release
     \/ /\ Load(proc.dep).auto_migrate
        /\ Refused("migrate") /\ UNCHANGED schema
  /\ UNCHANGED <<dep, edits, left, report>>

(* The registry, the session store, the gates, the sweeper, the address    *)
(* and the router.                                                         *)
Assemble ==
  /\ proc.pc = "assemble"
  /\ PassesOr(LastChecks(proc.dep), "bind")
  /\ UNCHANGED <<dep, edits, left, report, schema>>

(* TcpListener::bind; the port may be taken.                               *)
Listen ==
  /\ proc.pc = "bind"
  /\ Goes("up") \/ Refused("bind")
  /\ UNCHANGED <<dep, edits, left, report, schema>>

(* The process is killed, at any point.                                    *)
Stop ==
  /\ ~AtRest
  /\ proc' = Down(dep)
  /\ UNCHANGED <<dep, edits, left, report, schema>>

BootStep == LoadConfig \/ Connect \/ Migrate \/ Assemble \/ Listen
BootNext == Edit \/ Age \/ Doctor \/ Launch \/ BootStep \/ Stop
-----------------------------------------------------------------------------
(* What the doctor and the boot have in common, and where they part: if    *)
(* the doctor passed this very deployment, boot can only be refused by the *)
(* database or the port, which the doctor does not touch, or by one of     *)
(* five things it does not look at: plain http at a provider, a session    *)
(* key that is no hex, a client without a secret behind a gate other than  *)
(* introspection's, a bind that is a host name or a bare IPv6 address, and *)
(* a list of CORS origins; and a deployment it failed serves only with an  *)
(* empty provider credential or blanks around the session key, which boot  *)
(* accepts.                                                                *)
DoctorVouches ==
  LET c == Load(proc.dep) IN
    /\ proc.pc = "refused" /\ proc.report.exit = 0 =>
         \/ proc.failed \in {"connect", "migrate", "bind"}
         \/ proc.failed = "registry" /\ c.discovery_url = "http"
         \/ proc.failed = "sessions" /\ c.session_key = "text"
         \/ proc.failed = "introspection_gate" /\ ~c.required_client_auth
         \/ proc.failed = "address" /\ c.bind \in HostName \cup BareIPv6
         \/ proc.failed = "router" /\ c.cors_allowed_origins = "list"
    /\ proc.pc = "up" /\ proc.report.exit = 1 /\ ~proc.report.strict =>
         c.credentials = "empty" \/ c.session_key = "padded"

(* A deployment that `tim doctor --strict` lets through, and that is not   *)
(* edited before it is started, has its privileged endpoints gated, and    *)
(* the boot log warns of nothing but what the doctor does not look at, or  *)
(* of a retirement that came nearer since it looked.                       *)
StrictForesees ==
  proc.pc = "up" /\ proc.report.exit = 0 /\ proc.report.strict =>
    /\ AdminToken(Load(proc.dep)) # "none"
    /\ proc.warned \subseteq
              {"public_base_url", "issuer", "csp", "sweeper", "redirect_uris", "offline"}
         \cup Flag("previous_key", proc.left # proc.report.left)

(* With auto_migrate, a release serves on no schema older than its own,    *)
(* however boots fail, are killed and are followed by boots of another     *)
(* release.                                                                *)
ServesMigrated ==
  proc.pc = "up" /\ Load(proc.dep).auto_migrate => proc.dep.release <= schema

(* "`tim doctor` answers "will this config boot cleanly?"" (doctor.rs 4):  *)
(* a deployment it passed is refused for nothing but the database and the  *)
(* port.                                                                   *)
DoctorAnswersBoot ==
  proc.pc = "refused" /\ proc.report.exit = 0 =>
    proc.failed \in {"connect", "migrate", "bind"}
=============================================================================
