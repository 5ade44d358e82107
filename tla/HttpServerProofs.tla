-------------------------- MODULE HttpServerProofs --------------------------
(***************************************************************************)
(* Proofs about the boot of a deployment and the running server (Boot,     *)
(* HttpServer), from any deployments, for any number of introspection      *)
(* clients and of requests in flight, and any number of edits and lives of *)
(* the process.                                                            *)
(***************************************************************************)
EXTENDS HttpServer, TLAPS

-----------------------------------------------------------------------------
(* A deployment gives every field a value of its own.                      *)
Deployed(d) ==
  DOMAIN d = DOMAIN Fields /\ \A f \in DOMAIN Fields : d[f] \in Fields[f]

(* The checks of a boot, without their order.                              *)
FirstPassed(d) ==
  LET c == Load(d) IN
    /\ Loads(d)
    /\ Validate(c)
    /\ c.private_key = "ok"
    /\ HasPrevious(c) => c.previous_pem = "ok" /\ c.previous_key # "same"
    /\ c.db_url # "unset"

FirstFails(d, check) ==
  LET c == Load(d) IN
    \/ check = "load" /\ ~Loads(d)
    \/ check = "validate" /\ ~Validate(c)
    \/ check = "private_key" /\ c.private_key # "ok"
    \/ check = "previous_key" /\ HasPrevious(c)
         /\ (c.previous_pem # "ok" \/ c.previous_key = "same")
    \/ check = "db_url" /\ c.db_url = "unset"

LastPassed(d) ==
  LET c == Load(d) IN
    /\ RegistryBuilt(c)
    /\ SessionsBuilt(c)
    /\ AdminGateBuilt(c)
    /\ IntrospectionGateBuilt(c)
    /\ AddressParses(c.bind)
    /\ CorsUsable(c)

LastFails(d, check) ==
  LET c == Load(d) IN
    \/ check = "registry" /\ ~RegistryBuilt(c)
    \/ check = "sessions" /\ ~SessionsBuilt(c)
    \/ check = "admin_gate" /\ ~AdminGateBuilt(c)
    \/ check = "introspection_gate" /\ ~IntrospectionGateBuilt(c)
    \/ check = "address" /\ ~AddressParses(c.bind)
    \/ check = "router" /\ ~CorsUsable(c)

-----------------------------------------------------------------------------
(* The checks are gone through in order, and the first that fails is named. *)

LEMMA LeastOfSix ==
  ASSUME NEW S \in SUBSET (1 .. 6), S # {}
  PROVE  \E i \in S : \A j \in S : i <= j
<1>1. \A j \in S : j \in Nat /\ 1 <= j /\ (j = 1 \/ j = 2 \/ j = 3 \/ j = 4 \/ j = 5 \/ j = 6)
  OBVIOUS
<1>2. PICK k \in S : TRUE
  OBVIOUS
<1>3. ASSUME NEW i \in S, \A j \in S : ~(j < i) PROVE \E m \in S : \A j \in S : m <= j
  BY <1>1, <1>3
<1>4. CASE 1 \in S
  BY <1>1, <1>3, <1>4
<1>5. CASE 1 \notin S /\ 2 \in S
  BY <1>1, <1>3, <1>5
<1>6. CASE {1, 2} \cap S = {} /\ 3 \in S
  BY <1>1, <1>3, <1>6
<1>7. CASE {1, 2, 3} \cap S = {} /\ 4 \in S
  BY <1>1, <1>3, <1>7
<1>8. CASE {1, 2, 3, 4} \cap S = {} /\ 5 \in S
  BY <1>1, <1>3, <1>8
<1>9. CASE {1, 2, 3, 4, 5} \cap S = {} /\ 6 \in S
  BY <1>1, <1>3, <1>9
<1>10. QED
  BY <1>1, <1>2, <1>4, <1>5, <1>6, <1>7, <1>8, <1>9

LEMMA FirstFailedNames ==
  ASSUME NEW checks, NEW n \in 1 .. 6, DOMAIN checks = 1 .. n
  PROVE  \/ FirstFailed(checks) = "none" /\ \A i \in 1 .. n : checks[i][2]
         \/ \E i \in 1 .. n : FirstFailed(checks) = checks[i][1] /\ ~checks[i][2]
<1> DEFINE failed == {i \in DOMAIN checks : ~checks[i][2]}
<1>1. CASE failed = {}
  BY <1>1 DEF FirstFailed
<1>2. CASE failed # {}
  <2> DEFINE i == CHOOSE i \in failed : \A j \in failed : i <= j
  <2>1. failed \in SUBSET (1 .. 6)
    OBVIOUS
  <2>2. i \in failed
    BY <1>2, <2>1, LeastOfSix
  <2>3. FirstFailed(checks) = checks[i][1]
    BY <1>2 DEF FirstFailed
  <2>4. QED
    BY <2>2, <2>3
<1>3. QED
  BY <1>1, <1>2

LEMMA FirstChecksNamed ==
  ASSUME NEW d, NEW failed, failed = FirstFailed(FirstChecks(d))
  PROVE  (failed = "none" /\ FirstPassed(d)) \/ FirstFails(d, failed)
<1> DEFINE c == Load(d)
           checks == FirstChecks(d)
<1>1. DOMAIN checks = 1 .. 5
  BY DEF FirstChecks
<1>2. /\ checks[1][1] = "load" /\ checks[1][2] = Loads(d)
      /\ checks[2][1] = "validate" /\ checks[2][2] = Validate(c)
      /\ checks[3][1] = "private_key" /\ (checks[3][2] <=> c.private_key = "ok")
      /\ checks[4][1] = "previous_key"
      /\ (checks[4][2] <=>
           (HasPrevious(c) => c.previous_pem = "ok" /\ c.previous_key # "same"))
      /\ checks[5][1] = "db_url" /\ (checks[5][2] <=> c.db_url # "unset")
  BY DEF FirstChecks
<1> HIDE DEF checks
<1>3. \/ failed = "none" /\ \A i \in 1 .. 5 : checks[i][2]
      \/ \E i \in 1 .. 5 : failed = checks[i][1] /\ ~checks[i][2]
  BY <1>1, FirstFailedNames DEF checks
<1>4. \A i \in 1 .. 5 : i = 1 \/ i = 2 \/ i = 3 \/ i = 4 \/ i = 5
  OBVIOUS
<1>5. QED
  BY <1>2, <1>3, <1>4 DEF FirstPassed, FirstFails

LEMMA LastChecksNamed ==
  ASSUME NEW d, NEW failed, failed = FirstFailed(LastChecks(d))
  PROVE  (failed = "none" /\ LastPassed(d)) \/ LastFails(d, failed)
<1> DEFINE c == Load(d)
           checks == LastChecks(d)
<1>1. DOMAIN checks = 1 .. 6
  BY DEF LastChecks
<1>2. /\ checks[1][1] = "registry" /\ checks[1][2] = RegistryBuilt(c)
      /\ checks[2][1] = "sessions" /\ checks[2][2] = SessionsBuilt(c)
      /\ checks[3][1] = "admin_gate" /\ checks[3][2] = AdminGateBuilt(c)
      /\ checks[4][1] = "introspection_gate" /\ checks[4][2] = IntrospectionGateBuilt(c)
      /\ checks[5][1] = "address" /\ checks[5][2] = AddressParses(c.bind)
      /\ checks[6][1] = "router" /\ checks[6][2] = CorsUsable(c)
  BY DEF LastChecks
<1> HIDE DEF checks
<1>3. \/ failed = "none" /\ \A i \in 1 .. 6 : checks[i][2]
      \/ \E i \in 1 .. 6 : failed = checks[i][1] /\ ~checks[i][2]
  BY <1>1, FirstFailedNames DEF checks
<1>4. \A i \in 1 .. 6 : i = 1 \/ i = 2 \/ i = 3 \/ i = 4 \/ i = 5 \/ i = 6
  OBVIOUS
<1>5. QED
  BY <1>2, <1>3, <1>4 DEF LastPassed, LastFails

-----------------------------------------------------------------------------
(* Laying one configuration over another.                                  *)

(* The environment is in every deployment, and the provider's URL and the  *)
(* release have the values declared for them.                              *)
LEMMA FieldValues ==
  /\ {"db_url", "admin_token", "client_secret", "credentials", "session_key", "release",
      "discovery_url", "cors_allowed_origins", "content_security_policy",
      "x_frame_options", "strict_transport_security"} \subseteq DOMAIN Fields
  /\ Fields["release"] = 1 .. 2
  /\ Fields["admin_token"] = Secret
  /\ Fields["discovery_url"] = {"none", "https", "http"}
  /\ Fields["cors_allowed_origins"] = {"none", "list", "star"}
  /\ Fields["content_security_policy"] = HeaderText
  /\ Fields["x_frame_options"] = HeaderText
  /\ Fields["strict_transport_security"] = {"off", "plain", "preload", "garbled"}
<1> DEFINE Declared(A) ==
             /\ {"discovery_url", "cors_allowed_origins", "content_security_policy",
                 "x_frame_options", "strict_transport_security"} \subseteq DOMAIN A
             /\ A["discovery_url"] = {"none", "https", "http"}
             /\ A["cors_allowed_origins"] = {"none", "list", "star"}
             /\ A["content_security_policy"] = HeaderText
             /\ A["x_frame_options"] = HeaderText
             /\ A["strict_transport_security"] = {"off", "plain", "preload", "garbled"}
           A6 == Over(IntrospectionConfig, SecurityConfig)
           A5 == Over(ProviderConfig, A6)
           A4 == Over(OAuth2Config, A5)
           A3 == Over(JwtConfig, A4)
           A2 == Over(DatabaseConfig, A3)
<1>1. /\ DOMAIN ServerConfig = {"bind", "public_base_url"}
      /\ DOMAIN DatabaseConfig = {"auto_migrate"}
      /\ DOMAIN JwtConfig = {"issuer_localhost", "audience_validation", "previous_key"}
      /\ DOMAIN OAuth2Config =
           {"session_store", "session_encryption_key_env", "sweep_interval"}
      /\ DOMAIN ProviderConfig =
           {"discovery_url", "allow_http_discovery", "jwks_uri", "redirect_uris"}
      /\ DOMAIN IntrospectionConfig =
           {"required_client_auth", "gate_validation_endpoints", "gate_jvm_compat_endpoints",
            "clients", "clients_named"}
      /\ DOMAIN SecurityConfig =
           {"admin_token_env", "require_admin_token", "cors_allowed_origins",
            "content_security_policy", "x_frame_options", "strict_transport_security"}
      /\ DOMAIN Environment =
           {"file", "release", "db_url", "admin_token", "credentials", "session_key",
            "client_secret", "TIM_OFFLINE", "private_key", "previous_pem"}
  BY DEF ServerConfig, DatabaseConfig, JwtConfig, OAuth2Config, ProviderConfig,
         IntrospectionConfig, SecurityConfig, Environment
<1>2. /\ ProviderConfig["discovery_url"] = {"none", "https", "http"}
      /\ Environment["release"] = 1 .. 2 /\ Environment["admin_token"] = Secret
      /\ SecurityConfig["cors_allowed_origins"] = {"none", "list", "star"}
      /\ SecurityConfig["content_security_policy"] = HeaderText
      /\ SecurityConfig["x_frame_options"] = HeaderText
      /\ SecurityConfig["strict_transport_security"] = {"off", "plain", "preload", "garbled"}
  BY DEF ProviderConfig, Environment, SecurityConfig
<1>3. Declared(A5)
  BY <1>1, <1>2 DEF Over
<1>4. Declared(A3)
  <2> HIDE DEF A5
  <2>1. QED
    BY <1>1, <1>3 DEF Over
<1>5. Declared(AppConfig)
  <2>1. AppConfig = Over(ServerConfig, A2)
    BY DEF AppConfig
  <2> HIDE DEF A3
  <2>2. QED
    BY <1>1, <1>4, <2>1 DEF Over
<1>6. DOMAIN AppConfig \cap {"release", "db_url", "admin_token", "client_secret"} = {}
  <2>1. DOMAIN AppConfig = DOMAIN ServerConfig \cup DOMAIN DatabaseConfig \cup DOMAIN JwtConfig
          \cup DOMAIN OAuth2Config \cup DOMAIN ProviderConfig \cup DOMAIN IntrospectionConfig
          \cup DOMAIN SecurityConfig
    BY DEF AppConfig, Over
  <2>2. QED
    BY <1>1, <2>1
<1>7. QED
  BY <1>1, <1>2, <1>5, <1>6 DEF Fields, Over

(* Without a file, the environment is still taken as it is.                *)
LEMMA LoadKeeps ==
  ASSUME NEW d, Deployed(d)
  PROVE  /\ Load(d).db_url = d.db_url
         /\ Load(d).admin_token = d.admin_token
         /\ Load(d).client_secret = d.client_secret
         /\ Load(d).discovery_url \in {"none", "https", "http"}
         /\ Load(d).cors_allowed_origins \in {"none", "list", "star"}
         /\ Load(d).content_security_policy \in HeaderText
         /\ Load(d).x_frame_options \in HeaderText
         /\ Load(d).strict_transport_security \in {"off", "plain", "preload", "garbled"}
         /\ d.release \in 1 .. 2
         /\ d.admin_token \in Secret
<1>1. /\ {"db_url", "admin_token", "client_secret", "release", "discovery_url",
          "cors_allowed_origins", "content_security_policy", "x_frame_options",
          "strict_transport_security"} \subseteq DOMAIN d
      /\ d["cors_allowed_origins"] \in {"none", "list", "star"}
      /\ d["content_security_policy"] \in HeaderText /\ d["x_frame_options"] \in HeaderText
      /\ d["strict_transport_security"] \in {"off", "plain", "preload", "garbled"}
      /\ d["release"] \in 1 .. 2 /\ d["discovery_url"] \in {"none", "https", "http"}
      /\ d["admin_token"] \in Secret
  BY FieldValues DEF Deployed
<1>2. /\ DOMAIN Default \cap {"db_url", "admin_token", "client_secret"} = {}
      /\ "discovery_url" \in DOMAIN Default /\ Default["discovery_url"] = "none"
      /\ "cors_allowed_origins" \in DOMAIN Default /\ Default["cors_allowed_origins"] = "none"
      /\ {"content_security_policy", "x_frame_options", "strict_transport_security"}
           \subseteq DOMAIN Default
      /\ Default["content_security_policy"] \in HeaderText
      /\ Default["x_frame_options"] \in HeaderText
      /\ Default["strict_transport_security"] = "plain"
  BY DEF Default, HeaderText
<1>3. QED
  BY <1>1, <1>2 DEF Load, Over

-----------------------------------------------------------------------------
(***************************************************************************)
(* The invariant of the process: it has passed the checks before the point *)
(* it has reached, or has failed the one it names, with the deployment and *)
(* the doctor's report it was launched with.                               *)
(***************************************************************************)

ReportOf(said, d) ==
  said = NoReport \/ \E strict \in BOOLEAN, days \in Left :
    said = [exit |-> ExitCode(d, days, strict), strict |-> strict, left |-> days]

Started == {"connect", "migrate", "assemble", "bind", "up"}

ProcSound(p) ==
  /\ DOMAIN p = {"pc", "dep", "report", "left", "failed", "warned"}
  /\ Deployed(p.dep)
  /\ ReportOf(p.report, p.dep)
  /\ p.pc \in Started =>
       /\ FirstPassed(p.dep)
       /\ p.warned = Diagnose(Load(p.dep)) \cup RetirementWarning(Load(p.dep), p.left)
  /\ p.pc \in {"migrate", "assemble", "bind", "up"} => p.dep.db_url = "set"
  /\ p.pc \in {"assemble", "bind", "up"} =>
       (Load(p.dep).auto_migrate => p.dep.release <= schema)
  /\ p.pc \in {"bind", "up"} => LastPassed(p.dep)
  /\ p.pc = "refused" =>
       \/ p.failed \in {"connect", "migrate", "bind"}
       \/ FirstFails(p.dep, p.failed)
       \/ LastFails(p.dep, p.failed)

BootInv ==
  /\ Deployed(dep)
  /\ left \in Left
  /\ ReportOf(report, dep)
  /\ ProcSound(proc)

LEMMA DownSound ==
  ASSUME NEW d, Deployed(d)
  PROVE  ProcSound(Down(d))
<1> DEFINE p == Down(d)
<1>1. /\ DOMAIN p = {"pc", "dep", "report", "left", "failed", "warned"} /\ p.pc = "down"
      /\ p.dep = d /\ p.report = NoReport
  BY DEF Down
<1> HIDE DEF p
<1>2. ProcSound(p)
  BY <1>1 DEF ProcSound, ReportOf, Started
<1>3. QED
  BY <1>2 DEF p

LEMMA BootInitInv == ASSUME BootInit PROVE BootInv
  BY BaseAssumption, DownSound DEF BootInit, BootInv, Deployed, ReportOf, Left

(* A boot moves on, or is refused.                                         *)
LEMMA GoesEffect ==
  ASSUME NEW pc, ProcSound(proc), Goes(pc)
  PROVE  /\ DOMAIN proc' = {"pc", "dep", "report", "left", "failed", "warned"} /\ proc'.pc = pc
         /\ proc'.dep = proc.dep /\ proc'.report = proc.report /\ proc'.warned = proc.warned
         /\ proc'.left = proc.left
  BY DEF Goes, ProcSound

LEMMA RefusedSound ==
  ASSUME NEW check, ProcSound(proc), Refused(check),
         \/ check \in {"connect", "migrate", "bind"}
         \/ FirstFails(proc.dep, check)
         \/ LastFails(proc.dep, check)
  PROVE  ProcSound(proc)'
<1>1. /\ DOMAIN proc' = {"pc", "dep", "report", "left", "failed", "warned"} /\ proc'.pc = "refused"
      /\ proc'.dep = proc.dep /\ proc'.report = proc.report /\ proc'.failed = check
  BY DEF Refused, ProcSound
<1>2. Deployed(proc'.dep) /\ ReportOf(proc'.report, proc'.dep)
  BY <1>1 DEF ProcSound
<1>3. \/ proc'.failed \in {"connect", "migrate", "bind"}
      \/ FirstFails(proc'.dep, proc'.failed)
      \/ LastFails(proc'.dep, proc'.failed)
  BY <1>1
<1>4. QED
  BY <1>1, <1>2, <1>3 DEF ProcSound, Started

LEMMA LoadConfigSound == ASSUME BootInv, LoadConfig PROVE ProcSound(proc)'
<1>1. PICK failed : failed = FirstFailed(FirstChecks(proc.dep))
  OBVIOUS
<1> DEFINE c == Load(proc.dep)
           pc == IF failed = "none" THEN "connect" ELSE "refused"
           warned == CASE failed \in {"load", "validate"} -> {}
                       [] failed \in {"private_key", "previous_key"} -> Diagnose(c)
                       [] OTHER -> Diagnose(c) \cup RetirementWarning(c, left)
<1>2. /\ proc' = [proc EXCEPT !.pc = pc, !.failed = failed, !.left = left, !.warned = warned]
      /\ ProcSound(proc)
  BY <1>1 DEF LoadConfig, BootInv
<1>3. failed = "none" => warned = Diagnose(c) \cup RetirementWarning(c, left)
  OBVIOUS
<1> HIDE DEF warned, pc
<1>4. /\ DOMAIN proc' = {"pc", "dep", "report", "left", "failed", "warned"} /\ proc'.pc = pc
      /\ proc'.dep = proc.dep /\ proc'.report = proc.report /\ proc'.failed = failed
      /\ proc'.warned = warned /\ proc'.left = left
  BY <1>2 DEF ProcSound
<1>5. Deployed(proc'.dep) /\ ReportOf(proc'.report, proc'.dep)
  BY <1>2, <1>4 DEF ProcSound
<1>6. (failed = "none" /\ FirstPassed(proc.dep)) \/ FirstFails(proc.dep, failed)
  BY <1>1, FirstChecksNamed
<1>7. FirstFails(proc.dep, failed) => failed # "none"
  BY DEF FirstFails
<1>8. QED
  BY <1>3, <1>4, <1>5, <1>6, <1>7 DEF ProcSound, Started, pc

LEMMA ConnectSound == ASSUME BootInv, Connect PROVE ProcSound(proc)'
<1>1. ProcSound(proc) /\ proc.pc = "connect"
  BY DEF BootInv, Connect
<1>2. CASE Refused("connect")
  BY <1>1, <1>2, RefusedSound
<1>3. CASE proc.dep.db_url = "set" /\ Goes("migrate")
  BY <1>1, <1>3, GoesEffect DEF ProcSound, Started
<1>4. QED
  BY <1>2, <1>3 DEF Connect

LEMMA MigrateSound == ASSUME BootInv, Migrate PROVE ProcSound(proc)'
<1>1. ProcSound(proc) /\ proc.pc = "migrate" /\ proc.dep.release \in Nat
  BY LoadKeeps DEF BootInv, Migrate, ProcSound
<1>2. CASE Refused("migrate")
  BY <1>1, <1>2, RefusedSound
<1>3. CASE Goes("assemble") /\ (Load(proc.dep).auto_migrate => schema' = proc.dep.release)
  <2>1. Load(proc.dep).auto_migrate => proc.dep.release <= schema'
    BY <1>1, <1>3
  <2>2. QED
    BY <1>1, <1>3, <2>1, GoesEffect DEF ProcSound, Started
<1>4. QED
  BY <1>2, <1>3 DEF Migrate

LEMMA AssembleSound == ASSUME BootInv, Assemble PROVE ProcSound(proc)'
<1>1. ProcSound(proc) /\ proc.pc = "assemble" /\ UNCHANGED schema
  BY DEF BootInv, Assemble
<1>2. PICK failed : failed = FirstFailed(LastChecks(proc.dep))
  OBVIOUS
<1>3. (failed = "none" /\ LastPassed(proc.dep)) \/ LastFails(proc.dep, failed)
  BY <1>2, LastChecksNamed
<1>4. CASE failed = "none" /\ Goes("bind")
  <2>1. LastPassed(proc.dep)
    BY <1>3, <1>4 DEF LastFails
  <2>2. QED
    BY <1>1, <1>4, <2>1, GoesEffect DEF ProcSound, Started
<1>5. CASE failed # "none" /\ Refused(failed)
  BY <1>1, <1>3, <1>5, RefusedSound
<1>6. QED
  BY <1>2, <1>4, <1>5 DEF Assemble, PassesOr

LEMMA ListenSound == ASSUME BootInv, Listen PROVE ProcSound(proc)'
<1>1. ProcSound(proc) /\ proc.pc = "bind" /\ UNCHANGED schema
  BY DEF BootInv, Listen
<1>2. CASE Refused("bind")
  BY <1>1, <1>2, RefusedSound
<1>3. CASE Goes("up")
  BY <1>1, <1>3, GoesEffect DEF ProcSound, Started
<1>4. QED
  BY <1>2, <1>3 DEF Listen

LEMMA LaunchSound == ASSUME BootInv, Launch PROVE ProcSound(proc)'
<1> DEFINE p == [Down(dep) EXCEPT !.pc = "load", !.report = report]
<1>1. /\ DOMAIN p = {"pc", "dep", "report", "left", "failed", "warned"} /\ p.pc = "load"
      /\ p.dep = dep /\ p.report = report
  BY DEF Down
<1>2. proc' = p
  BY DEF Launch
<1> HIDE DEF p
<1>3. QED
  BY <1>1, <1>2 DEF ProcSound, BootInv, Started

LEMMA EditKeeps == ASSUME BootInv, Edit PROVE Deployed(dep)' /\ left' \in Left
<1>1. CASE left' \in Left \ {left} /\ UNCHANGED dep
  BY <1>1 DEF BootInv, Deployed
<1>2. CASE /\ \E f \in DOMAIN Fields : \E v \in Fields[f] \ {dep[f]} : dep' = [dep EXCEPT ![f] = v]
           /\ UNCHANGED left
  BY <1>2 DEF BootInv, Deployed
<1>3. QED
  BY <1>1, <1>2 DEF Edit

LEMMA BootNextInv == ASSUME BootInv, BootNext \/ UNCHANGED bootVars PROVE BootInv'
<1>1. CASE Edit
  BY <1>1, EditKeeps DEF Edit, BootInv, ReportOf, ProcSound
<1>2. CASE Doctor \/ Age
  BY <1>2 DEF Doctor, Age, BootInv, ReportOf, ProcSound, Left
<1>3. CASE Launch
  BY <1>3, LaunchSound DEF Launch, BootInv
<1>4. CASE BootStep
  <2>1. ProcSound(proc)'
    BY <1>4, LoadConfigSound, ConnectSound, MigrateSound, AssembleSound, ListenSound
    DEF BootStep
  <2>2. UNCHANGED <<dep, left, report>>
    BY <1>4 DEF BootStep, LoadConfig, Connect, Migrate, Assemble, Listen
  <2>3. QED
    BY <2>1, <2>2 DEF BootInv
<1>5. CASE Stop
  BY <1>5, DownSound DEF Stop, BootInv, ProcSound
<1>6. CASE UNCHANGED bootVars
  BY <1>6 DEF bootVars, BootInv, ProcSound
<1>7. QED
  BY <1>1, <1>2, <1>3, <1>4, <1>5, <1>6 DEF BootNext

-----------------------------------------------------------------------------
(* What the doctor's verdict says of a configuration.                      *)

DoctorPassed(d) ==
  LET c == Load(d) IN
    /\ Loads(d)
    /\ Validate(c)
    /\ c.private_key = "ok"
    /\ ~PreviousKeyFails(c)
    /\ Resolved(c.db_url)
    /\ c.require_admin_token => c.admin_token_env /\ Resolved(c.admin_token)
    /\ KeyLooksRight(c)
    /\ HasProvider(c) => Resolved(c.credentials)
    /\ ~ClientsFail(c)

LEMMA FailsNothing == ASSUME NEW d PROVE DoctorFails(d) = {} <=> DoctorPassed(d)
<1>1. CASE ~Loads(d)
  BY <1>1 DEF DoctorFails, DoctorPassed
<1>2. CASE Loads(d)
  BY <1>2 DEF DoctorFails, DoctorPassed, Flag
<1>3. QED
  BY <1>1, <1>2

LEMMA WarnsNothing ==
  ASSUME NEW d, NEW days, Loads(d), DoctorWarns(d, days) = {}
  PROVE  LET c == Load(d) IN
           /\ HasPrevious(c) /\ ~PreviousKeyFails(c) => days = "more"
           /\ c.require_admin_token
           /\ c.required_client_auth
           /\ c.session_store # "memory"
           /\ c.audience_validation
           /\ c.cors_allowed_origins # "star"
           /\ c.bind \in {"127.0.0.1", "::1"} \/ HasPreload(c)
  BY DEF DoctorWarns, Flag, Ungated

LEMMA ExitCodeMeans ==
  ASSUME NEW d, NEW days, NEW strict \in BOOLEAN
  PROVE  /\ ExitCode(d, days, strict) = 0 =>
              DoctorPassed(d) /\ (strict => DoctorWarns(d, days) = {})
         /\ ExitCode(d, days, strict) = 1 /\ ~strict => ~DoctorPassed(d)
  BY FailsNothing DEF ExitCode

LEMMA ReportMeans ==
  ASSUME NEW d, NEW said, ReportOf(said, d)
  PROVE  /\ said.exit = 0 => DoctorPassed(d)
         /\ said.exit = 0 /\ said.strict => DoctorWarns(d, said.left) = {}
         /\ said.exit = 1 /\ ~said.strict => ~DoctorPassed(d)
<1>1. CASE said = NoReport
  BY <1>1 DEF NoReport
<1>2. ASSUME NEW strict \in BOOLEAN, NEW days \in Left,
             said = [exit |-> ExitCode(d, days, strict), strict |-> strict, left |-> days]
      PROVE  /\ said.exit = 0 => DoctorPassed(d)
             /\ said.exit = 0 /\ said.strict => DoctorWarns(d, said.left) = {}
             /\ said.exit = 1 /\ ~said.strict => ~DoctorPassed(d)
  <2>1. said.exit = ExitCode(d, days, strict) /\ said.strict = strict /\ said.left = days
    BY <1>2
  <2>2. QED
    BY <2>1, ExitCodeMeans
<1>3. QED
  BY <1>1, <1>2 DEF ReportOf

LEMMA VouchedFor == ASSUME BootInv PROVE DoctorVouches
<1> DEFINE d == proc.dep
           c == Load(d)
<1>1. ProcSound(proc) /\ Deployed(d) /\ ReportOf(proc.report, d)
  BY DEF BootInv, ProcSound
<1>2. ASSUME proc.pc = "refused", proc.report.exit = 0
      PROVE  \/ proc.failed \in {"connect", "migrate", "bind"}
             \/ proc.failed = "registry" /\ c.discovery_url = "http"
             \/ proc.failed = "sessions" /\ c.session_key = "text"
             \/ proc.failed = "introspection_gate" /\ ~c.required_client_auth
             \/ proc.failed = "address" /\ c.bind \in HostName \cup BareIPv6
             \/ proc.failed = "router" /\ c.cors_allowed_origins = "list"
  <2>1. DoctorPassed(d)
    BY <1>1, <1>2, ReportMeans
  <2>2. ~FirstFails(d, proc.failed)
    BY <2>1 DEF DoctorPassed, FirstFails, PreviousKeyFails, Resolved
  <2>3. CASE LastFails(d, proc.failed)
    <3>1. CASE proc.failed = "registry" /\ ~RegistryBuilt(c)
      <4>1. c.discovery_url \in {"none", "https", "http"}
        BY <1>1, LoadKeeps
      <4>2. QED
        BY <2>1, <3>1, <4>1 DEF RegistryBuilt, DoctorPassed, HasProvider, Resolved
    <3>2. CASE proc.failed = "sessions" /\ ~SessionsBuilt(c)
      BY <2>1, <3>2 DEF SessionsBuilt, DoctorPassed, KeyLooksRight, FromHexKey
    <3>3. CASE proc.failed = "admin_gate" /\ ~AdminGateBuilt(c)
      <4>1. c.admin_token # "none"
        BY <1>1, LoadKeeps DEF Secret
      <4>2. QED
        BY <2>1, <3>3, <4>1 DEF AdminGateBuilt, AdminToken, DoctorPassed
    <3>4. CASE proc.failed = "introspection_gate" /\ ~IntrospectionGateBuilt(c)
      BY <2>1, <3>4 DEF IntrospectionGateBuilt, DoctorPassed, ClientsFail
    <3>5. CASE proc.failed = "address" /\ ~AddressParses(c.bind)
      BY <3>5 DEF AddressParses
    <3>6. CASE proc.failed = "router" /\ ~CorsUsable(c)
      BY <3>6 DEF CorsUsable
    <3>7. QED
      BY <2>3, <3>1, <3>2, <3>3, <3>4, <3>5, <3>6 DEF LastFails
  <2>4. QED
    BY <1>1, <1>2, <2>2, <2>3 DEF ProcSound
<1>3. ASSUME proc.pc = "up", proc.report.exit = 1, ~proc.report.strict
      PROVE  c.credentials = "empty" \/ c.session_key = "padded"
  <2>1. ~DoctorPassed(d) /\ FirstPassed(d) /\ LastPassed(d) /\ d.db_url = "set"
    BY <1>1, <1>3, ReportMeans DEF ProcSound, Started
  <2>2. Loads(d) /\ Validate(c) /\ c.private_key = "ok" /\ ~PreviousKeyFails(c) /\ Resolved(c.db_url)
    BY <1>1, <2>1, LoadKeeps DEF FirstPassed, PreviousKeyFails, Resolved
  <2>3. c.require_admin_token => c.admin_token_env /\ Resolved(c.admin_token)
    BY <2>1 DEF LastPassed, AdminGateBuilt, AdminToken
  <2>4. ~ClientsFail(c)
    BY <2>1, <2>2 DEF LastPassed, IntrospectionGateBuilt, AnyRequired, ClientsFail, Validate
  <2>5. ~KeyLooksRight(c) => c.session_key = "padded"
    BY <2>1 DEF LastPassed, SessionsBuilt, FromHexKey, KeyLooksRight
  <2>6. HasProvider(c) /\ ~Resolved(c.credentials) => c.credentials = "empty"
    BY <2>1 DEF LastPassed, RegistryBuilt, Resolved
  <2>7. QED
    BY <2>1, <2>2, <2>3, <2>4, <2>5, <2>6 DEF DoctorPassed
<1>4. QED
  BY <1>2, <1>3 DEF DoctorVouches

LEMMA StrictlyForeseen == ASSUME BootInv PROVE StrictForesees
<1> DEFINE d == proc.dep
           c == Load(d)
           known == {"public_base_url", "issuer", "csp", "sweeper", "redirect_uris", "offline"}
<1> SUFFICES ASSUME proc.pc = "up", proc.report.exit = 0, proc.report.strict
             PROVE  /\ AdminToken(c) # "none"
                    /\ proc.warned \subseteq
                         known \cup Flag("previous_key", proc.left # proc.report.left)
  BY DEF StrictForesees
<1>1. ProcSound(proc) /\ ReportOf(proc.report, d)
  BY DEF BootInv, ProcSound
<1>2. /\ DoctorPassed(d) /\ DoctorWarns(d, proc.report.left) = {}
      /\ FirstPassed(d) /\ LastPassed(d)
  BY <1>1, ReportMeans DEF ProcSound, Started
<1>3. /\ HasPrevious(c) => proc.report.left = "more"
      /\ c.require_admin_token /\ c.required_client_auth
      /\ c.session_store # "memory" /\ c.audience_validation
      /\ c.cors_allowed_origins # "star"
      /\ c.bind \in {"127.0.0.1", "::1"} \/ HasPreload(c)
  BY <1>2, WarnsNothing DEF DoctorPassed
<1>4. AdminToken(c) # "none"
  BY <1>2, <1>3 DEF LastPassed, AdminGateBuilt
<1>5. c.admin_token_env
  BY <1>4 DEF AdminToken
<1>6. RetirementWarning(c, proc.left) \subseteq
        Flag("previous_key", proc.left # proc.report.left)
  BY <1>3 DEF RetirementWarning, Flag
<1>7. proc.warned = Diagnose(c) \cup RetirementWarning(c, proc.left)
  BY <1>1 DEF ProcSound, Started
<1>8. Diagnose(c) \subseteq known
  BY <1>3, <1>5 DEF Diagnose, Flag, bind_is_loopback
<1>9. QED
  BY <1>4, <1>6, <1>7, <1>8

-----------------------------------------------------------------------------
(***************************************************************************)
(* The running server.  A request in flight belongs to a process that is   *)
(* up, has passed the gates before the point it has reached, and is        *)
(* answered once, on the way out through the layers.                       *)
(***************************************************************************)

ReqFields == {"pc", "method", "endpoint", "x_tim_admin_token", "authorization", "body",
              "traceparent", "ran", "read", "status", "lines", "headers", "trace"}

Oversize == {"declared_large", "streamed_large"}

(* The request has come through the outer layers and is not answered yet.  *)
Inside(r) ==
  /\ r.method # "OPTIONS"
  /\ r.endpoint = "admin" => AdminAuth(r)
  /\ r.body # "declared_large"
  /\ r.lines = <<>>

Guarded(r) ==
  /\ r.endpoint = "admin" => AdminAuth(r)
  /\ ClientAuth(r)
  /\ r.read => r.body \notin Oversize

Traced(r) ==
  LET cors == r.method = "OPTIONS" /\ Config.cors_allowed_origins # "none" IN
    /\ r.lines = IF cors THEN <<>> ELSE <<r.status>>
    /\ r.trace = IF cors THEN "none" ELSE TraceId(r)
    /\ r.headers = IF cors THEN {} ELSE SecurityHeaders

ReqSound(r) ==
  /\ DOMAIN r = ReqFields
  /\ r.ran \in BOOLEAN
  /\ r.pc \in {"none", "body", "handler", "done"}
  /\ r.pc # "none" => proc.pc = "up"
  /\ r.pc \in {"body", "handler"} => Inside(r)
  /\ r.pc \in {"none", "body"} => ~r.ran
  /\ r.ran => Guarded(r)
  /\ r.pc = "done" => Traced(r)

HttpInv ==
  /\ BootInv
  /\ req = [i \in Request |-> req[i]]
  /\ \A i \in Request : ReqSound(req[i])

LEMMA NoReqFields ==
  /\ DOMAIN NoReq = ReqFields /\ NoReq.pc = "none" /\ NoReq.ran = FALSE
  /\ NoReq.lines = <<>> /\ NoReq.trace = "none" /\ NoReq.headers = {}
  BY DEF NoReq, ReqFields

LEMMA NoReqSound == ReqSound(NoReq)
  BY NoReqFields DEF ReqSound

(* An answer on its way out through the access log and the headers.        *)
LEMMA AnsweredSound ==
  ASSUME NEW r, NEW status, DOMAIN r = ReqFields, r.ran \in BOOLEAN, r.lines = <<>>,
         proc.pc = "up", r.ran => Guarded(r),
         r.method = "OPTIONS" => Config.cors_allowed_origins = "none"
  PROVE  ReqSound(Answered(r, status))
<1> DEFINE k == [r EXCEPT !.pc = "done", !.status = status, !.lines = Append(@, status),
                          !.trace = TraceId(r), !.headers = SecurityHeaders]
<1>1. Append(r.lines, status) = <<status>>
  OBVIOUS
<1>2. /\ DOMAIN k = ReqFields /\ k.pc = "done" /\ k.status = status
      /\ k.lines = Append(r.lines, status)
      /\ k.trace = TraceId(r) /\ k.headers = SecurityHeaders /\ k.ran = r.ran
      /\ k.read = r.read
      /\ k.method = r.method /\ k.endpoint = r.endpoint /\ k.body = r.body
      /\ k.x_tim_admin_token = r.x_tim_admin_token /\ k.authorization = r.authorization
      /\ k.traceparent = r.traceparent
  BY DEF ReqFields
<1>3. k = Answered(r, status)
  BY DEF Answered
<1> HIDE DEF k
<1>4. TraceId(k) = TraceId(r)
  BY <1>2 DEF TraceId
<1>5. Traced(k)
  BY <1>1, <1>2, <1>4 DEF Traced
<1>6. Guarded(r) => Guarded(k)
  BY <1>2 DEF Guarded, AdminAuth, ClientAuth, VerifyBasic
<1>7. ReqSound(k)
  BY <1>2, <1>5, <1>6 DEF ReqSound
<1>8. QED
  BY <1>3, <1>7

(* A step of the request in slot i.                                        *)
LEMMA ReqMoves ==
  ASSUME HttpInv, NEW i \in Request, NEW k, ReqSound(k), req' = [req EXCEPT ![i] = k],
         UNCHANGED bootVars
  PROVE  HttpInv'
<1>1. BootInv'
  BY BootNextInv DEF HttpInv
<1>2. ASSUME NEW r, ReqSound(r) PROVE ReqSound(r)'
  BY <1>2 DEF bootVars, ReqSound, Inside, Guarded, Traced, AdminAuth, ClientAuth, VerifyBasic,
              SecurityHeaders, Gate, Config
<1>3. DOMAIN req' = Request /\ \A j \in Request : req'[j] = IF j = i THEN k ELSE req[j]
  BY DEF HttpInv
<1>4. ASSUME NEW j \in Request PROVE ReqSound(req[j])'
  <2>1. PICK r : r = IF j = i THEN k ELSE req[j]
    OBVIOUS
  <2>2. ReqSound(r)' /\ req'[j] = r
    BY <1>2, <1>3, <2>1 DEF HttpInv
  <2>3. QED
    BY <2>2 DEF ReqSound, Inside, Guarded, Traced, AdminAuth, ClientAuth, VerifyBasic, TraceId
<1>5. QED
  BY <1>1, <1>3, <1>4 DEF HttpInv

LEMMA EnteredSound ==
  ASSUME NEW r, DOMAIN r = ReqFields, r.pc = "none", r.ran = FALSE, r.lines = <<>>,
         r.trace = "none", r.headers = {}, proc.pc = "up",
         Config.cors_allowed_origins # "list",
         Config.cors_allowed_origins \in {"none", "list", "star"}
  PROVE  ReqSound(Entered(r))
<1>1. CASE r.method = "OPTIONS" /\ Config.cors_allowed_origins = "star"
  <2> DEFINE k == [r EXCEPT !.pc = "done", !.status = 200]
  <2>1. /\ DOMAIN k = ReqFields /\ k.pc = "done" /\ k.lines = <<>> /\ k.trace = "none"
        /\ k.headers = {} /\ k.ran = FALSE /\ k.method = r.method
    BY DEF ReqFields
  <2>2. Entered(r) = k
    BY <1>1 DEF Entered
  <2> HIDE DEF k
  <2>3. QED
    BY <1>1, <2>1, <2>2 DEF ReqSound, Traced
<1>2. CASE r.method # "OPTIONS" /\ r.body # "declared_large" /\ (r.endpoint = "admin" => AdminAuth(r))
  <2> DEFINE k == [r EXCEPT !.pc = "body"]
  <2>1. /\ DOMAIN k = ReqFields /\ k.pc = "body" /\ k.lines = <<>> /\ k.ran = FALSE
        /\ k.method = r.method /\ k.endpoint = r.endpoint /\ k.body = r.body
        /\ k.x_tim_admin_token = r.x_tim_admin_token /\ k.authorization = r.authorization
    BY DEF ReqFields
  <2>2. Entered(r) = k
    BY <1>2 DEF Entered
  <2> HIDE DEF k
  <2>3. Inside(k)
    BY <1>2, <2>1 DEF Inside, AdminAuth
  <2>4. QED
    BY <2>1, <2>2, <2>3 DEF ReqSound
<1>3. ASSUME NEW status PROVE
        (r.method = "OPTIONS" => Config.cors_allowed_origins = "none") =>
          ReqSound(Answered(r, status))
  BY AnsweredSound
<1>4. QED
  BY <1>1, <1>2, <1>3 DEF Entered

LEMMA UpMeans ==
  ASSUME BootInv, proc.pc = "up"
  PROVE  /\ LastPassed(proc.dep) /\ Deployed(proc.dep)
         /\ Config.cors_allowed_origins \in {"none", "star"}
<1>1. LastPassed(proc.dep) /\ Deployed(proc.dep)
  BY DEF BootInv, ProcSound
<1>2. Config.cors_allowed_origins \in {"none", "list", "star"}
  BY <1>1, LoadKeeps DEF Config
<1>3. QED
  BY <1>1, <1>2 DEF LastPassed, CorsUsable, Config

LEMMA ReceiveInv == ASSUME HttpInv, NEW i \in Request, Receive(i) PROVE HttpInv'
<1>1. PICK s \in Shape, e \in Endpoint : \E p \in Presented(e) :
        req' = [req EXCEPT ![i] = Entered(
          [NoReq EXCEPT !.method = s.method, !.body = s.body,
                        !.traceparent = s.traceparent, !.endpoint = e,
                        !.x_tim_admin_token = p[1], !.authorization = p[2]])]
  BY DEF Receive
<1>2. PICK p \in Presented(e) :
        req' = [req EXCEPT ![i] = Entered(
          [NoReq EXCEPT !.method = s.method, !.body = s.body,
                        !.traceparent = s.traceparent, !.endpoint = e,
                        !.x_tim_admin_token = p[1], !.authorization = p[2]])]
  BY <1>1
<1> DEFINE r == [NoReq EXCEPT !.method = s.method, !.body = s.body,
                              !.traceparent = s.traceparent, !.endpoint = e,
                              !.x_tim_admin_token = p[1], !.authorization = p[2]]
<1>3. /\ DOMAIN r = ReqFields /\ r.pc = "none" /\ r.ran = FALSE /\ r.lines = <<>>
      /\ r.trace = "none" /\ r.headers = {}
  BY NoReqFields DEF ReqFields
<1>4. req' = [req EXCEPT ![i] = Entered(r)] /\ UNCHANGED bootVars /\ proc.pc = "up"
  BY <1>2 DEF Receive
<1> HIDE DEF r
<1>5. ReqSound(Entered(r))
  BY <1>3, <1>4, EnteredSound, UpMeans DEF HttpInv
<1>6. QED
  BY <1>4, <1>5, ReqMoves

LEMMA ExtractInv == ASSUME HttpInv, NEW i \in Request, Extract(i) PROVE HttpInv'
<1> DEFINE r == req[i]
           k(takes) == [r EXCEPT !.pc = "handler", !.ran = TRUE,
                                 !.read = \/ takes \in {"bytes", "json"}
                                          \/ takes = "option" /\ r.body = "fits"]
<1>1. ReqSound(r) /\ r.pc = "body" /\ UNCHANGED bootVars
  BY DEF HttpInv, Extract
<1>2. /\ DOMAIN r = ReqFields /\ r.ran = FALSE /\ proc.pc = "up" /\ Inside(r)
  BY <1>1 DEF ReqSound
<1>3. \A status : ReqSound(Answered(r, status))
  BY <1>2, AnsweredSound DEF Inside
<1>4. CASE \E status : req' = [req EXCEPT ![i] = Answered(r, status)]
  BY <1>1, <1>3, <1>4, ReqMoves
<1>5. ASSUME NEW takes, ~(takes \in {"bytes", "json"} /\ r.body = "streamed_large"),
             ClientAuth(r), req' = [req EXCEPT ![i] = k(takes)]
      PROVE  HttpInv'
  <2> DEFINE h == k(takes)
  <2>1. /\ DOMAIN h = ReqFields /\ h.pc = "handler" /\ h.lines = r.lines /\ h.ran = TRUE
        /\ h.method = r.method /\ h.endpoint = r.endpoint /\ h.body = r.body
        /\ h.x_tim_admin_token = r.x_tim_admin_token /\ h.authorization = r.authorization
        /\ h.read => r.body = "fits" \/ takes \in {"bytes", "json"}
    BY <1>2 DEF ReqFields
  <2>2. req' = [req EXCEPT ![i] = h]
    BY <1>5
  <2> HIDE DEF h
  <2>3. Inside(h) /\ Guarded(h)
    BY <1>2, <1>5, <2>1 DEF Inside, Guarded, AdminAuth, ClientAuth, VerifyBasic, Oversize
  <2>4. ReqSound(h)
    BY <1>2, <2>1, <2>3 DEF ReqSound
  <2>5. QED
    BY <1>1, <2>2, <2>4, ReqMoves
<1>6. PICK takes \in Takes(r.endpoint) :
        req' = [req EXCEPT ![i] =
          IF takes \in {"bytes", "json"} /\ r.body = "streamed_large" THEN Answered(r, 413)
          ELSE IF takes = "json" /\ r.body = "malformed" THEN Answered(r, 400)
          ELSE IF ~ClientAuth(r) THEN Answered(r, 401)
          ELSE k(takes)]
  BY DEF Extract
<1>7. CASE \/ takes \in {"bytes", "json"} /\ r.body = "streamed_large"
           \/ takes = "json" /\ r.body = "malformed"
           \/ ~ClientAuth(r)
  <2>1. \/ req' = [req EXCEPT ![i] = Answered(r, 413)]
        \/ req' = [req EXCEPT ![i] = Answered(r, 400)]
        \/ req' = [req EXCEPT ![i] = Answered(r, 401)]
    BY <1>6, <1>7
  <2>2. QED
    BY <1>4, <2>1
<1>8. CASE ~(\/ takes \in {"bytes", "json"} /\ r.body = "streamed_large"
             \/ takes = "json" /\ r.body = "malformed"
             \/ ~ClientAuth(r))
  <2>1. /\ ~(takes \in {"bytes", "json"} /\ r.body = "streamed_large")
        /\ ClientAuth(r)
        /\ req' = [req EXCEPT ![i] = k(takes)]
    BY <1>6, <1>8
  <2> HIDE DEF k
  <2>2. QED
    BY <1>5, <2>1
<1>9. QED
  BY <1>7, <1>8

LEMMA AnswersInv == ASSUME HttpInv, NEW i \in Request, Finish(i) \/ Timeout(i) PROVE HttpInv'
<1>1. PICK status : req' = [req EXCEPT ![i] = Answered(req[i], status)]
  BY DEF Finish, Timeout
<1>2. UNCHANGED bootVars /\ req[i].pc \in {"body", "handler"} /\ ReqSound(req[i])
  BY DEF Finish, Timeout, HttpInv
<1>3. ReqSound(Answered(req[i], status))
  BY <1>2, AnsweredSound DEF ReqSound, Inside
<1>4. QED
  BY <1>1, <1>2, <1>3, ReqMoves

LEMMA GoneInv == ASSUME HttpInv, NEW i \in Request, HangUp(i) \/ Deliver(i) PROVE HttpInv'
  BY NoReqSound, ReqMoves DEF HangUp, Deliver

(* While requests are in flight the deployment may be edited, which the    *)
(* process does not see; no step of a boot is taken then.                  *)
LEMMA BootBeside ==
  ASSUME HttpInv, Edit \/ Age \/ Doctor \/ Launch \/ BootStep, UNCHANGED req
  PROVE  HttpInv'
<1>1. BootInv'
  BY BootNextInv DEF HttpInv, BootNext
<1>2. CASE UNCHANGED proc
  <2>1. ASSUME NEW i \in Request PROVE ReqSound(req[i])'
    <3>1. ReqSound(req[i])
      BY DEF HttpInv
    <3>2. QED
      BY <1>2, <3>1 DEF ReqSound, Inside, Guarded, Traced, AdminAuth, ClientAuth, VerifyBasic,
                        SecurityHeaders, Gate, Config, TraceId
  <2>2. QED
    BY <1>1, <2>1 DEF HttpInv
<1>3. CASE proc.pc # "up"
  <2>1. ASSUME NEW i \in Request PROVE ReqSound(req[i])'
    <3>1. ReqSound(req[i]) /\ req'[i] = req[i]
      BY DEF HttpInv
    <3>2. req[i].pc = "none" /\ req[i].ran = FALSE /\ DOMAIN req[i] = ReqFields
      BY <1>3, <3>1 DEF ReqSound
    <3>3. QED
      BY <3>1, <3>2 DEF ReqSound
  <2>2. QED
    BY <1>1, <2>1 DEF HttpInv
<1>4. UNCHANGED proc \/ proc.pc # "up"
  BY DEF Edit, Age, Doctor, Launch, BootStep, LoadConfig, Connect, Migrate, Assemble, Listen,
         AtRest
<1>5. QED
  BY <1>2, <1>3, <1>4

LEMMA HttpStopInv == ASSUME HttpInv, HttpStop PROVE HttpInv'
<1>1. BootInv'
  BY BootNextInv DEF HttpInv, HttpStop, BootNext
<1>2. req' = [i \in Request |-> NoReq]
  BY DEF HttpStop
<1>3. ASSUME NEW i \in Request PROVE ReqSound(req[i])'
  <2>1. req'[i] = NoReq
    BY <1>2
  <2>2. QED
    BY <2>1, NoReqFields DEF ReqSound
<1>4. QED
  BY <1>1, <1>2, <1>3 DEF HttpInv

LEMMA HttpInvariant == HttpSpec => []HttpInv
<1>1. HttpInit => HttpInv
  BY BootInitInv, NoReqSound DEF HttpInit, HttpInv
<1>2. ASSUME HttpInv, [HttpNext]_httpVars PROVE HttpInv'
  <2>1. CASE UNCHANGED httpVars
    <3>1. UNCHANGED bootVars /\ UNCHANGED req
      BY <2>1 DEF httpVars
    <3>2. BootInv'
      BY <1>2, <3>1, BootNextInv DEF HttpInv
    <3>3. ASSUME NEW i \in Request PROVE HttpInv'
      <4>1. PICK k : k = req[i]
        OBVIOUS
      <4>2. ReqSound(k) /\ req' = [req EXCEPT ![i] = k]
        BY <1>2, <3>1, <4>1 DEF HttpInv
      <4>3. QED
        BY <1>2, <3>1, <4>2, ReqMoves
    <3>4. CASE Request = {}
      BY <1>2, <3>1, <3>2, <3>4 DEF HttpInv
    <3>5. QED
      BY <3>3, <3>4
  <2>2. QED
    BY <1>2, <2>1, BootBeside, HttpStopInv, ReceiveInv, ExtractInv, AnswersInv, GoneInv
    DEF HttpNext
<1>3. QED
  BY <1>1, <1>2, PTL DEF HttpSpec

-----------------------------------------------------------------------------
(* `tim doctor` and `tim serve` agree on every deployment, but for the     *)
(* five refusals and the two leniencies that DoctorVouches names.          *)
THEOREM DoctorAndBootAgree == HttpSpec => []DoctorVouches
<1>1. HttpInv => DoctorVouches
  BY VouchedFor DEF HttpInv
<1>2. QED
  BY <1>1, HttpInvariant, PTL

(* What `tim doctor --strict` let through boots gated and without the      *)
(* warnings the doctor knows, but for a retirement the clock has brought   *)
(* nearer in between.                                                      *)
THEOREM StrictDoctorForesees == HttpSpec => []StrictForesees
<1>1. HttpInv => StrictForesees
  BY StrictlyForeseen DEF HttpInv
<1>2. QED
  BY <1>1, HttpInvariant, PTL

(* With auto_migrate no release serves on a schema older than its own.     *)
THEOREM MigratedBeforeServing == HttpSpec => []ServesMigrated
<1>1. HttpInv => ServesMigrated
  BY DEF HttpInv, BootInv, ProcSound, ServesMigrated
<1>2. QED
  BY <1>1, HttpInvariant, PTL

LEMMA RanGuarded == ASSUME HttpInv PROVE HandlersGuarded
<1> SUFFICES ASSUME NEW i \in Request, req[i].ran
             PROVE  LET r == req[i]
                        d == proc.dep
                    IN  /\ r.endpoint = "admin" /\ Config.require_admin_token =>
                             /\ Resolved(d.admin_token)
                             /\ \/ r.x_tim_admin_token = d.admin_token
                                \/ r.authorization = <<"Bearer", d.admin_token>>
                        /\ \/ r.endpoint = "introspect" /\ Config.required_client_auth
                           \/ r.endpoint = "validate" /\ Config.gate_validation_endpoints
                           \/ r.endpoint = "compat" /\ Config.gate_jvm_compat_endpoints
                           => \E k \in Config.clients :
                                /\ Resolved(d.client_secret[k])
                                /\ r.authorization = <<"Basic", k, d.client_secret[k]>>
                        /\ r.read => r.body \notin {"declared_large", "streamed_large"}
  BY DEF HandlersGuarded
<1> DEFINE r == req[i]
           d == proc.dep
<1>1. ReqSound(r) /\ Guarded(r) /\ proc.pc = "up"
  BY DEF HttpInv, ReqSound
<1>2. /\ LastPassed(d) /\ Config.admin_token = d.admin_token
      /\ Config.client_secret = d.client_secret
  BY <1>1, UpMeans, LoadKeeps DEF HttpInv, Config
<1>3. ASSUME r.endpoint = "admin", Config.require_admin_token
      PROVE  /\ Resolved(d.admin_token)
             /\ \/ r.x_tim_admin_token = d.admin_token
                \/ r.authorization = <<"Bearer", d.admin_token>>
  <2>1. AdminToken(Config) # "none"
    BY <1>2, <1>3 DEF LastPassed, AdminGateBuilt, Config
  <2>2. AdminToken(Config) = d.admin_token /\ Resolved(d.admin_token)
    BY <1>2, <2>1 DEF AdminToken
  <2>3. Gate.admin = AdminToken(Config)
    BY DEF Gate, Gates
  <2>4. AdminAuth(r)
    BY <1>1, <1>3 DEF Guarded
  <2>5. QED
    BY <2>1, <2>2, <2>3, <2>4 DEF AdminAuth
<1>4. ASSUME \/ r.endpoint = "introspect" /\ Config.required_client_auth
             \/ r.endpoint = "validate" /\ Config.gate_validation_endpoints
             \/ r.endpoint = "compat" /\ Config.gate_jvm_compat_endpoints
      PROVE  \E k \in Config.clients :
               /\ Resolved(d.client_secret[k])
               /\ r.authorization = <<"Basic", k, d.client_secret[k]>>
  <2>1. r.endpoint \in Gate.axes
    BY <1>4 DEF Gate, Gates, Flag
  <2>2. PICK c \in Gate.clients : r.authorization = <<"Basic", c[1], c[2]>>
    BY <1>1, <2>1 DEF Guarded, ClientAuth, VerifyBasic
  <2>3. PICK k \in Config.clients :
          Resolved(Config.client_secret[k]) /\ c = <<k, Config.client_secret[k]>>
    BY <2>2 DEF Gate, Gates
  <2>4. QED
    BY <1>2, <2>2, <2>3
<1>5. QED
  BY <1>1, <1>3, <1>4 DEF Guarded, Oversize

(* No handler behind a gate runs without a secret of the deployment.       *)
THEOREM GatesHold == HttpSpec => []HandlersGuarded
  BY RanGuarded, HttpInvariant, PTL

(* Every answer but the CORS layer's is logged once, traced and carries    *)
(* those of the security headers whose configured text is a header value.  *)
THEOREM AnswersLoggedOnce == HttpSpec => []AnswersTraced
<1>1. ASSUME HttpInv PROVE AnswersTraced
  <2>1. ASSUME NEW i \in Request, req[i].pc = "done" PROVE Traced(req[i]) /\ proc.pc = "up"
    BY <1>1, <2>1 DEF HttpInv, ReqSound
  <2>2. ASSUME proc.pc = "up"
        PROVE  /\ "content-security-policy" \in SecurityHeaders <=>
                    Config.content_security_policy = "set"
               /\ "x-frame-options" \in SecurityHeaders <=> Config.x_frame_options = "set"
               /\ "strict-transport-security" \in SecurityHeaders <=>
                    Config.strict_transport_security \in {"plain", "preload"}
    <3>1. /\ Config.content_security_policy \in HeaderText
          /\ Config.x_frame_options \in HeaderText
          /\ Config.strict_transport_security \in {"off", "plain", "preload", "garbled"}
      BY <1>1, <2>2, UpMeans, LoadKeeps DEF HttpInv, Config
    <3>2. QED
      BY <3>1 DEF SecurityHeaders, HeaderIfSet, Flag, HeaderText
  <2>3. QED
    BY <2>1, <2>2 DEF AnswersTraced, Traced, TraceId
<1>2. QED
  BY <1>1, HttpInvariant, PTL
=============================================================================
