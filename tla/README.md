# Verification of TIM

TIM is a token and identity service: it issues, validates, revokes and extends
its own RS256 JWTs (with an audit table and a denylist in Postgres), and logs
users in through OpenID Connect providers, keeping sessions in Postgres or in
memory. This directory models its concurrent core and the way it starts and
serves in TLA+, checks the models with TLC on small instances and proves their
safety properties with TLAPS for every value of the constants.

Paths below are relative to the repository.

## 1. Inventory

| Part | State | Operations | Hard behaviour | What makes it correct |
|---|---|---|---|---|
| Custom-JWT service (`src/jwt/service.rs`) | tables `custom_jwt.jwt_metadata`, `custom_jwt.denylist` | generate, validate, revoke, revoke by jti, extend | several statements per request, one transaction, requests dropped at any await, any number of replicas | extend is atomic, audit columns tell the history, a revoked token stays dead, revocations are credited once |
| Bulk revocation (`bulk_revoke`) | the same tables | up to `bulk_revoke_max` revokes in one request | item failures, drops midway | true per-token results and status |
| Listing, userinfo (`list_for_subject`, `authenticate_bearer`) | reads the same tables | list/me with paging, userinfo | reads without a common snapshot, pages that shift | no dead caller, true statuses, a walk through the pages misses nothing |
| Introspection (`src/introspect`, `src/security/introspect_auth.rs`) | reads the denylist | introspect | as validate | no dead token is active |
| Signer (`src/crypto/mod.rs`) | current key, previous key with `retires_at` | sign, verify, JWKS | rolling restarts, retirement instant, caching verifiers | a kid never leads a token to the wrong key; in-flight tokens verify; verifiers catch up |
| OAuth2 flow (`src/oauth2/flow.rs`, `idtoken.rs`) | table `auth.oauth_state` | login, callback | five awaits on four systems, repeated and mixed-up callbacks | one session per login, bound to its nonce |
| Session stores (`src/oauth2/session`) | table `auth.session` or a `DashMap` | create, get, touch, revoke, sweep | get-then-touch, two-phase removals, restart | an ended session is never served again |
| Sweeper (`src/oauth2/state_sweeper.rs`) | none | delete stale states, expired sessions | races with callbacks and readers, statements that fail | spares what can be used, collects the rest although a round may fail |
| Discovery cache (`discovery.rs`) | one TTL entry per URL | fetch with retries | concurrent misses, late answers, providers that share a URL and differ in `allow_http_discovery` | bounded staleness; a document is validated for its reader, or for one with the opt-in |
| JWKS cache (`jwks.rs`, `registry.rs`), ID-token checks (`idtoken.rs`) | one TTL entry per URI | fetch, single flight, select key, check claims | shared loads, dropped leaders, keys rotated meanwhile | what is accepted is signed with a recent key and in order; waiters are served |
| Configuration (`src/config`) | `tim.yaml`, the environment, key files | load, validate, diagnose, defaults | dozens of fields checked in several places | – |
| Doctor (`src/doctor.rs`) | none | the FAIL and WARN lines, `--strict` | judges with checks of its own what boot will judge again | what it passes boots, what it does not warn of is not warned of |
| Start-up (`src/main.rs`, `src/db`) | the process, the schema in Postgres | the checks in their order, migrations, the listener | kills and refusals between steps, two releases on one database | no release serves on an older schema |
| HTTP layers (`src/router/mod.rs`, `src/access_log.rs`, `src/security/headers.rs`) | requests in flight | body limits, timeout, CORS, access log, headers | the order of layers, slow clients, hang-ups | every request ends; every answer is logged and has the configured headers that are valid |
| Gates (`src/security`) | secrets resolved at boot | admin token, Basic auth on three axes, session id | secrets rotated since boot, axes that differ | no handler runs unguarded |
| Session encryption (`src/oauth2/session/crypto.rs`) | a key | seal, open | none | – |
| Healthcheck (`src/main.rs`) | none | one GET | none | – |

Interactions: handlers call the service, the stores and the flow; all replicas
share Postgres (and its row locks); a login calls the discovery cache, the
provider's token endpoint and the JWKS cache, then the session store; the
sweeper runs beside them. In front of all handlers stand the gates and layers, which
are assembled at boot from the configuration. `PROJECT.json` lists the hazards line by line.

## 2. Modules

| Module | Models | Uses |
|---|---|---|
| `TokenLedger` | abstract: an audit set and a retired set that only grow; a successor and its parent's retirement are one step | – |
| `JwtService` | the JWT requests over the two tables | implements `TokenLedger` |
| `JwtServiceProofs` | theorems about `JwtService` | `JwtService` |
| `JwtBulk` | bulk revocation beside `JwtService` | `JwtService` |
| `JwtListing` | list/me, a client that walks its pages, and userinfo, beside `JwtService` | `JwtService` |
| `SessionLedger` | abstract: sessions appear once and never come back | – |
| `Sessions` | what both stores share, the session handlers, the properties | implements `SessionLedger` |
| `PgSessions` | the handlers and the sweep over the Postgres store: actions only, composed by `OAuthLogin` | `Sessions` |
| `MemorySessions` | the handlers and the sweeper over the in-memory store | `Sessions` |
| `OAuthLogin` | login and callback over `oauth_state`, with Postgres sessions and both sweeps | `PgSessions` |
| `KeyRotation` | keys, replicas, retirement, downstream services that cache the JWK set or the PEM | – |
| `DiscoveryCache` | the cache of discovery documents | – |
| `JwksCache` | the cache of the providers' keys: actions only, composed by `IdToken` | – |
| `IdToken` | the verification of ID tokens with cached keys | `JwksCache` |
| `Boot` | deployments, the doctor, start-up up to the listener | – |
| `HttpServer` | layers, gates and timeout of the server that `Boot` started | `Boot` |
| `JwtEndpointProofs` | theorems about `JwtBulk` and `JwtListing` | both, `JwtServiceProofs` |
| `SessionProofs` | theorems about `OAuthLogin` and `MemorySessions` | both |
| `KeyRotationProofs`, `DiscoveryCacheProofs` | theorems about the module named | that module |
| `IdTokenProofs` | theorems about `IdToken` and, with it, `JwksCache` | `IdToken` |
| `HttpServerProofs` | theorems about `HttpServer` and, with it, `Boot` | `HttpServer` |
| `MC*` | symmetry sets, constant functions and deployments for TLC | the module named |

**State and steps.** A request is a record in a slot; its `pc` names the await
it is at, and everything between two awaits is one action. `Abandon`-like
actions drop the record at any await: the request timeout, a disconnect, a
failing statement and a crash of the replica look the same to everybody else.
Work done after the drop (a statement already sent) is the behaviour in which
the statement runs first and the drop comes after.

**Postgres.** Each statement is atomic. An extend that has run its denylist
INSERT and not committed owns that key (`OwnsKey`); other INSERTs of the key wait
(`KeyFree`), which is Postgres's behaviour for `ON CONFLICT DO NOTHING`. Reads
see committed rows only. Application and database share one clock, in seconds.

**Abstractions.** A token is its jti, and the row of a token is identified with
it (`supersedes` stores row ids in the code). A signature, audience or issuer
check is an outcome. Keys, documents and key sets are version numbers. A
provider's failure of any kind is one nondeterministic failure per call, which
`TIM_OFFLINE` and a row that does not decrypt also are. `Preissued` tokens are
those signed with the same key whose row this database lacks (a restored or
migrated database): `extend` handles them by starting a chain. State, nonce and
PKCE verifier of a login are drawn together and identified with the login.
`POST /jwt/blacklist` revokes by jti, by session id or by cookie: the first is
`RevokeByJti`, the second `RevokeSession`, the third `Revoke`. In `MemorySessions`
the sweeper's iterator visits entries one at a time, because `DashMap` locks one
shard at a time; operations do not suspend, so only a restart ends them early.

**Sweeper.** A round is one tick, the DELETE of expired sessions, then the DELETE of
stale states; either may fail, which is logged and does not stop the round
(`SweepSessionsFails`, `SweepStatesFails`). The first tick, which fires at once, is
skipped by the code; with an interval of 0 the task is not started, and nothing
is collected. The sweeper of the in-memory store is modelled with its iterator
only, as its operations cannot fail.

**Session lifetimes.** `session_ttl_seconds` of 0 passes `Validate`, and
`.min(ttl).max(1)` then gives sessions of one second: `MaxLifetime` is the greater
of the two.

**Keys.** A signing key is a number and has a name (`Kid`) that the operator chooses,
for the current key and for the previous one separately: a rotation may leave the
previous key its name, give its name to the new key, or bring back a name used
before; two keys of one name do not load (`WithPrevious`). A
token carries the name its key had when it was signed; a header without kid takes
the path of an unknown one in `verify_raw`.

**Deployments.** A deployment is one record with an entry per configuration
field, environment variable and key file that some check, gate, layer or warning
looks at, over the values that are told apart (`Fields`): a bind is an address, a
loopback one or not, or something `serve` cannot parse, which host names and bare
IPv6 addresses are, loopback or not; the text of a header is absent, a header
value or no header value. What changes by itself is not in the deployment: `left`
is how many days the previous key has, by the clock, and `Age` lets them pass; the
doctor and the boot each read it. The environment of a process is fixed when it is
launched and files are read at once, so a process works on a copy, and a
deployment may be edited while a process is up. The checks of `serve` are two sequences, before and after the
migrations, because their order decides what a refused boot has already done.
`FirstChecks` repeats `Validate`, as `main.rs` does, because `load` does not apply
it to the defaults. In `HttpServer` a handler is an effect and an outcome; what
the handlers do is in the other modules. `Takes` says which of them extract a body:
list/me and logout take an `Option<Json>`, which turns a body that is malformed or
too large into none instead of a refusal.

**Paging.** `issued_at` has a resolution of seconds in the model and is a variable
of its own (`iat`), because it is drawn before the INSERT: a slow insert places a
row behind newer ones. The walk of a client (`there`, `seen`) asks for page after
page until `totalPages`.

**Downstream.** A service that verifies TIM's tokens is not part of the
repository; it is modelled as `config.md` and `crypto/mod.rs` speak of it: it keeps
what it fetched, from any replica, for at most `CacheAge`.

**History variables** (`parent`, `credited`, `at0`, `dead0`, `ended`,
`loggedOut`, `origin`, `replaced`, `former`, `relaxed`, `there`, `seen`) are never read
by a guard. `credited` counts when an answer reaches its caller: a revocation whose
answer is lost credits nobody.

Definitions commented *Mutant* are plausible bugs, not used by any
specification: each shows that a property notices.

## 3. Runs

| Run | Shows | Bounds and why they are enough |
|---|---|---|
| `jwt_service` | types, `SupersedeAtomic`, `ChainRooted`, `IssuedIsAudited`, `CreditedOnce`, `AnswersSound`, `ImplementsLedger` | 3 tokens, 2 concurrent requests, clock 0..1, lifetimes 0 and 1: a pre-issued token, its successor and the successor's successor; races are pairwise. The theorems lift all bounds |
| `jwt_bulk` | `BulkResultsTrue`, `RequestsEnd` | batches of up to 3 (one over the limit) of 2 tokens and garbage, with repetitions, beside one request that may extend: the batch meets owned keys, failures, its own earlier items and tokens retired by others. With one request, one extend waiting for another is not in this run |
| `jwt_listing` | `BearerLive`, `ListedStatusTrue`, `WalkSeesAll` | 3 tokens, 1 subject, 1 listing, 1 writer, leeway 1, page sizes 1 and 2 (asked for as 0 and 3). The constraint `Focus` keeps two kinds of use: walks by pages of one while tokens are generated and extended, so that a row is inserted while one that was there at the start is still unseen; and single requests with up to two tokens, which are revoked too. A row that lands between two others needs a second writer, and a token of another subject a second subject: the theorem only |
| `pg_sessions` (module `OAuthLogin`) | `EndedNotServed`, `LifetimeAbsolute`, `LiveOnlyLoggedOut`, `LogoutOnce`, `ImplementsSessionLedger`, `ExpiredSwept`, `OrphanStatesSwept` | one login, so one session, and two handlers that race on it with the sweeper, either statement of which may fail; TTL 2, clock to 3, `expires_in` zero, absent or above the TTL |
| `memory_sessions` | `EndedNotServed`, `LiveOnlyLoggedOutOrLost`, `ImplementsSessionLedger`, `ExpiredCollected` | 2 sessions, 2 handlers, sweeper, restarts; TTL 1, clock to 1: expiry falls inside every operation |
| `oauth_login` | `StateSingleUse`, `SessionBoundToLogin`, `SweepSparesConsumable` | 2 logins, 2 providers, 2 concurrent flows, 1 session handler: replays, mixed-up tabs and wrong providers are pairwise |
| `key_rotation` | `KidRoutingHarmless`, `InFlightTokensVerify`, `DownstreamCatchesUp` | 2 replicas, 3 keys (2 rotations), 2 names, which are kept, swapped and brought back (a third name only in the theorem), one service caching the JWK set and one the PEM; lifetime 2, roll-out 1, cache age 1, grace 4, clock to 6, so that a retirement and the cache age after it pass |
| `discovery_cache` | `UsedDocRecent`, `OnlyValidatedServed`, `FetchComesBack` | 2 callers, one of which opted in to plain http; 3 versions, one usable by both, one with plain-http endpoints, one by nobody; TTL 2, timeout 1, the code's 3 retries: a slow answer overwrites a newer document and is then hit |
| `id_tokens` | `AcceptedTokenSound`, `JoinersServed` | 2 providers with TTLs 1 and 2, one of which rotates twice: from an RSA key that declares no algorithm to an RS256 key and to an ES256 key; 2 verifications: one leads, one joins; headers with any of three algorithms, with or without a kid; tokens that are in order or wrong in one respect, at the boundary of the skew |
| `http_server` | `DoctorVouches`, `StrictForesees`, `ServesMigrated`, `HandlersGuarded`, `AnswersTraced`, `RequestAnswered` | four deployments (production, open introspection, development, the next release) and every edit of one field of them, a rollback to the earlier release included, also while a process is up; 2 clients with different secrets, 1 request at a time, as requests share nothing here. The constraint `Focus` serves requests only after boots without a doctor and before days pass, on neither of which a request depends |

`InFlightTokensVerify` is a sizing rule: `retires_at` must lie further from the
start of the rotation than the roll-out takes plus the longest token lifetime.

`DownstreamCatchesUp` adds the downstream caches to it: the new key signs before any
JWK set that names it could have been fetched, so until one cache age after the
roll-out a service must refetch on an unknown kid. `DoctorVouches` is the
agreement between doctor and boot, exceptions included. `StrictForesees` exempts
from it what the clock may do between the two: a retirement that has come nearer.
`KidRoutingHarmless` says that the kid only saves a signature check: with both keys
tried in turn the same tokens would be accepted. Its danger is a token of the
current key that its kid leads to the previous one. `OnlyValidatedServed` names the
one way to a document that does not validate for its reader: an entry that a
provider with the opt-in put under the same URL, within the TTL.

Two runs expect a violation and show where the code and what is written about
it differ:

* `jwt_extend_only_live`: a revoke or another extend that commits between
  extend's check and its transaction does not stop the extend, which
  `failure-modes.md` says answers 422. A revoked token gets a live successor, or
  a chain forks. `AnswersSound` is what does hold: a token that was dead when the
  request *arrived* is never extended.
* `doctor_answers_boot`: a deployment that `tim doctor` passes is refused at boot for
  one of five reasons it does not look at: an `http://` discovery URL without the
  opt-in, a session key of 64 bytes that are not hex, unresolved client secrets
  when only the other two gates are on, a host name or a bare IPv6 address such as
  `localhost` or `::` as bind, a list of CORS origins.

Seen while modelling and visible in the modules, without a run of their own:

* list/me and userinfo accept an expired token within the JWT library's default
  leeway (`failure-modes.md` says 401); `BearerLive` bounds it;
* list/me brings any limit into 1..200 and any offset to at least 0, where
  `failure-modes.md` speaks of a 400;
* one JWKS TTL, the longest and at least 60 s, serves all providers, though
  `oauth2.md` and `jwks.rs` speak of a provider's own; it is the bound of
  `AcceptedTokenSound`;
* on the kid path the algorithm that a JWK declares is not compared with the
  header's, only its key family is: an RS512 token passes with an RS256 key;
* `allow_http_discovery` is a provider's own (`discovery.rs` 34-37), the cache is keyed
  by URL alone (128-130), so a provider without it may be given a document that
  only another's opt-in let pass;
* `session_ttl_seconds` of 0 is accepted and gives sessions of one second;
* the discovery loop makes `MaxRetries + 1` = 4 attempts (`oauth2.md` says three);
* `MemoryStore::touch` updates an entry that has expired (`store.rs` says no-op);
* the doctor fails two things that boot accepts: an empty provider credential
  and a session key with blanks around it;
* answers of the CORS layer to a preflight carry no security headers and no
  access-log line, as the layer is outermost, and a configured text that is no
  header value is dropped without a word (`headers.rs` 27), where `failure-modes.md`
  and the head of `headers.rs` speak of every response;
* with an axis on and no clients, the Basic gate is built and lets nobody in;
  the comment in `introspect_auth.rs` calls that fail-closed, `Validate` refuses it
  for `required_client_auth` only;
* pages are ordered by `issued_at` without a tie-break, so rows of one second may
  change places between two pages: `WalkSeesAll` is stated for rows whose order
  is determined.

**Fairness.** `BulkFairSpec` gives each request weak fairness of its own progress:
tokio polls woken tasks, Postgres answers statements whose key is free; failures
and drops are not counted on. Its run mints a bounded number of tokens, so extends
cannot take and release a key for ever; Postgres queues the waiters of a key,
which has the same effect. `OAuthFairSpec` says that the sweeper's loop goes
round: `tokio::time::interval` fires for ever and every statement returns, with a
result or an error. That a statement succeeds is nowhere assumed but in the
hypotheses of `ExpiredSwept` and `OrphanStatesSwept`, one each: a DELETE that is tried
again and again does not fail for ever. `MemoryFairSpec` makes the in-memory sweeper
fair; all of these are about a configuration whose sweep interval is not 0. The
clock is never fair: where it stops, what has expired must still go. `DiscoveryFairSpec` and
`IdTokenSpec` rest on the HTTP client's 10-second timeout. `HttpSpec` lets a launched
process go on and the timer of `TimeoutLayer` fire; neither handlers nor clients
need get anywhere. Arrivals, drops and
provider behaviour are never fair; `JoinersServed` is stated for behaviours in
which requests are not dropped for ever.

Deadlock checking is on in every run.

## 4. Proofs

Every invariant, every action property and both refinements that a passing run
checks are also theorems, for every value of the constants: any number of tokens, requests,
batches, sessions, logins, replicas, keys, providers, callers and deployments,
any clock bound. `PROJECT.json` lists the theorems. Each proof module has an
inductive invariant, one lemma per action that it is preserved, and the theorems
at its end.

**Assumptions** are those the modules declare, and TLC evaluates them in the runs.
Most only say that a number is a natural and that a marker is not one of the
things it stands in for (`NoJti`, `NoRow`, `NoSub`, `NoLogin`, `Garbage`). The others:
pre-issued tokens are tokens; there is a replica, a session id and a provider;
finitely many providers are configured (the TTL of the JWKS cache is a maximum over
them); the greatest page size and the floor of the JWKS TTL are not zero, as
in the code; a downstream service caches either the JWK set or the PEM;
`StateMaxAge` fits an i32; the deployments of `Boot` are over its fields. The
sizing rules of a rotation (grace against roll-out, lifetime and cache age) are
hypotheses of the properties, not assumptions.

**`JwtServiceProofs`.** None of the properties is inductive alone. `IInv` has four
parts:

* `TypeOK`;
* `Tables`: rows have distinct drawn tokens, pre-issued tokens have no row, a
  token not drawn has no parent (`RowsSound`); the chain columns agree with the
  history (`ChainSound`, `ChainRooted` without its CHOOSE); and two table
  invariants themselves, `SupersedeAtomic` and `IssuedIsAudited`;
* `Distinct`: no two requests are about to record the same token;
* `Local`: what each request knows: the token it is about to record is drawn, not
  recorded and has the right parent (`PendingSound`), the token it works on was
  issued (`TokSound`), the columns it read before its transaction are still the
  right ones (the reason `ChainRooted` survives the gap between SELECT and COMMIT:
  rows never change and a row never appears for a pre-issued token), and an
  answer that matters was given on a token live on arrival.

`CreditedOnce` counts answers that have been received, so what it needs is a fact
about answers on their way (`CreditInv`): a request about to say "revoked" is the only
one to say so of its token, nobody has been told before, and the denylist row is the
one a revocation wrote. `CreditStep` proves it relative to `IInv`, from the three
things a step does to such claims: nothing, making one by the INSERT that found
no row, delivering one. The refinement maps each
table write to one ledger step: generate's INSERT to `Issue`, a revocation to
`Retire` or nothing, COMMIT to `Supersede`; it needs `Distinct` and `PendingSound`
for the freshness of a successor.

**`JwtEndpointProofs`, bulk.** `BulkInv` adds to `IInv` the same `CreditInv`, now
with the claims of batches (`ClaimsOf`) beside those of requests, and of each batch (`BatchSound`) that its
tokens were issued, the results so far are true and no more than the tokens, and
the status is that of the tallies. `StatusOfResults` shows that the arithmetic of
`jwt_revoke_bulk` on the tallies is the table of `failure-modes.md` on the list.
`ServiceSoundBesideBulk` and `BulkRefinesLedger` carry the service's own promises over
to a service with batches. Listings and userinfo only read, so there all of them
hold as they are (`ReadersHarmless`).

**`JwtEndpointProofs`, listing.** `ListInv` adds to `IInv` that the audit table is finite
and what each call knows: its bearer was live when it asked, within the leeway
(`BearerSound`), the statuses it has collected are true (`EntriesSound`), and of a
walk (`WalkSound`): every row that was there when the walk began and has not been
shown either shares its second with another row, or has at least as many rows
ahead of it as the walk has passed (`Behind`). Rows are only inserted, so the
number ahead only grows (`BehindGrows`); a page takes the next ones
(`PageTakesTheNext`); and after the last page no row has that many ahead
(`LastPage`, on cardinalities). This is why inserts shift rows towards later pages
and never past the walk.

**`SessionProofs`.** What both stores need is proved once: `StoreInv` (stored and ended
ids partition the issued ones, rows have their lifetime, logouts are
acknowledged once) and `CallsInv` (a handler that arrived at a dead session, or
decided to remove one, is looking at one that is dead for good). `StoreStep` is what any
store may do to the sessions; it implies a ledger step. `OAuthInv` adds `LoginInv`:
a login's state is in at most one place, a row, one flow that owns it
(`OneOwner`) or one session, and the flow carries the nonce it consumed; so
`StateSingleUse` and `SessionBoundToLogin` follow. `MemoryInv` adds `SweepSound`: what
the sweeper found dead under one lock is dead when it removes it under the next,
as ids are never drawn again and expiries never move. `LogoutOnce` and
`LifetimeAbsolute`, which only the Postgres run checks, are proved for both stores. The proof is about
`OAuthSpec` and `MemorySpec`; the fair specifications of the runs imply them.

**`KeyRotationProofs`.** `RotationInv`: a token of the current key or of the one before
carries the name which that key signs under (`TokensHonest`) and the two names of a
configuration that loads differ, so no token of the current key names the previous
one, and `KidRoutingHarmless` follows for whatever names the operator chose; the previous key is the one before the current
one and retires a grace period after the rotation began; a replica either runs the
configuration being rolled out or signs with its previous key, and that only until
the end of the roll-out; an unexpired token of the previous key was signed by then
(if the grace period is sized for it); a cached key set is younger than the
cache age and, if fetched after the roll-out, has the current key, if fetched
before the retirement, the previous one.

**`DiscoveryCacheProofs`.** `DiscoveryInv`: a document on its way was current when its
attempt was sent, at most a timeout ago; so a cached one was inserted at most a
timeout after it was replaced, whatever it overwrote; so an answer given within
the TTL is at most both old. Of an answer and of the entry it also keeps that the
document validates for its reader or was loaded by a provider with the opt-in
(`Validated`).

**`IdTokenProofs`.** `IdTokenInv` is the same argument with shared loads, several providers
and the greatest of their TTLs, and the fact that a provider's sets are replaced in
order: a key is withdrawn when the set after the one that introduced it is
replaced, and the set handed over is that one or an earlier one. A key
selected without a kid matches the algorithm of the header (`SelectedFromSet`), one
selected by kid only its family. `TtlIsGreatest`
needs a maximum of a finite set, which `GreatestValue` gets from the
well-foundedness of the naturals (`LeastNumber`) on the sizes of counterexamples.

**`HttpServerProofs`.** `BootInv`: the process has passed every check before the point it
has reached, or failed the one it names, with the deployment and the doctor's
report it was launched with, each of them with its own reading of the clock, and
whatever was edited since, and past the migrations its release is no newer than
the schema. The sequences of checks are turned into conjunctions first (`FirstPassed`,
`LastPassed`, and `FirstFails`, `LastFails` for a refusal), which are then compared with
the doctor's (`VouchedFor`, `StrictlyForeseen`); TLC sees the deployments one edit away
from four, the theorem all of them. `HttpInv` adds what each request has passed
(`ReqSound`): a handler that ran was let in by its gate, and an answer has its one line,
trace and the headers whose configured text is valid.

TLC checked the inductive invariants of the listing and of the ID tokens on
instances like the runs' before they were proved.

**Only model-checked**: `RequestsEnd`, `ExpiredCollected`, `ExpiredSwept`, `OrphanStatesSwept`,
`FetchComesBack`, `JoinersServed` and `RequestAnswered`. They are liveness under
fairness, which needs ENABLED and is outside this prover's reach. The two runs that
expect a violation show counterexamples, for which an instance is enough.

Some definitions have the form they have so that they can be reasoned about and not
only evaluated: `Over` overrides the fields of a deployment (TLC's `@@` is opaque to
the prover), `Flag` collects the names of what is raised, `Tally` counts results
with `Cardinality`.

## 5. Not modelled

* The healthcheck command: one GET without state. It probes 127.0.0.1 whatever
  the bind address is.
* Sealing and opening of session columns: cryptography without control flow; a
  row that does not decrypt is a failing statement. The check of the key at boot
  is in `Boot`.
* The browser's cookie jar: the compatibility endpoints call the modelled service
  functions and then set or clear a cookie.
* The filters of list/me, which narrow both queries alike, and the mapping of
  claims to a profile.
* Wording, the format of log lines, bodies of errors, metrics.
* Capacities: the caches' number of entries (fixed and far above the number of
  providers) and the queue of the connection pool (a request that waits too long
  fails, as any statement may).
* Numbers beyond any sensible value: dates of huge lifetimes and page numbers
  beyond 64 bits (a panic or an error of one request), and `state_max_age_seconds`
  of 2^31 or more, which the cast to i32 makes negative; `StateMaxAgeAssumption`
  excludes it.
* Clock skew between replicas and the database, and sub-second truncation.
* The denylist's growth: nothing deletes its rows.

## 6. Plan

What can be modelled faithfully is, and every safety property that a run checks is
proved. What remains:

1. Progress when one extend waits for another's key beside a batch: two requests
   in `jwt_bulk`, which needs a smaller batch to stay checkable.
2. The retirement of a key as an action property: a replica never accepts again
   what it has stopped accepting.
3. What a deployment that is refused leaves behind (the schema, nothing else), as an
   action property of `Boot`.
