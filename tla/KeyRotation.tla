----------------------------- MODULE KeyRotation -----------------------------
(***************************************************************************)
(* Rotation of the JWT signing key with a grace period, over replicas that *)
(* are restarted one after the other (crypto/mod.rs, main.rs).  Each       *)
(* replica reads its keys once, at start: it signs with the current key    *)
(* and accepts and advertises the previous one until its retirement.  The  *)
(* operator follows the rotation flow of the configuration reference, but  *)
(* for the names: a kid is a configured string, and nothing checks that    *)
(* the previous key keeps the kid it was advertised under, nor that a new  *)
(* key gets a name never used before.                                      *)
(* Downstream services verify tokens with a JWK set, or with the PEM of    *)
(* the legacy endpoint, that they fetched from some replica a while ago.   *)
(***************************************************************************)
EXTENDS Naturals, FiniteSets

CONSTANTS
  Replica,   \* running instances of TIM
  Verifier,  \* downstream services that cache the JWK set
  Legacy,    \* downstream services that cache /jwt/verification-key
  Kid,       \* names an operator may give to a key
  MaxKey,    \* keys are numbered in the order they are generated
  Lifetime,  \* lifetime of the tokens
  Grace,     \* retires_at minus the start of the rotation
  Rollout,   \* how long restarting every replica may take
  CacheAge,  \* how long a downstream service uses what it fetched
  MaxTime    \* bound of the clock

ASSUME ReplicaAssumption == Replica # {}
ASSUME DownstreamAssumption == Verifier \cap Legacy = {}
ASSUME RotationAssumption == {MaxKey, Lifetime, Grace, Rollout, CacheAge} \subseteq Nat

VARIABLES
  now,      \* Utc::now(), the same on every replica
  conf,     \* the keys each replica loaded when it started
  target,   \* the configuration being rolled out
  former,   \* the configuration it replaces
  since,    \* when its roll-out began
  tokens,   \* every token signed
  cached    \* the keys each downstream service fetched last, and when

rotationVars == <<now, conf, target, former, since, tokens, cached>>

(* No previous_key block is configured.                                    *)
NoKey == [kid |-> "none", key |-> 0]

(* The previous key, until retires_at <= now.                              *)
ActivePrevious(n) == conf[n].previous # NoKey /\ ~(conf[n].retires <= now)

(* Mutant: the token is tried only with the key its kid names.             *)
VerifyRawNamedOnly(n, t) ==
  IF ActivePrevious(n) /\ t.kid = conf[n].previous.kid
    THEN t.key = conf[n].previous.key
    ELSE t.key = conf[n].current.key

(* A kid that names the active previous key selects it; any other token is *)
(* tried with the current key and, should the signature not match, with    *)
(* the active previous one.  A header without kid takes the same path as   *)
(* one whose kid names nothing.                                            *)
VerifyRaw(n, t) ==
  IF ActivePrevious(n) /\ t.kid = conf[n].previous.kid
    THEN t.key = conf[n].previous.key
    ELSE \/ t.key = conf[n].current.key
         \/ ActivePrevious(n) /\ t.key = conf[n].previous.key

(* Mutant: the previous key is advertised for as long as it is loaded.     *)
JwksLoaded(n) == {conf[n].current} \cup ({conf[n].previous} \ {NoKey})

(* GET /jwt/keys/public.                                                   *)
Jwks(n) ==
  {conf[n].current} \cup (IF ActivePrevious(n) THEN {conf[n].previous} ELSE {})

(* GET /jwt/verification-key: a single key by design.                      *)
PublicPem(n) == conf[n].current

(* Nothing fetched yet, or nothing recent enough.                          *)
NoKeys == [keys |-> {}, at |-> 0]

RotationInit ==
  /\ now = 0
  /\ \E k \in Kid :
       target = [current |-> [kid |-> k, key |-> 1], previous |-> NoKey, retires |-> 0]
  /\ former = target
  /\ conf = [n \in Replica |-> target]
  /\ since = 0
  /\ tokens = {}
  /\ cached = [v \in Verifier \cup Legacy |-> NoKeys]

(* sign: the header names the current key.                                 *)
Sign(n) ==
  /\ tokens' = tokens \cup
       {[kid |-> conf[n].current.kid, key |-> conf[n].current.key, exp |-> now + Lifetime]}
  /\ UNCHANGED <<now, conf, target, former, since, cached>>

(* Mutant: the names are not compared.                                     *)
WithPreviousAnyName(c) == c.previous = NoKey \/ c.previous.kid \in Kid

(* with_previous, and validate before it, refuse a previous kid equal to   *)
(* the current one.                                                        *)
WithPrevious(c) == c.previous = NoKey \/ c.previous.kid # c.current.kid

(* The operator generates a key and makes the current one the previous,    *)
(* once the last rotation is rolled out and its previous key has retired.  *)
(* Both names are typed in anew; the file is corrected until it loads.     *)
Rotate ==
  /\ \A n \in Replica : conf[n] = target /\ ~ActivePrevious(n)
  /\ target.current.key < MaxKey
  /\ \E new, old \in Kid :
       target' = [current  |-> [kid |-> new, key |-> target.current.key + 1],
                  previous |-> [kid |-> old, key |-> target.current.key],
                  retires  |-> now + Grace]
  /\ WithPrevious(target')
  /\ former' = target
  /\ since' = now
  /\ UNCHANGED <<now, conf, tokens, cached>>

(* A replica restarts: load_from_pem, then load_previous_from_pem.         *)
Deploy(n) ==
  /\ conf[n] # target
  /\ WithPrevious(target)
  /\ conf' = [conf EXCEPT ![n] = target]
  /\ UNCHANGED <<now, target, former, since, tokens, cached>>

(* Roll-outs take at most Rollout, and what a downstream service fetched   *)
(* is dropped when it is older than CacheAge.                              *)
RotationTick ==
  /\ now < MaxTime
  /\ (\E n \in Replica : conf[n] # target) => now < since + Rollout
  /\ now' = now + 1
  /\ cached' = [v \in DOMAIN cached |->
       IF now < cached[v].at + CacheAge THEN cached[v] ELSE NoKeys]
  /\ UNCHANGED <<conf, target, former, since, tokens>>

(* A downstream service refreshes what it cached, from whichever replica   *)
(* the load balancer picks.                                                *)
Refresh(v, n) ==
  /\ cached' = [cached EXCEPT ![v] =
       [keys |-> IF v \in Legacy THEN {PublicPem(n)} ELSE Jwks(n), at |-> now]]
  /\ UNCHANGED <<now, conf, target, former, since, tokens>>

RotationNext ==
  \/ RotationTick \/ Rotate
  \/ \E n \in Replica : Sign(n) \/ Deploy(n)
  \/ \E v \in Verifier \cup Legacy, n \in Replica : Refresh(v, n)

RotationSpec == RotationInit /\ [][RotationNext]_rotationVars
-----------------------------------------------------------------------------
(* Routing by kid only saves a "doomed signature check": whatever the      *)
(* operator named the keys, in this rotation or an earlier one, a replica  *)
(* accepts exactly the tokens of the keys it trusts, its current key and   *)
(* the previous one until its retirement, and no token of the current key  *)
(* is sent to the previous one by its kid.                                 *)
KidRoutingHarmless ==
  \A n \in Replica, t \in tokens :
    VerifyRaw(n, t) <=> \/ t.key = conf[n].current.key
                        \/ ActivePrevious(n) /\ t.key = conf[n].previous.key

(* If the grace period is longer than the roll-out plus the lifetime of a  *)
(* token, no unexpired token is ever refused, whichever replica signed it  *)
(* and whichever is asked, even if the previous key was given another kid  *)
(* than its tokens carry ("all in-flight tokens continue to verify",       *)
(* config.md), except a token of the new key by a replica that has not     *)
(* been restarted yet: that one has never loaded the key.                  *)
InFlightTokensVerify ==
  Grace > Rollout + Lifetime =>
    \A n \in Replica, t \in tokens :
      now <= t.exp => \/ VerifyRaw(n, t)
                      \/ conf[n] # target /\ t.key = target.current.key

(* The previous key is advertised under the kid its tokens carry.          *)
NameKept == target.previous = NoKey \/ target.previous.kid = former.current.kid

(* What a downstream service caches may be as old as CacheAge and come     *)
(* from a replica that was not restarted.  Still, with a grace period      *)
(* "long enough for every downstream verifier to refresh its JWKS cache"   *)
(* (config.md), a service that caches the JWK set and looks a token's kid  *)
(* up in it refuses an unexpired token only while the new key is news to   *)
(* it, until one cache age after the roll-out, and never one of the old    *)
(* key, provided that key kept its name; and no service, not even one that *)
(* caches the PEM, trusts a retired key for longer than one cache age      *)
(* after its retirement.                                                   *)
DownstreamCatchesUp ==
  Grace > Rollout + Lifetime /\ Grace > Rollout + CacheAge =>
    \A v \in Verifier \cup Legacy :
      cached[v] # NoKeys =>
        /\ v \in Verifier /\ NameKept =>
             \A t \in tokens :
               now <= t.exp =>
                 \/ [kid |-> t.kid, key |-> t.key] \in cached[v].keys
                 \/ t.key = target.current.key /\ now <= since + Rollout + CacheAge
        /\ target.previous # NoKey /\ now >= target.retires + CacheAge =>
             \A k \in cached[v].keys : k.key # target.previous.key
=============================================================================
