-------------------------- MODULE KeyRotationProofs --------------------------
(***************************************************************************)
(* Proofs about KeyRotation, for any number of replicas, downstream        *)
(* services and rotations, any names, lifetime, roll-out and cache age.    *)
(***************************************************************************)
EXTENDS KeyRotation, TLAPS

(* What a replica loads, what a client holds, what a service caches.       *)
Key == [kid : Kid, key : Nat \ {0}]
Keys == [current : Key, previous : Key \cup {NoKey}, retires : Nat]
Token == [kid : Kid, key : Nat \ {0}, exp : Nat]
Fetched == [keys : SUBSET Key, at : Nat]

RotationTypes ==
  /\ now \in Nat
  /\ conf \in [Replica -> Keys]
  /\ target \in Keys
  /\ former \in Keys
  /\ since \in Nat
  /\ tokens \subseteq Token
  /\ cached \in [Verifier \cup Legacy -> Fetched]

(* The configuration being rolled out: its previous key is the current one *)
(* of the configuration it replaces, by another name perhaps, and retires  *)
(* a grace period after the rotation began.                                *)
TargetSound ==
  /\ target.current.key = target.previous.key + 1
  /\ since <= now
  /\ target.previous # NoKey =>
       /\ target.retires = since + Grace
       /\ target.previous.key = former.current.key
       /\ target.previous.kid # target.current.kid

(* A replica that has not been restarted runs the former configuration,    *)
(* whose previous key has retired; it is restarted before the roll-out is  *)
(* over.                                                                   *)
Lagging(n) ==
  /\ target.previous # NoKey
  /\ conf[n] = former
  /\ ~ActivePrevious(n)
  /\ now <= since + Rollout

ReplicasSound == \A n \in Replica : conf[n] = target \/ Lagging(n)

(* A token of the current key, or of the one before, carries the name that *)
(* key signs under, and no token is of a key still to come or expires      *)
(* later than in a lifetime.                                               *)
TokensHonest ==
  \A t \in tokens :
    /\ t.key <= target.current.key
    /\ t.exp <= now + Lifetime
    /\ t.key = target.current.key => t.kid = target.current.kid
    /\ t.key = target.previous.key => t.kid = former.current.kid

(* An unexpired token of another than the current key is one of the        *)
(* previous key, signed before the end of the roll-out.                    *)
TokensSound ==
  \A t \in tokens :
    now <= t.exp =>
      \/ t.key = target.current.key
      \/ t.key = target.previous.key /\ t.exp <= since + Rollout + Lifetime

(* What a service caches is young; it holds the previous key only if it    *)
(* was fetched before the retirement.                                      *)
CacheSound(v) ==
  cached[v] # NoKeys =>
    /\ cached[v].at <= now
    /\ now <= cached[v].at + CacheAge
    /\ target.previous # NoKey /\ (\E k \in cached[v].keys : k.key = target.previous.key) =>
         cached[v].at < target.retires

(* A JWK set fetched after the roll-out, or before any rotation, names the *)
(* current key, and one fetched before the retirement names the previous   *)
(* key, by the name it has or by the name it had.                          *)
SetSound(v) ==
  cached[v] # NoKeys =>
    /\ target.previous = NoKey \/ since + Rollout < cached[v].at =>
         target.current \in cached[v].keys
    /\ target.previous # NoKey /\ cached[v].at < target.retires =>
         target.previous \in cached[v].keys \/ former.current \in cached[v].keys

(* The grace period is sized for tokens, and for downstream caches.        *)
SizedForTokens == Grace > Rollout + Lifetime
SizedForCaches == Grace > Rollout + CacheAge

RotationInv ==
  /\ RotationTypes
  /\ TargetSound
  /\ ReplicasSound
  /\ TokensHonest
  /\ SizedForTokens => TokensSound
  /\ SizedForCaches =>
       /\ \A v \in Verifier \cup Legacy : CacheSound(v)
       /\ \A v \in Verifier : SetSound(v)

-----------------------------------------------------------------------------
(* The first replicas and nothing signed or fetched.                       *)
LEMMA RotationInitInv == RotationInit => RotationInv
<1> SUFFICES ASSUME RotationInit PROVE RotationInv
  OBVIOUS
<1>1. PICK k \in Kid : target = [current |-> [kid |-> k, key |-> 1],
                                previous |-> NoKey, retires |-> 0]
  BY DEF RotationInit
<1>2. RotationTypes
  BY <1>1 DEF RotationInit, RotationTypes, Key, Keys, Fetched, NoKeys
<1>3. TargetSound /\ ReplicasSound /\ TokensHonest /\ TokensSound
  BY <1>1 DEF RotationInit, TargetSound, ReplicasSound, TokensHonest, TokensSound, NoKey
<1>4. /\ \A v \in Verifier \cup Legacy : CacheSound(v)
      /\ \A v \in Verifier : SetSound(v)
  BY DEF RotationInit, CacheSound, SetSound
<1>5. QED
  BY <1>2, <1>3, <1>4 DEF RotationInv

(* Time passes: roll-outs end in time, tokens expire, caches are dropped.  *)
LEMMA RotationTickInv == RotationInv /\ RotationTick => RotationInv'
<1> SUFFICES ASSUME RotationInv, RotationTick PROVE RotationInv'
  OBVIOUS
<1> USE RotationAssumption DEF RotationInv, RotationTypes
<1>1. /\ now' = now + 1
      /\ UNCHANGED <<conf, target, former, since, tokens>>
  BY DEF RotationTick
<1>2. RotationTypes'
  BY <1>1 DEF RotationTick, Fetched, NoKeys
<1>3. TargetSound'
  BY <1>1 DEF TargetSound, Keys
<1>4. ReplicasSound'
  BY <1>1 DEF RotationTick, ReplicasSound, Lagging, ActivePrevious, Keys
<1>5. TokensHonest' /\ (SizedForTokens => TokensSound')
  BY <1>1 DEF TokensHonest, TokensSound, Token
<1>6. ASSUME NEW v \in Verifier \cup Legacy
      PROVE  \/ cached'[v] = NoKeys
             \/ cached'[v] = cached[v] /\ now' <= cached[v].at + CacheAge
  BY <1>1 DEF RotationTick, Fetched
<1>7. SizedForCaches => \A v \in Verifier \cup Legacy : CacheSound(v)'
  BY <1>1, <1>6 DEF CacheSound, Fetched, NoKeys
<1>8. SizedForCaches => \A v \in Verifier : SetSound(v)'
  BY <1>1, <1>6 DEF SetSound, NoKeys
<1>9. QED
  BY <1>2, <1>3, <1>4, <1>5, <1>7, <1>8 DEF SizedForTokens, SizedForCaches

(* A token is signed with the current key of a replica: the current key,   *)
(* or the previous one while the roll-out lasts.                           *)
LEMMA SignInv == \A n \in Replica : RotationInv /\ Sign(n) => RotationInv'
<1> SUFFICES ASSUME NEW n \in Replica, RotationInv, Sign(n) PROVE RotationInv'
  OBVIOUS
<1> DEFINE new == [kid |-> conf[n].current.kid, key |-> conf[n].current.key,
                   exp |-> now + Lifetime]
<1> USE RotationAssumption DEF RotationInv, RotationTypes
<1>1. /\ tokens' = tokens \cup {new}
      /\ UNCHANGED <<now, conf, target, former, since, cached>>
  BY DEF Sign
<1>2. /\ new \in Token /\ new.exp = now + Lifetime
      /\ new.kid = conf[n].current.kid /\ new.key = conf[n].current.key
  BY DEF Token, Key, Keys
<1>3. \/ new.key = target.current.key /\ new.kid = target.current.kid
      \/ /\ new.key = target.previous.key /\ new.kid = former.current.kid
         /\ target.current.key = new.key + 1 /\ now <= since + Rollout
  BY <1>2 DEF ReplicasSound, Lagging, TargetSound
<1>4. target.current.key = target.previous.key + 1 /\ target.current.key \in Nat
  BY DEF TargetSound, Key, Keys
<1> HIDE DEF new
<1>5. RotationTypes'
  BY <1>1, <1>2
<1>6. TargetSound' /\ ReplicasSound'
  BY <1>1 DEF TargetSound, ReplicasSound, Lagging, ActivePrevious
<1>7. TokensHonest'
  BY <1>1, <1>2, <1>3, <1>4 DEF TokensHonest, Token
<1>8. SizedForTokens => TokensSound'
  <2>1. \/ new.key = target.current.key
        \/ new.key = target.previous.key /\ new.exp <= since + Rollout + Lifetime
    BY <1>2, <1>3
  <2>2. QED
    BY <1>1, <2>1 DEF TokensSound
<1>9. SizedForCaches => /\ \A v \in Verifier \cup Legacy : CacheSound(v)'
                        /\ \A v \in Verifier : SetSound(v)'
  BY <1>1 DEF CacheSound, SetSound
<1>10. QED
  BY <1>5, <1>6, <1>7, <1>8, <1>9 DEF SizedForTokens, SizedForCaches

(* A rotation begins when the last one is over and its previous key has    *)
(* retired everywhere: by then all tokens of that key have expired, and    *)
(* every cached set names the key that now becomes the previous one.       *)
LEMMA RotateInv == RotationInv /\ Rotate => RotationInv'
<1> SUFFICES ASSUME RotationInv, Rotate PROVE RotationInv'
  OBVIOUS
<1> USE RotationAssumption DEF RotationInv, RotationTypes
<1>1. PICK new \in Kid, old \in Kid :
        target' = [current  |-> [kid |-> new, key |-> target.current.key + 1],
                   previous |-> [kid |-> old, key |-> target.current.key],
                   retires  |-> now + Grace]
  BY DEF Rotate
<1>2. target.current.key \in Nat \ {0} /\ target.current.kid \in Kid
  BY DEF Key, Keys
<1>3. /\ target'.current.key = target.current.key + 1
       /\ target'.previous.key = target.current.key
       /\ target'.previous # NoKey
       /\ target'.previous.kid # target'.current.kid
       /\ target'.retires = now + Grace
       /\ target' \in Keys
       /\ former' = target
       /\ since' = now
       /\ UNCHANGED <<now, conf, tokens, cached>>
  BY <1>1, <1>2 DEF Rotate, WithPrevious, Key, Keys, NoKey
<1>4. target.previous # NoKey => target.retires <= now
  BY ReplicaAssumption DEF Rotate, ActivePrevious
<1>5. target.previous # NoKey => since + Grace <= now
  BY <1>4 DEF TargetSound
<1>6. RotationTypes'
  BY <1>3
<1>7. TargetSound'
  BY <1>3 DEF TargetSound
<1>8. ReplicasSound'
  BY <1>3 DEF Rotate, ReplicasSound, Lagging, ActivePrevious
<1>9. TokensHonest'
  BY <1>2, <1>3 DEF TokensHonest, Token
<1>10. SizedForTokens => TokensSound'
  <2> SUFFICES ASSUME SizedForTokens, NEW t \in tokens, now <= t.exp
               PROVE  t.key = target.current.key /\ t.exp <= now + Rollout + Lifetime
    BY <1>3 DEF TokensSound
  <2>1. t.exp <= now + Lifetime /\ t \in Token
    BY DEF TokensHonest
  <2>2. CASE target.previous = NoKey
    BY <2>1, <2>2 DEF SizedForTokens, TokensSound, NoKey, Token
  <2>3. CASE target.previous # NoKey
    <3>1. ~(t.exp <= since + Rollout + Lifetime)
      BY <1>5, <2>1, <2>3 DEF SizedForTokens, Token
    <3>2. QED
      BY <2>1, <3>1 DEF SizedForTokens, TokensSound, Token
  <2>4. QED
    BY <2>2, <2>3
<1>11. SizedForCaches => \A v \in Verifier \cup Legacy : CacheSound(v)'
  BY <1>3 DEF CacheSound, Fetched, SizedForCaches
<1>12. SizedForCaches => \A v \in Verifier : SetSound(v)'
  <2> SUFFICES ASSUME SizedForCaches, NEW v \in Verifier, cached[v] # NoKeys
               PROVE  /\ now + Rollout >= cached[v].at
                      /\ target.current \in cached[v].keys
    BY <1>3 DEF SetSound, Fetched
  <2>1. CacheSound(v) /\ SetSound(v) /\ cached[v] \in Fetched
    OBVIOUS
  <2>2. now + Rollout >= cached[v].at
    BY <2>1 DEF CacheSound, Fetched
  <2>3. CASE target.previous # NoKey
    BY <1>5, <2>1, <2>3 DEF CacheSound, SetSound, Fetched, SizedForCaches, TargetSound
  <2>4. CASE target.previous = NoKey
    BY <2>1, <2>2, <2>4 DEF SetSound
  <2>5. QED
    BY <2>2, <2>3, <2>4
<1>13. QED
  BY <1>6, <1>7, <1>8, <1>9, <1>10, <1>11, <1>12 DEF SizedForTokens, SizedForCaches

(* A replica is restarted with the configuration being rolled out.         *)
LEMMA DeployInv == \A n \in Replica : RotationInv /\ Deploy(n) => RotationInv'
<1> SUFFICES ASSUME NEW n \in Replica, RotationInv, Deploy(n) PROVE RotationInv'
  OBVIOUS
<1> USE DEF RotationInv, RotationTypes
<1>1. /\ conf' = [conf EXCEPT ![n] = target]
      /\ UNCHANGED <<now, target, former, since, tokens, cached>>
  BY DEF Deploy
<1>2. RotationTypes'
  BY <1>1
<1>3. ReplicasSound'
  BY <1>1 DEF ReplicasSound, Lagging, ActivePrevious
<1>4. QED
  BY <1>1, <1>2, <1>3 DEF TargetSound, TokensHonest, TokensSound, CacheSound,
     SetSound, SizedForTokens, SizedForCaches

(* A service fetches from a replica that is restarted, or is not yet.      *)
LEMMA RefreshInv ==
  \A v \in Verifier \cup Legacy, n \in Replica :
    RotationInv /\ Refresh(v, n) => RotationInv'
<1> SUFFICES ASSUME NEW v \in Verifier \cup Legacy, NEW n \in Replica,
                    RotationInv, Refresh(v, n)
             PROVE  RotationInv'
  OBVIOUS
<1> DEFINE fetched == IF v \in Legacy THEN {PublicPem(n)} ELSE Jwks(n)
<1> USE RotationAssumption DEF RotationInv, RotationTypes
<1>1. UNCHANGED <<now, conf, target, former, since, tokens>>
  BY DEF Refresh
<1>2. fetched \subseteq Key
  BY DEF PublicPem, Jwks, Keys, ActivePrevious
<1>3. /\ cached'[v].keys = fetched /\ cached'[v].at = now
      /\ \A w \in Verifier \cup Legacy : w # v => cached'[w] = cached[w]
      /\ RotationTypes'
  BY <1>1, <1>2 DEF Refresh, Fetched
<1>4. TargetSound' /\ ReplicasSound' /\ TokensHonest' /\ (SizedForTokens => TokensSound')
  BY <1>1 DEF TargetSound, ReplicasSound, Lagging, ActivePrevious, TokensHonest, TokensSound
<1>5. SizedForCaches => CacheSound(v)'
  <2> SUFFICES ASSUME SizedForCaches, target.previous # NoKey,
                      NEW k \in fetched, k.key = target.previous.key
               PROVE  now < target.retires
    BY <1>1, <1>3 DEF CacheSound
  <2>1. CASE conf[n] = target
    <3>1. target.current.key # target.previous.key
      BY DEF TargetSound, Key, Keys
    <3>2. ActivePrevious(n)
      BY <2>1, <3>1 DEF PublicPem, Jwks
    <3>3. QED
      BY <2>1, <3>2 DEF ActivePrevious, Keys
  <2>2. CASE Lagging(n)
    BY <2>2 DEF Lagging, TargetSound, SizedForCaches
  <2>3. QED
    BY <2>1, <2>2 DEF ReplicasSound
<1>6. SizedForCaches /\ v \in Verifier => SetSound(v)'
  <2> SUFFICES ASSUME SizedForCaches, v \in Verifier
               PROVE  /\ target.previous = NoKey \/ since + Rollout < now =>
                           target.current \in Jwks(n)
                      /\ target.previous # NoKey /\ now < target.retires =>
                           target.previous \in Jwks(n) \/ former.current \in Jwks(n)
    BY <1>1, <1>3, DownstreamAssumption DEF SetSound
  <2>1. CASE conf[n] = target
    BY <2>1 DEF Jwks, ActivePrevious, Keys
  <2>2. CASE Lagging(n)
    BY <2>2 DEF Lagging, Jwks, Keys
  <2>3. QED
    BY <2>1, <2>2 DEF ReplicasSound
<1>7. SizedForCaches => /\ \A w \in Verifier \cup Legacy : CacheSound(w)'
                        /\ \A w \in Verifier : SetSound(w)'
  BY <1>1, <1>3, <1>5, <1>6 DEF CacheSound, SetSound
<1>8. QED
  BY <1>3, <1>4, <1>7 DEF SizedForTokens, SizedForCaches

(* Every step, and hence every behaviour, keeps the invariant.             *)
LEMMA RotationStep == RotationInv /\ [RotationNext]_rotationVars => RotationInv'
<1> SUFFICES ASSUME RotationInv, [RotationNext]_rotationVars PROVE RotationInv'
  OBVIOUS
<1>1. CASE UNCHANGED rotationVars
  BY <1>1 DEF rotationVars, RotationInv, RotationTypes, TargetSound, ReplicasSound,
     Lagging, ActivePrevious, TokensHonest, TokensSound, CacheSound, SetSound,
     SizedForTokens, SizedForCaches
<1>2. QED
  BY <1>1, RotationTickInv, RotateInv, SignInv, DeployInv, RefreshInv DEF RotationNext

LEMMA RotationInvariant == RotationSpec => []RotationInv
  BY RotationInitInv, RotationStep, PTL DEF RotationSpec

-----------------------------------------------------------------------------
(* A token that its kid sends to the previous key is not one of the        *)
(* current key, which signs under another name.                            *)
LEMMA RoutingSound == RotationInv => KidRoutingHarmless
<1> SUFFICES ASSUME RotationInv, NEW n \in Replica, NEW t \in tokens,
                    ActivePrevious(n), t.kid = conf[n].previous.kid,
                    t.key = conf[n].current.key
             PROVE  FALSE
  BY DEF KidRoutingHarmless, VerifyRaw
<1>1. conf[n] = target /\ target.previous # NoKey
  BY DEF RotationInv, ReplicasSound, Lagging, ActivePrevious
<1>2. QED
  BY <1>1 DEF RotationInv, TokensHonest, TargetSound

(* Routing by kid never changes what a replica accepts, whatever names the *)
(* operator gives to the keys of a rotation.                               *)
THEOREM RoutingByKidHarmless == RotationSpec => []KidRoutingHarmless
  BY RoutingSound, RotationInvariant, PTL

(* With a grace period of the right size no unexpired token is refused, by *)
(* any replica that could know its key.                                    *)
THEOREM InFlightTokensAccepted == RotationSpec => []InFlightTokensVerify
<1>1. RotationInv => InFlightTokensVerify
  <2> SUFFICES ASSUME RotationInv, SizedForTokens, NEW n \in Replica,
                      NEW t \in tokens, now <= t.exp
               PROVE  \/ VerifyRaw(n, t)
                      \/ conf[n] # target /\ t.key = target.current.key
    BY DEF InFlightTokensVerify, SizedForTokens
  <2> USE RotationAssumption DEF RotationInv, RotationTypes
  <2>1. t \in Token
    OBVIOUS
  <2>5. KidRoutingHarmless
    BY RoutingSound
  <2>2. CASE t.key = target.current.key
    BY <2>2, <2>5 DEF KidRoutingHarmless
  <2>3. CASE t.key = target.previous.key /\ t.exp <= since + Rollout + Lifetime
    <3>0. target.previous # NoKey
      BY <2>1, <2>3 DEF NoKey, Token
    <3>1. now < target.retires
      BY <2>1, <2>3, <3>0 DEF TargetSound, SizedForTokens, Token, Keys
    <3>2. conf[n] = target => ActivePrevious(n)
      BY <3>0, <3>1 DEF ActivePrevious, Keys
    <3>3. QED
      BY <2>3, <2>5, <3>0, <3>2 DEF KidRoutingHarmless, ReplicasSound, Lagging, TargetSound
  <2>4. QED
    BY <2>2, <2>3 DEF TokensSound
<1>2. QED
  BY <1>1, RotationInvariant, PTL

(* Downstream services lag behind a rotation by no more than the roll-out  *)
(* and one cache age, and behind a retirement by no more than a cache age. *)
THEOREM DownstreamLagBounded == RotationSpec => []DownstreamCatchesUp
<1>1. RotationInv => DownstreamCatchesUp
  <2> SUFFICES ASSUME RotationInv, SizedForTokens, SizedForCaches,
                      NEW v \in Verifier \cup Legacy, cached[v] # NoKeys
               PROVE  /\ v \in Verifier /\ NameKept =>
                           \A t \in tokens :
                             now <= t.exp =>
                               \/ [kid |-> t.kid, key |-> t.key] \in cached[v].keys
                               \/ /\ t.key = target.current.key
                                  /\ now <= since + Rollout + CacheAge
                      /\ target.previous # NoKey /\ now >= target.retires + CacheAge =>
                           \A k \in cached[v].keys : k.key # target.previous.key
    BY DEF DownstreamCatchesUp, SizedForTokens, SizedForCaches
  <2> USE RotationAssumption DEF RotationInv, RotationTypes
  <2>1. CacheSound(v) /\ cached[v] \in Fetched
    OBVIOUS
  <2>2. target.previous # NoKey /\ now >= target.retires + CacheAge =>
          \A k \in cached[v].keys : k.key # target.previous.key
    BY <2>1 DEF CacheSound, Fetched, Keys
  <2>3. ASSUME v \in Verifier, NameKept, NEW t \in tokens, now <= t.exp
        PROVE  \/ [kid |-> t.kid, key |-> t.key] \in cached[v].keys
               \/ t.key = target.current.key /\ now <= since + Rollout + CacheAge
    <3>1. SetSound(v) /\ t \in Token
      BY <2>3
    <3>2. CASE t.key = target.current.key
      <4>1. target.current = [kid |-> t.kid, key |-> t.key]
        BY <3>2 DEF TokensHonest, Key, Keys
      <4>2. QED
        BY <2>1, <3>1, <3>2, <4>1 DEF CacheSound, SetSound, Fetched
    <3>3. CASE t.key = target.previous.key /\ t.exp <= since + Rollout + Lifetime
      <4>0. target.previous # NoKey
        BY <3>1, <3>3 DEF NoKey, Token
      <4>1. cached[v].at < target.retires
        BY <2>1, <2>3, <3>1, <3>3, <4>0
           DEF CacheSound, Fetched, TargetSound, SizedForTokens, Token
      <4>2. /\ target.previous = [kid |-> t.kid, key |-> t.key]
            /\ former.current = [kid |-> t.kid, key |-> t.key]
        BY <2>3, <3>3, <4>0 DEF TokensHonest, NameKept, TargetSound, Key, Keys
      <4>3. QED
        BY <3>1, <4>0, <4>1, <4>2 DEF SetSound
    <3>4. QED
      BY <2>3, <3>2, <3>3 DEF TokensSound
  <2>4. QED
    BY <2>2, <2>3
<1>2. QED
  BY <1>1, RotationInvariant, PTL
=============================================================================
