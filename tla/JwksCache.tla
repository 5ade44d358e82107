----------------------------- MODULE JwksCache ------------------------------
(***************************************************************************)
(* The cache of the providers' JWK sets (oauth2/jwks.rs), sized by         *)
(* ProviderRegistry::from_config (oauth2/registry.rs).  Verifications of   *)
(* ID tokens that miss at once share one load (moka's try_get_with): one   *)
(* leads, the others join it and get its result; if the leader's request   *)
(* is dropped, one of them leads anew.  The providers rotate their keys.   *)
(***************************************************************************)
EXTENDS Naturals, FiniteSets, FiniteSetsExt

CONSTANTS
  Provider,   \* configured providers, each with a jwks_uri of its own
  CacheTtl,   \* token_validation.cache_ttl_seconds of each provider
  Floor,      \* the least TTL: 60 seconds in the code
  Caller,     \* ID-token verifications that run at once
  MaxVersion, \* each provider's key sets are numbered as it publishes them
  Timeout,    \* the HTTP client's timeout
  MaxTime     \* bound of the clock

ASSUME JwksAssumption ==
  /\ IsFiniteSet(Provider) /\ Provider # {}
  /\ {Timeout, MaxTime} \subseteq Nat
  /\ MaxVersion \in [Provider -> Nat \ {0}]
  /\ Floor \in Nat \ {0}
  /\ CacheTtl \in [Provider -> Nat]

VARIABLES
  now,
  keys,      \* the key set each provider publishes
  replaced,  \* history: when each of its sets was replaced
  cache,     \* the cached set of each provider, version 0 when none
  verify     \* the verification in each slot

jwksVars == <<now, keys, replaced, cache, verify>>

Version == 1 .. Max({MaxVersion[p] : p \in Provider})
Never == MaxTime + 1

(* at is when the load was sent, or, in "reply", when the set was handed   *)
(* over; set is the version the provider answers with, 0 before.           *)
VerifyState ==
  [pc : {"idle", "fetch", "lead", "join", "reply", "accepted", "refused"},
   provider : Provider,
   set : {0} \cup Version, at : Nat, ans : {"none", "ok", "failed"}]

NoVerify == [pc |-> "idle", provider |-> CHOOSE p \in Provider : TRUE,
             set |-> 0, at |-> 0, ans |-> "none"]

(* Mutant: the TTLs of the providers add up.                               *)
JwksTtlSummed == SumSet({CacheTtl[p] : p \in Provider} \cup {Floor, 1})

(* from_config: the greatest of the providers' TTLs and the floor; new()   *)
(* makes it at least a second.                                             *)
JwksTtl == Max({CacheTtl[p] : p \in Provider} \cup {Floor, 1})

Fresh(p) == cache[p].set # 0 /\ now < cache[p].at + JwksTtl

JwksInit ==
  /\ now = 0
  /\ keys = [p \in Provider |-> 1]
  /\ replaced = [p \in Provider |-> [v \in Version |-> Never]]
  /\ cache = [p \in Provider |-> [set |-> 0, at |-> 0]]
  /\ verify = [c \in Caller |-> NoVerify]

RotateKeys(p) ==
  /\ keys[p] < MaxVersion[p]
  /\ keys' = [keys EXCEPT ![p] = @ + 1]
  /\ replaced' = [replaced EXCEPT ![p][keys[p]] = now]
  /\ UNCHANGED <<now, cache, verify>>

(* A load is answered or given up within the client's timeout.             *)
JwksTick ==
  /\ now < MaxTime
  /\ \A c \in Caller : verify[c].pc = "lead" => now < verify[c].at + Timeout
  /\ now' = now + 1
  /\ UNCHANGED <<keys, replaced, cache, verify>>

(* idtoken::verify asks for the keys of its provider.                      *)
VerifyStart(c) ==
  /\ verify[c].pc = "idle"
  /\ \E p \in Provider :
       verify' = [verify EXCEPT ![c] =
                    [NoVerify EXCEPT !.pc = "fetch", !.provider = p]]
  /\ UNCHANGED <<now, keys, replaced, cache>>

Given(c, set, answer) ==
  [verify[c] EXCEPT !.pc = "reply", !.set = set, !.at = now, !.ans = answer]

Leaders(p) == {c \in Caller : verify[c].pc = "lead" /\ verify[c].provider = p}

(* fetch: a hit, a load of one's own, or the load in progress.             *)
Fetch(c) ==
  LET p == verify[c].provider IN
    /\ verify[c].pc = "fetch"
    /\ verify' = [verify EXCEPT ![c] =
         IF Fresh(p) THEN Given(c, cache[p].set, "ok")
         ELSE [@ EXCEPT !.pc = IF Leaders(p) = {} THEN "lead" ELSE "join",
                        !.at = now]]
    /\ UNCHANGED <<now, keys, replaced, cache>>

(* The provider answers; the set is on its way for a while.                *)
ServeKeys(c) ==
  /\ verify[c].pc = "lead" /\ verify[c].set = 0
  /\ verify' = [verify EXCEPT ![c].set = keys[verify[c].provider]]
  /\ UNCHANGED <<now, keys, replaced, cache>>

(* The leader and everyone who joined it get the same result.              *)
Shared(c, set, answer) ==
  verify' = [d \in Caller |->
    IF \/ d = c
       \/ verify[d].pc = "join" /\ verify[d].provider = verify[c].provider
      THEN Given(d, set, answer)
      ELSE verify[d]]

(* load succeeds: the set is cached and shared.                            *)
Loaded(c) ==
  /\ verify[c].pc = "lead" /\ verify[c].set # 0
  /\ cache' = [cache EXCEPT ![verify[c].provider] =
                 [set |-> verify[c].set, at |-> now]]
  /\ Shared(c, verify[c].set, "ok")
  /\ UNCHANGED <<now, keys, replaced>>

(* Mutant: only the leader is told; those who joined go on waiting.        *)
LoadFailsAlone(c) ==
  /\ verify[c].pc = "lead"
  /\ verify' = [verify EXCEPT ![c] = Given(c, 0, "failed")]
  /\ UNCHANGED <<now, keys, replaced, cache>>

(* load fails, offline, on the network, by its status or its body: nothing *)
(* is cached and the error is shared.                                      *)
LoadFails(c) ==
  /\ verify[c].pc = "lead"
  /\ Shared(c, 0, "failed")
  /\ UNCHANGED <<now, keys, replaced, cache>>

(* The request is dropped; those who joined its load ask again.            *)
VerifyAbandon(c) ==
  /\ verify[c].pc \in {"fetch", "lead", "join"}
  /\ verify' = [d \in Caller |->
       IF d = c THEN NoVerify
       ELSE IF /\ verify[c].pc = "lead" /\ verify[d].pc = "join"
               /\ verify[d].provider = verify[c].provider
         THEN [verify[d] EXCEPT !.pc = "fetch", !.at = 0]
         ELSE verify[d]]
  /\ UNCHANGED <<now, keys, replaced, cache>>

VerifyDone(c) ==
  /\ verify[c].pc \in {"reply", "accepted", "refused"}
  /\ verify' = [verify EXCEPT ![c] = NoVerify]
  /\ UNCHANGED <<now, keys, replaced, cache>>

JwksNext ==
  \/ JwksTick
  \/ \E p \in Provider : RotateKeys(p)
  \/ \E c \in Caller :
       \/ VerifyStart(c) \/ Fetch(c) \/ ServeKeys(c) \/ Loaded(c) \/ LoadFails(c)
       \/ VerifyAbandon(c) \/ VerifyDone(c)

-----------------------------------------------------------------------------
(* Everyone who joined a load comes to a result, also when the request     *)
(* that led it was dropped on the way, unless requests are dropped for     *)
(* ever (each taking the load it leads with it).                           *)
JoinersServed ==
  <>[][\A c \in Caller : ~VerifyAbandon(c)]_jwksVars =>
    \A c \in Caller :
      (verify[c].pc \in {"fetch", "join"}) ~> (verify[c].pc \in {"reply", "idle"})
=============================================================================
