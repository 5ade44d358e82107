------------------------ MODULE DiscoveryCacheProofs ------------------------
(***************************************************************************)
(* Proofs about DiscoveryCache, for any number of callers and documents    *)
(* and any TTL, timeout and number of retries.                             *)
(***************************************************************************)
EXTENDS DiscoveryCache, TLAPS

DiscoveryTypes ==
  /\ now \in 0 .. MaxTime
  /\ published \in Version
  /\ replaced \in [Version -> Nat]
  /\ relaxed \subseteq [doc : Version, at : Nat]
  /\ cache \in [doc : {0} \cup Version, at : Nat]
  /\ fetch \in [Caller -> FetchState]

(* The document was still the provider's current one at time t.            *)
CurrentAt(doc, t) == replaced[doc] # Never => t <= replaced[doc]

(* Documents are replaced in turn: the current one and those to come have  *)
(* not been.                                                               *)
PublishedSound == \A v \in Version : v >= published => replaced[v] = Never

(* A cached document validated, for every provider or for one that opted   *)
(* in to plain HTTP, and was current a timeout before it was inserted, or  *)
(* later.                                                                  *)
CacheSound ==
  cache.doc # 0 =>
    /\ \/ cache.doc \in Usable
       \/ \E load \in relaxed : load.doc = cache.doc /\ load.at = cache.at
    /\ cache.at <= now
    /\ replaced[cache.doc] # Never => cache.at <= replaced[cache.doc] + Timeout

(* A document on its way was current when its attempt was sent, or later;  *)
(* a call pauses only if an attempt is left.                               *)
AttemptSound(c) ==
  /\ fetch[c].pc = "attempt" =>
       /\ fetch[c].at <= now
       /\ now <= fetch[c].at + Timeout
       /\ fetch[c].doc # 0 => CurrentAt(fetch[c].doc, fetch[c].at)
  /\ fetch[c].pc = "sleep" => fetch[c].attempt < MaxRetries

(* What OnlyValidatedServed says of a document given to c at time t.       *)
Validated(c, doc, t) ==
  \/ ValidateWith(doc, c \in OptedIn)
  \/ \E load \in relaxed :
       load.doc = doc /\ load.at <= t /\ t < load.at + Ttl

AnswerSound(c) ==
  fetch[c].ans = "ok" =>
    /\ fetch[c].pc = "reply"
    /\ fetch[c].at <= now
    /\ Validated(c, fetch[c].doc, fetch[c].at)
    /\ fetch[c].doc # 0
    /\ replaced[fetch[c].doc] # Never =>
         fetch[c].at < replaced[fetch[c].doc] + Timeout + (IF Ttl = 0 THEN 1 ELSE Ttl)

FetchSound(c) == AttemptSound(c) /\ AnswerSound(c)

DiscoveryInv ==
  /\ DiscoveryTypes
  /\ PublishedSound
  /\ CacheSound
  /\ \A c \in Caller : FetchSound(c)

-----------------------------------------------------------------------------
(* An empty slot is well typed.                                            *)
LEMMA NoFetchType == NoFetch \in FetchState
  BY DiscoveryAssumption DEF NoFetch, FetchState

(* No document fetched yet.                                                *)
LEMMA DiscoveryInitInv == DiscoveryInit => DiscoveryInv
<1> SUFFICES ASSUME DiscoveryInit PROVE DiscoveryInv
  OBVIOUS
<1> USE DiscoveryAssumption DEF DiscoveryInit, NoFetch
<1>1. DiscoveryTypes
  BY DEF DiscoveryTypes, Version, Never, FetchState
<1>2. PublishedSound /\ CacheSound
  BY DEF PublishedSound, CacheSound
<1>3. \A c \in Caller : FetchSound(c)
  BY DEF FetchSound, AttemptSound, AnswerSound
<1>4. QED
  BY <1>1, <1>2, <1>3 DEF DiscoveryInv

(* A document that is replaced now was current at every time before.       *)
LEMMA PublishInv == DiscoveryInv /\ Publish => DiscoveryInv'
<1> SUFFICES ASSUME DiscoveryInv, Publish PROVE DiscoveryInv'
  OBVIOUS
<1> USE DiscoveryAssumption DEF DiscoveryInv, DiscoveryTypes
<1>1. /\ published' = published + 1
      /\ replaced' = [replaced EXCEPT ![published] = now]
      /\ UNCHANGED <<now, relaxed, cache, fetch>>
      /\ published < MaxVersion
  BY DEF Publish
<1>2. DiscoveryTypes'
  BY <1>1 DEF Version
<1>3. PublishedSound'
  BY <1>1 DEF PublishedSound, Version, Never
<1>4. CacheSound'
  BY <1>1 DEF CacheSound, Version
<1>5. ASSUME NEW c \in Caller PROVE FetchSound(c)'
  <2>1. AttemptSound(c) /\ AnswerSound(c) /\ fetch[c] \in FetchState
    BY DEF FetchSound
  <2>2. AttemptSound(c)'
    BY <1>1, <2>1 DEF AttemptSound, CurrentAt, FetchState
  <2>3. AnswerSound(c)'
    BY <1>1, <2>1 DEF AnswerSound, Validated, FetchState
  <2>4. QED
    BY <2>2, <2>3 DEF FetchSound
<1>6. QED
  BY <1>2, <1>3, <1>4, <1>5

(* Time passes, but no attempt outlives the timeout.                       *)
LEMMA DiscoveryTickInv == DiscoveryInv /\ DiscoveryTick => DiscoveryInv'
<1> SUFFICES ASSUME DiscoveryInv, DiscoveryTick PROVE DiscoveryInv'
  OBVIOUS
<1> USE DiscoveryAssumption DEF DiscoveryInv, DiscoveryTypes, DiscoveryTick
<1>1. DiscoveryTypes'
  OBVIOUS
<1>2. PublishedSound' /\ CacheSound'
  BY DEF PublishedSound, CacheSound
<1>3. ASSUME NEW c \in Caller PROVE FetchSound(c)'
  BY DEF FetchSound, AttemptSound, AnswerSound, Validated, CurrentAt, FetchState
<1>4. QED
  BY <1>1, <1>2, <1>3

(* A step keeps the entry and the history of loads sound.                  *)
CacheKept ==
  /\ relaxed \subseteq relaxed' /\ relaxed' \subseteq [doc : Version, at : Nat]
  /\ cache' \in [doc : {0} \cup Version, at : Nat] /\ CacheSound'

(* As does one that leaves them alone.                                     *)
LEMMA UnchangedCache ==
  DiscoveryInv /\ UNCHANGED <<now, published, replaced, relaxed, cache>> => CacheKept
  BY DEF DiscoveryInv, DiscoveryTypes, CacheSound, CacheKept

(* A step of one caller that leaves the provider and the clock alone.      *)
LEMMA CallerStep ==
  ASSUME DiscoveryInv, NEW c \in Caller, NEW x \in FetchState,
         fetch' = [fetch EXCEPT ![c] = x],
         UNCHANGED <<now, published, replaced>>,
         CacheKept,
         FetchSound(c)'
  PROVE  DiscoveryInv'
<1> USE DEF DiscoveryInv, DiscoveryTypes, CacheKept
<1>1. DiscoveryTypes'
  OBVIOUS
<1>2. PublishedSound'
  BY DEF PublishedSound
<1>3. ASSUME NEW d \in Caller, d # c PROVE FetchSound(d)'
  BY <1>3 DEF FetchSound, AttemptSound, AnswerSound, Validated, CurrentAt
<1>4. QED
  BY <1>1, <1>2, <1>3

(* A call that begins an attempt.                                          *)
LEMMA AttemptStep ==
  ASSUME DiscoveryInv, NEW c \in Caller, NEW n \in 0 .. MaxRetries, Attempt(c, n),
         UNCHANGED <<now, published, replaced, relaxed, cache>>
  PROVE  DiscoveryInv'
<1> DEFINE x == [NoFetch EXCEPT !.pc = "attempt", !.attempt = n, !.at = now]
<1> USE DiscoveryAssumption
<1>1. now \in Nat /\ fetch \in [Caller -> FetchState]
  BY DEF DiscoveryInv, DiscoveryTypes
<1>2. x \in FetchState /\ fetch' = [fetch EXCEPT ![c] = x]
  BY <1>1 DEF Attempt, NoFetch, FetchState
<1>3. fetch'[c] = x
  BY <1>1, <1>2
<1>4. FetchSound(c)'
  BY <1>1, <1>3 DEF FetchSound, AttemptSound, AnswerSound, NoFetch
<1>5. CacheKept
  BY UnchangedCache
<1> HIDE DEF x
<1>6. QED
  BY <1>2, <1>4, <1>5, CallerStep

(* A call that ends, with a document or without, whose cache entry and     *)
(* answer are sound.                                                       *)
LEMMA EndStep ==
  ASSUME DiscoveryInv, NEW c \in Caller, NEW doc \in {0} \cup Version,
         NEW answer \in {"ok", "failed"}, FetchEnds(c, doc, answer),
         UNCHANGED <<now, published, replaced>>,
         CacheKept,
         answer = "ok" =>
           /\ Validated(c, doc, now)
           /\ doc # 0
           /\ replaced[doc] # Never =>
                now < replaced[doc] + Timeout + (IF Ttl = 0 THEN 1 ELSE Ttl)
  PROVE  DiscoveryInv'
<1> DEFINE x == [NoFetch EXCEPT !.pc = "reply", !.doc = doc, !.at = now, !.ans = answer]
<1>1. now \in Nat /\ fetch \in [Caller -> FetchState]
  BY DiscoveryAssumption DEF DiscoveryInv, DiscoveryTypes
<1>2. /\ x \in FetchState
      /\ x.pc = "reply" /\ x.doc = doc /\ x.at = now /\ x.ans = answer
  BY <1>1, NoFetchType DEF FetchState
<1>3. fetch' = [fetch EXCEPT ![c] = x]
  BY DEF FetchEnds
<1>4. fetch'[c] = x
  BY <1>1, <1>3
<1> HIDE DEF x
<1>5. FetchSound(c)'
  BY <1>1, <1>2, <1>4 DEF FetchSound, AttemptSound, AnswerSound, Validated,
     CurrentAt, CacheKept
<1>6. QED
  BY <1>2, <1>3, <1>5, CallerStep

(* A hit, or the first attempt.                                            *)
LEMMA LookupInv == \A c \in Caller : DiscoveryInv /\ Lookup(c) => DiscoveryInv'
<1> SUFFICES ASSUME NEW c \in Caller, DiscoveryInv, Lookup(c) PROVE DiscoveryInv'
  OBVIOUS
<1>1. UNCHANGED <<now, published, replaced, relaxed, cache>>
  BY DEF Lookup
<1>2. CacheKept
  BY <1>1, UnchangedCache
<1>3. CASE Fresh /\ FetchEnds(c, cache.doc, "ok")
  <2>1. /\ cache.doc \in Version /\ Validated(c, cache.doc, now) /\ cache.doc # 0
        /\ replaced[cache.doc] # Never =>
             now < replaced[cache.doc] + Timeout + (IF Ttl = 0 THEN 1 ELSE Ttl)
    BY <1>3, DiscoveryAssumption
       DEF Fresh, DiscoveryInv, DiscoveryTypes, CacheSound, Version,
           Validated, ValidateWith
  <2>2. QED
    BY <1>1, <1>2, <1>3, <2>1, EndStep
<1>4. CASE Attempt(c, 0)
  BY <1>1, <1>4, AttemptStep, DiscoveryAssumption
<1>5. QED
  BY <1>3, <1>4 DEF Lookup

(* The provider answers with its current document.                         *)
LEMMA ServeInv == \A c \in Caller : DiscoveryInv /\ Serve(c) => DiscoveryInv'
<1> SUFFICES ASSUME NEW c \in Caller, DiscoveryInv, Serve(c) PROVE DiscoveryInv'
  OBVIOUS
<1> DEFINE x == [fetch[c] EXCEPT !.doc = published]
<1>1. UNCHANGED <<now, published, replaced, relaxed, cache>> /\ fetch[c].pc = "attempt"
  BY DEF Serve
<1>2. fetch[c] \in FetchState /\ published \in Version /\ FetchSound(c)
  BY DEF DiscoveryInv, DiscoveryTypes
<1>3. CacheKept
  BY <1>1, UnchangedCache
<1>4. x \in FetchState /\ fetch' = [fetch EXCEPT ![c] = x]
  BY <1>2 DEF FetchState, Serve
<1>5. /\ fetch'[c].pc = "attempt" /\ fetch'[c].doc = published
      /\ fetch'[c].at = fetch[c].at /\ fetch'[c].ans = fetch[c].ans
  BY <1>1, <1>2, <1>4 DEF FetchState, DiscoveryInv, DiscoveryTypes
<1>6. replaced[published] = Never
  BY DEF DiscoveryInv, DiscoveryTypes, PublishedSound, Version
<1>7. FetchSound(c)'
  BY <1>1, <1>2, <1>5, <1>6 DEF FetchSound, AttemptSound, AnswerSound, CurrentAt
<1> HIDE DEF x
<1>8. QED
  BY <1>1, <1>3, <1>4, <1>7, CallerStep

(* A document arrives, is validated and, if it passes, inserted.           *)
LEMMA ReceiveInv == \A c \in Caller : DiscoveryInv /\ Receive(c) => DiscoveryInv'
<1> SUFFICES ASSUME NEW c \in Caller, DiscoveryInv, Receive(c) PROVE DiscoveryInv'
  OBVIOUS
<1> DEFINE doc == fetch[c].doc
<1>1. UNCHANGED <<now, published, replaced>> /\ fetch[c].pc = "attempt" /\ doc # 0
  BY DEF Receive
<1>2. fetch[c] \in FetchState /\ FetchSound(c) /\ now \in Nat
  BY DiscoveryAssumption DEF DiscoveryInv, DiscoveryTypes
<1>3. doc \in Version
  BY <1>1, <1>2 DEF FetchState
<1>4. replaced[doc] # Never => now <= replaced[doc] + Timeout
  BY <1>1, <1>2, <1>3, DiscoveryAssumption
     DEF FetchSound, AttemptSound, CurrentAt, FetchState, DiscoveryInv, DiscoveryTypes
<1>5. CASE /\ ValidateWith(doc, c \in OptedIn)
           /\ cache' = [doc |-> doc, at |-> now]
           /\ relaxed' = IF doc \in Usable THEN relaxed
                         ELSE relaxed \cup {[doc |-> doc, at |-> now]}
           /\ FetchEnds(c, doc, "ok")
  <2>1. /\ relaxed \subseteq relaxed'
        /\ relaxed' \subseteq [doc : Version, at : Nat]
    BY <1>2, <1>3, <1>5 DEF DiscoveryInv, DiscoveryTypes
  <2>2. doc \in Usable \/ [doc |-> doc, at |-> now] \in relaxed'
    BY <1>5
  <2>3. CacheKept
    BY <1>1, <1>2, <1>3, <1>4, <1>5, <2>1, <2>2 DEF CacheSound, CacheKept
  <2>4. replaced[doc] # Never =>
          now < replaced[doc] + Timeout + (IF Ttl = 0 THEN 1 ELSE Ttl)
    BY <1>2, <1>3, <1>4, DiscoveryAssumption DEF DiscoveryInv, DiscoveryTypes
  <2>5. Validated(c, doc, now)
    BY <1>5 DEF Validated
  <2> HIDE DEF doc
  <2>6. QED
    BY <1>1, <1>3, <1>5, <2>3, <2>4, <2>5, EndStep
<1>6. CASE FetchEnds(c, 0, "failed") /\ UNCHANGED <<relaxed, cache>>
  <2>1. CacheKept
    BY <1>1, <1>6, UnchangedCache
  <2>2. QED
    BY <1>1, <1>6, <2>1, EndStep
<1>7. QED
  BY <1>5, <1>6 DEF Receive

(* An attempt fails, for good or to be repeated; the pause ends; the       *)
(* caller goes on or is dropped.                                           *)
LEMMA AttemptFailsInv ==
  \A c \in Caller : DiscoveryInv /\ AttemptFails(c) => DiscoveryInv'
<1> SUFFICES ASSUME NEW c \in Caller, DiscoveryInv, AttemptFails(c) PROVE DiscoveryInv'
  OBVIOUS
<1>1. UNCHANGED <<now, published, replaced, relaxed, cache>> /\ fetch[c].pc = "attempt"
  BY DEF AttemptFails
<1>2. CacheKept
  BY <1>1, UnchangedCache
<1>3. CASE FetchEnds(c, 0, "failed")
  BY <1>1, <1>2, <1>3, EndStep
<1>4. CASE fetch[c].attempt < MaxRetries /\ fetch' = [fetch EXCEPT ![c].pc = "sleep"]
  <2> DEFINE x == [fetch[c] EXCEPT !.pc = "sleep"]
  <2>1. fetch[c] \in FetchState /\ FetchSound(c)
    BY DEF DiscoveryInv, DiscoveryTypes
  <2>2. x \in FetchState /\ fetch' = [fetch EXCEPT ![c] = x]
    BY <1>4, <2>1 DEF FetchState
  <2>3. /\ fetch'[c].pc = "sleep" /\ fetch'[c].ans = fetch[c].ans
        /\ fetch'[c].attempt = fetch[c].attempt
    BY <2>1, <2>2 DEF FetchState, DiscoveryInv, DiscoveryTypes
  <2>4. FetchSound(c)'
    BY <1>1, <1>4, <2>1, <2>3 DEF FetchSound, AttemptSound, AnswerSound
  <2> HIDE DEF x
  <2>5. QED
    BY <1>1, <1>2, <2>2, <2>4, CallerStep
<1>5. QED
  BY <1>3, <1>4 DEF AttemptFails

LEMMA WakeInv == \A c \in Caller : DiscoveryInv /\ Wake(c) => DiscoveryInv'
<1> SUFFICES ASSUME NEW c \in Caller, DiscoveryInv, Wake(c) PROVE DiscoveryInv'
  OBVIOUS
<1>1. fetch[c] \in FetchState /\ fetch[c].attempt < MaxRetries
  BY DEF DiscoveryInv, DiscoveryTypes, FetchSound, AttemptSound, Wake
<1>2. fetch[c].attempt + 1 \in 0 .. MaxRetries
  BY <1>1, DiscoveryAssumption DEF FetchState
<1>3. QED
  BY <1>2, AttemptStep DEF Wake

LEMMA FetchReplyInv ==
  \A c \in Caller : DiscoveryInv /\ FetchReply(c) => DiscoveryInv'
<1> SUFFICES ASSUME NEW c \in Caller, DiscoveryInv, FetchReply(c) PROVE DiscoveryInv'
  OBVIOUS
<1>1. UNCHANGED <<now, published, replaced, relaxed, cache>> /\ fetch' = [fetch EXCEPT ![c] = NoFetch]
  BY DEF FetchReply
<1>2. CacheKept
  BY <1>1, UnchangedCache
<1>3. FetchSound(c)'
  BY <1>1 DEF FetchSound, AttemptSound, AnswerSound, NoFetch, DiscoveryInv, DiscoveryTypes
<1>4. QED
  BY <1>1, <1>2, <1>3, NoFetchType, CallerStep

(* Every step, and hence every behaviour, keeps the invariant.             *)
LEMMA DiscoveryStep == DiscoveryInv /\ [DiscoveryNext]_discoveryVars => DiscoveryInv'
<1> SUFFICES ASSUME DiscoveryInv, [DiscoveryNext]_discoveryVars PROVE DiscoveryInv'
  OBVIOUS
<1>1. CASE UNCHANGED discoveryVars
  BY <1>1 DEF discoveryVars, DiscoveryInv, DiscoveryTypes, PublishedSound, CacheSound,
     FetchSound, AttemptSound, AnswerSound, Validated, CurrentAt
<1>2. QED
  BY <1>1, DiscoveryTickInv, PublishInv, LookupInv, ServeInv, ReceiveInv,
     AttemptFailsInv, WakeInv, FetchReplyInv DEF DiscoveryNext, Proceed

LEMMA DiscoveryInvariant == DiscoverySpec => []DiscoveryInv
  BY DiscoveryInitInv, DiscoveryStep, PTL DEF DiscoverySpec

-----------------------------------------------------------------------------
(* The staleness of a document in use is bounded by TTL and timeout.       *)
THEOREM StalenessBounded == DiscoverySpec => []UsedDocRecent
<1>1. DiscoveryInv => UsedDocRecent
  BY DEF DiscoveryInv, FetchSound, AnswerSound, UsedDocRecent
<1>2. QED
  BY <1>1, DiscoveryInvariant, PTL

(* A caller works only with documents that validate for its provider, or  *)
(* for one TTL with what a provider that opted in to plain HTTP loaded.    *)
THEOREM ValidatedOnly == DiscoverySpec => []OnlyValidatedServed
<1>1. DiscoveryInv => OnlyValidatedServed
  BY DEF DiscoveryInv, FetchSound, AnswerSound, Validated, OnlyValidatedServed
<1>2. QED
  BY <1>1, DiscoveryInvariant, PTL
=============================================================================
