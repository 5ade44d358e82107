--------------------------- MODULE DiscoveryCache ---------------------------
(***************************************************************************)
(* The cache of a provider's discovery document (oauth2/discovery.rs), as  *)
(* logins and callbacks use it at once: a miss starts a fetch of its own,  *)
(* with retries, and whoever succeeds writes the entry, so a slow answer   *)
(* may replace a newer document.  Callers act for providers configured     *)
(* with one discovery_url, the cache's key, some of which opted in to      *)
(* plain-HTTP endpoints: a document is validated for the one that loads it *)
(* and then served to all.  The identity provider is external: it          *)
(* publishes new versions, some unusable, and fails in every way.          *)
(***************************************************************************)
EXTENDS Naturals

CONSTANTS
  Caller,      \* handlers that fetch at once
  OptedIn,     \* those whose provider has allow_http_discovery
  MaxVersion,  \* documents are numbered in the order they are published
  Usable,      \* versions that validate for every provider
  PlainHttp,   \* versions that validate only with allow_http
  Ttl,         \* discovery_cache_ttl_seconds
  Timeout,     \* the HTTP client's timeout
  MaxRetries,  \* max_retries: 3 in the code
  MaxTime      \* bound of the clock

ASSUME DiscoveryAssumption ==
  MaxVersion \in Nat \ {0} /\ {Ttl, Timeout, MaxRetries, MaxTime} \subseteq Nat

VARIABLES
  now,
  published,  \* the version the provider serves
  replaced,   \* history: when each version was replaced
  relaxed,    \* history: the loads that only allow_http let pass
  cache,      \* the entry: doc 0 when there is none
  fetch       \* the call of fetch_with in each slot

discoveryVars == <<now, published, replaced, relaxed, cache, fetch>>

Version == 1 .. MaxVersion

Never == MaxTime + 1

(* at is when the attempt was sent, or, in "reply", when the caller got    *)
(* its answer; doc is the version the provider answers with, 0 before.     *)
FetchState ==
  [pc : {"idle", "attempt", "sleep", "reply"}, attempt : 0 .. MaxRetries,
   doc : {0} \cup Version, at : Nat, ans : {"none", "ok", "failed"}]

NoFetch == [pc |-> "idle", attempt |-> 0, doc |-> 0, at |-> 0, ans |-> "none"]

(* validate_with: the required fields, https unless the caller's provider  *)
(* opted in, and the grant and response types, when advertised.            *)
ValidateWith(doc, allow_http) == doc \in Usable \/ (allow_http /\ doc \in PlainHttp)

Fresh == cache.doc # 0 /\ now < cache.at + Ttl

DiscoveryInit ==
  /\ now = 0
  /\ published = 1
  /\ replaced = [v \in Version |-> Never]
  /\ relaxed = {}
  /\ cache = [doc |-> 0, at |-> 0]
  /\ fetch = [c \in Caller |-> NoFetch]

Publish ==
  /\ published < MaxVersion
  /\ published' = published + 1
  /\ replaced' = [replaced EXCEPT ![published] = now]
  /\ UNCHANGED <<now, relaxed, cache, fetch>>

(* A request is answered or given up within the client's timeout.          *)
DiscoveryTick ==
  /\ now < MaxTime
  /\ \A c \in Caller : fetch[c].pc = "attempt" => now < fetch[c].at + Timeout
  /\ now' = now + 1
  /\ UNCHANGED <<published, replaced, relaxed, cache, fetch>>

FetchEnds(c, doc, answer) ==
  fetch' = [fetch EXCEPT ![c] = [NoFetch EXCEPT !.pc = "reply", !.doc = doc,
                                                !.at = now, !.ans = answer]]

Attempt(c, n) ==
  fetch' = [fetch EXCEPT ![c] = [NoFetch EXCEPT !.pc = "attempt",
                                                !.attempt = n, !.at = now]]

(* Mutant: a hit renews the entry (time to idle instead of time to live).  *)
LookupRenews(c) ==
  /\ fetch[c].pc = "idle"
  /\ \/ Fresh /\ FetchEnds(c, cache.doc, "ok") /\ cache' = [cache EXCEPT !.at = now]
     \/ ~Fresh /\ Attempt(c, 0) /\ UNCHANGED cache
  /\ UNCHANGED <<now, published, replaced, relaxed>>

(* fetch_with: the cached document, as it is, or the first attempt.        *)
Lookup(c) ==
  /\ fetch[c].pc = "idle"
  /\ \/ Fresh /\ FetchEnds(c, cache.doc, "ok")
     \/ ~Fresh /\ Attempt(c, 0)
  /\ UNCHANGED <<now, published, replaced, relaxed, cache>>

(* The provider answers; the document is on its way for a while.           *)
Serve(c) ==
  /\ fetch[c].pc = "attempt" /\ fetch[c].doc = 0
  /\ fetch' = [fetch EXCEPT ![c].doc = published]
  /\ UNCHANGED <<now, published, replaced, relaxed, cache>>

(* Mutant: the document is cached before it is validated.                  *)
ReceiveUnvalidated(c) ==
  LET doc == fetch[c].doc IN
    /\ fetch[c].pc = "attempt" /\ doc # 0
    /\ cache' = [doc |-> doc, at |-> now]
    /\ FetchEnds(c, doc, IF ValidateWith(doc, c \in OptedIn) THEN "ok" ELSE "failed")
    /\ UNCHANGED <<now, published, replaced, relaxed>>

(* The document arrives: validate_with, then the insert.  One that does    *)
(* not validate ends the call, with no further attempt.                    *)
Receive(c) ==
  LET doc == fetch[c].doc IN
    /\ fetch[c].pc = "attempt" /\ doc # 0
    /\ \/ /\ ValidateWith(doc, c \in OptedIn)
          /\ cache' = [doc |-> doc, at |-> now]
          /\ relaxed' = IF doc \in Usable THEN relaxed
                        ELSE relaxed \cup {[doc |-> doc, at |-> now]}
          /\ FetchEnds(c, doc, "ok")
       \/ /\ ~ValidateWith(doc, c \in OptedIn)
          /\ FetchEnds(c, 0, "failed")
          /\ UNCHANGED <<relaxed, cache>>
    /\ UNCHANGED <<now, published, replaced>>

(* fetch_once fails: a 4xx ends the call; offline, a network error, any    *)
(* other status or a body that does not parse is retried after a pause,    *)
(* but for the last attempt.                                               *)
AttemptFails(c) ==
  /\ fetch[c].pc = "attempt"
  /\ \/ FetchEnds(c, 0, "failed")
     \/ /\ fetch[c].attempt < MaxRetries
        /\ fetch' = [fetch EXCEPT ![c].pc = "sleep"]
  /\ UNCHANGED <<now, published, replaced, relaxed, cache>>

(* Mutant: the attempt is not counted.                                     *)
WakeUncounted(c) ==
  /\ fetch[c].pc = "sleep"
  /\ Attempt(c, fetch[c].attempt)
  /\ UNCHANGED <<now, published, replaced, relaxed, cache>>

(* The pause is over: the next attempt.                                    *)
Wake(c) ==
  /\ fetch[c].pc = "sleep"
  /\ Attempt(c, fetch[c].attempt + 1)
  /\ UNCHANGED <<now, published, replaced, relaxed, cache>>

(* The handler goes on with its answer, or is dropped at an await.         *)
FetchReply(c) ==
  /\ fetch[c].pc # "idle"
  /\ fetch' = [fetch EXCEPT ![c] = NoFetch]
  /\ UNCHANGED <<now, published, replaced, relaxed, cache>>

Proceed(c) == Receive(c) \/ AttemptFails(c) \/ Wake(c)

DiscoveryNext ==
  \/ DiscoveryTick \/ Publish
  \/ \E c \in Caller : Lookup(c) \/ Serve(c) \/ Proceed(c) \/ FetchReply(c)

DiscoverySpec == DiscoveryInit /\ [][DiscoveryNext]_discoveryVars

(* The HTTP client's timeout ends every attempt and the pauses are finite. *)
(* The timeout of the whole request is not counted on.                     *)
DiscoveryFairSpec ==
  DiscoverySpec /\ \A c \in Caller : WF_discoveryVars(Proceed(c))
-----------------------------------------------------------------------------
(* A document a login works with was the provider's current one at most a  *)
(* TTL and one HTTP timeout ago, although concurrent misses may overwrite  *)
(* a newer document with an older one (discovery.rs 128-142).  A TTL of    *)
(* zero caches nothing; the timeout remains.                               *)
UsedDocRecent ==
  \A c \in Caller :
    fetch[c].ans = "ok" /\ replaced[fetch[c].doc] # Never =>
      fetch[c].at < replaced[fetch[c].doc] + Timeout + (IF Ttl = 0 THEN 1 ELSE Ttl)

(* A caller is given only documents that validate for its own provider,    *)
(* with one exception, the code's: for one TTL after a load for a provider *)
(* that opted in to plain HTTP, the providers that share its discovery_url *)
(* and did not opt in are served that document from the cache, unvalidated *)
(* (discovery.rs 128-130).  Without such a provider no caller ever works   *)
(* with a document that did not validate.                                  *)
OnlyValidatedServed ==
  \A c \in Caller :
    fetch[c].ans = "ok" =>
      \/ ValidateWith(fetch[c].doc, c \in OptedIn)
      \/ \E load \in relaxed :
           /\ load.doc = fetch[c].doc
           /\ load.at <= fetch[c].at /\ fetch[c].at < load.at + Ttl

(* Every call comes to an answer, whatever the provider does.              *)
FetchComesBack ==
  \A c \in Caller : (fetch[c].pc = "attempt") ~> (fetch[c].pc \in {"reply", "idle"})

=============================================================================
