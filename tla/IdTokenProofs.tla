--------------------------- MODULE IdTokenProofs ----------------------------
(***************************************************************************)
(* For every number of providers, of verifications at once and of key      *)
(* rotations, and for every TTL and timeout, no key is trusted for longer  *)
(* than the greatest TTL and one timeout after its provider withdrew it.   *)
(***************************************************************************)
EXTENDS IdToken, FiniteSetTheorems, WellFoundedInduction, TLAPS

(* A set of numbers that is not empty has a least one.                     *)
LEMMA LeastNumber ==
  ASSUME NEW T \in SUBSET Nat, T # {}
  PROVE  \E m \in T : \A n \in T : m <= n
<1> DEFINE Less == {ss \in Nat \X Nat : ss[1] < ss[2]}
<1>1. IsWellFoundedOn(Less, Nat)
  BY NatLessThanWellFounded, Zenon DEF OpToRel
<1>2. PICK m \in T : \A n \in T : ~(<<n, m>> \in Less)
  <2> HIDE DEF Less
  <2> QED
    BY <1>1, WFMin
<1>3. ASSUME NEW n \in T PROVE m <= n
  <2>1. m \in Nat /\ n \in Nat
    OBVIOUS
  <2>2. <<n, m>> \in Nat \X Nat /\ <<n, m>>[1] = n /\ <<n, m>>[2] = m
    BY <2>1
  <2>3. ~(n < m)
    BY <1>2, <2>2, Zenon
  <2> QED
    BY <2>1, <2>3
<1> QED
  BY <1>3

(* A function from a finite set that is not empty to the numbers takes its *)
(* greatest value somewhere: the smallest set on which one did not would   *)
(* have an element whose removal leaves another.                           *)
LEMMA GreatestValue ==
  ASSUME NEW P, IsFiniteSet(P), P # {}, NEW f \in [P -> Nat]
  PROVE  \E q \in P : \A p \in P : f[p] <= f[q]
<1> DEFINE Peak(X) == \E q \in X : \A p \in X : f[p] <= f[q]
           Bad == {X \in SUBSET P : X # {} /\ ~Peak(X)}
           Sizes == {Cardinality(X) : X \in Bad}
<1>1. SUFFICES ASSUME P \in Bad PROVE FALSE
  OBVIOUS
<1>2. \A X \in Bad : IsFiniteSet(X) /\ Cardinality(X) \in Nat
  BY FS_Subset, FS_CardinalityType
<1>3. Sizes \in SUBSET Nat /\ Sizes # {}
  BY <1>1, <1>2
<1>4. PICK k \in Sizes : \A n \in Sizes : k <= n
  <2> HIDE DEF Sizes
  <2> QED
    BY <1>3, LeastNumber
<1>5. PICK X \in Bad : Cardinality(X) = k
  OBVIOUS
<1>6. PICK x \in X : TRUE
  OBVIOUS
<1>7. Cardinality(X \ {x}) = k - 1 /\ k \in Nat
  BY <1>2, <1>3, <1>5, FS_RemoveElement
<1>8. X \ {x} \notin Bad
  <2>1. X \ {x} \in Bad => k <= Cardinality(X \ {x})
    BY <1>4
  <2> QED
    BY <2>1, <1>7
<1>9. CASE X \ {x} = {}
  <2>1. X = {x} /\ f[x] \in Nat
    BY <1>9
  <2>2. Peak(X)
    BY <2>1
  <2> QED
    BY <2>2
<1>10. CASE X \ {x} # {}
  <2>1. PICK q \in X \ {x} : \A p \in X \ {x} : f[p] <= f[q]
    BY <1>8, <1>10
  <2>2. \A p \in X : f[p] \in Nat
    OBVIOUS
  <2>3. CASE f[x] <= f[q]
    <3>1. \A p \in X : f[p] <= f[q]
      BY <2>1, <2>3
    <3> QED
      BY <3>1
  <2>4. CASE f[q] <= f[x]
    <3>1. \A p \in X : f[p] <= f[x]
      BY <2>1, <2>2, <2>4
    <3> QED
      BY <3>1
  <2> QED
    BY <2>2, <2>3, <2>4
<1> QED
  BY <1>9, <1>10

(* What Max is of a set that has a greatest element.                       *)
LEMMA MaxIsGreatest ==
  ASSUME NEW S \in SUBSET Nat, NEW m \in S, \A y \in S : y <= m
  PROVE  Max(S) = m
<1>1. m >= m /\ \A y \in S : m >= y
  OBVIOUS
<1>2. Max(S) \in S /\ \A y \in S : Max(S) >= y
  <2>1. \E x \in S : \A y \in S : x >= y
    BY <1>1
  <2> QED
    BY <2>1, Zenon DEF Max
<1>3. Max(S) \in Nat /\ m \in Nat /\ Max(S) >= m /\ Max(S) <= m
  BY <1>2
<1> QED
  BY <1>3

(* The same with one more number in the set.                               *)
LEMMA MaxWithOneMore ==
  ASSUME NEW S \in SUBSET Nat, NEW m \in S, \A y \in S : y <= m, NEW n \in Nat
  PROVE  Max(S \cup {n}) = IF n <= m THEN m ELSE n
<1>1. CASE n <= m
  <2>1. S \cup {n} \in SUBSET Nat /\ m \in S \cup {n} /\ \A y \in S \cup {n} : y <= m
    BY <1>1
  <2> QED
    BY <2>1, <1>1, MaxIsGreatest
<1>2. CASE ~(n <= m)
  <2>1. S \cup {n} \in SUBSET Nat /\ n \in S \cup {n} /\ \A y \in S \cup {n} : y <= n
    BY <1>2
  <2> QED
    BY <2>1, <1>2, MaxIsGreatest
<1> QED
  BY <1>1, <1>2

(* The second's minimum of new() is below the floor of from_config.        *)
LEMMA TtlIsGreatest ==
  /\ JwksTtl \in Nat /\ JwksTtl >= 1
  /\ Max({CacheTtl[p] : p \in Provider} \cup {Floor}) = JwksTtl
<1> DEFINE Ttls == {CacheTtl[p] : p \in Provider}
<1>1. PICK q \in Provider : \A p \in Provider : CacheTtl[p] <= CacheTtl[q]
  BY JwksAssumption, GreatestValue
<1>2. /\ Ttls \in SUBSET Nat /\ CacheTtl[q] \in Ttls
      /\ \A y \in Ttls : y <= CacheTtl[q]
  BY <1>1, JwksAssumption
<1>3. Floor \in Nat /\ Floor >= 1
  BY JwksAssumption
<1> HIDE DEF Ttls
<1>4. Max(Ttls \cup {Floor}) = IF Floor <= CacheTtl[q] THEN CacheTtl[q] ELSE Floor
  BY <1>2, <1>3, MaxWithOneMore
<1> DEFINE top == IF Floor <= CacheTtl[q] THEN CacheTtl[q] ELSE Floor
<1>5. /\ top \in Ttls \cup {Floor, 1} /\ \A y \in Ttls \cup {Floor, 1} : y <= top
      /\ Ttls \cup {Floor, 1} \in SUBSET Nat /\ top >= 1 /\ top \in Nat
  <2>1. CacheTtl[q] \in Nat
    BY JwksAssumption
  <2>2. CASE Floor <= CacheTtl[q]
    <3>1. top = CacheTtl[q]
      BY <2>2
    <3> QED
      BY <3>1, <2>1, <2>2, <1>2, <1>3
  <2>3. CASE ~(Floor <= CacheTtl[q])
    <3>1. top = Floor
      BY <2>3
    <3> QED
      BY <3>1, <2>1, <2>3, <1>2, <1>3
  <2> QED
    BY <2>2, <2>3
<1>6. Max(Ttls \cup {Floor, 1}) = top
  <2> HIDE DEF top
  <2> QED
    BY <1>5, MaxIsGreatest
<1> QED
  BY <1>4, <1>5, <1>6 DEF JwksTtl, Ttls

(* The versions are an initial segment that holds those of each provider.  *)
LEMMA VersionsCover ==
  /\ \A v \in Version : v \in Nat /\ v >= 1
  /\ \A v \in Version : \A w \in 1 .. v : w \in Version
  /\ \A p \in Provider : MaxVersion[p] \in Version
<1> DEFINE Tops == {MaxVersion[p] : p \in Provider}
<1>1. PICK q \in Provider : \A p \in Provider : MaxVersion[p] <= MaxVersion[q]
  <2>1. MaxVersion \in [Provider -> Nat]
    BY JwksAssumption
  <2> QED
    BY <2>1, JwksAssumption, GreatestValue
<1>2. /\ Tops \in SUBSET Nat /\ MaxVersion[q] \in Tops
      /\ \A y \in Tops : y <= MaxVersion[q]
  BY <1>1, JwksAssumption
<1>3. Max(Tops) = MaxVersion[q]
  <2> HIDE DEF Tops
  <2> QED
    BY <1>2, MaxIsGreatest
<1>4. Version = 1 .. MaxVersion[q]
  BY <1>3 DEF Version
<1> QED
  BY <1>1, <1>4, JwksAssumption

-----------------------------------------------------------------------------
(* A provider's sets are replaced in the order of their versions, the      *)
(* present one not yet; Never lies beyond the clock.                       *)
RotationsSound ==
  /\ now \in Nat /\ now <= MaxTime
  /\ keys \in [Provider -> Version]
  /\ replaced \in [Provider -> [Version -> Nat]]
  /\ \A p \in Provider :
       /\ keys[p] <= MaxVersion[p]
       /\ \A v \in Version :
            replaced[p][v] <= Never /\ (v >= keys[p] => replaced[p][v] = Never)
       /\ \A v \in Version : v < keys[p] => replaced[p][v] <= now
       /\ \A v, w \in Version : v <= w => replaced[p][v] <= replaced[p][w]

(* A cached set came at most a timeout after it was replaced.              *)
CacheSound ==
  /\ cache \in [Provider -> [set : {0} \cup Version, at : Nat]]
  /\ \A p \in Provider : cache[p].set # 0 =>
       /\ cache[p].set <= keys[p] /\ cache[p].at <= now
       /\ cache[p].at <= replaced[p][cache[p].set] + Timeout

(* A load under way is no older than the timeout and brings a set that was *)
(* current when it was sent or later; a set handed over was still          *)
(* published at most a TTL and a timeout before.                           *)
VerifySound(v) ==
  /\ v \in VerifyState
  /\ v.pc \in {"fetch", "join"} => v.set = 0
  /\ v.pc = "lead" =>
       /\ v.at <= now /\ now <= v.at + Timeout
       /\ v.set # 0 => v.set <= keys[v.provider] /\ v.at <= replaced[v.provider][v.set]
  /\ v.pc = "reply" /\ v.ans = "ok" =>
       /\ v.set # 0 /\ v.set <= keys[v.provider] /\ v.at <= now
       /\ v.at < replaced[v.provider][v.set] + JwksTtl + Timeout

IdTokenInv ==
  /\ RotationsSound
  /\ CacheSound
  /\ verify \in [Caller -> VerifyState]
  /\ \A c \in Caller : VerifySound(verify[c])

LEMMA NoVerifySound ==
  /\ NoVerify \in VerifyState /\ NoVerify.pc = "idle" /\ NoVerify.set = 0
  /\ \A pc \in {"idle", "fetch", "accepted", "refused"}, p \in Provider :
       LET v == [NoVerify EXCEPT !.pc = pc, !.provider = p]
           w == [NoVerify EXCEPT !.pc = pc]
       IN  VerifySound(v) /\ VerifySound(w)
  /\ VerifySound(NoVerify)
<1>1. (CHOOSE p \in Provider : TRUE) \in Provider
  BY JwksAssumption
<1>2. NoVerify \in VerifyState /\ NoVerify.pc = "idle" /\ NoVerify.set = 0
  BY <1>1 DEF NoVerify, VerifyState
<1> QED
  BY <1>2 DEF VerifySound, VerifyState

(* A step of verifications alone keeps the invariant when it leaves each   *)
(* of them, and the cache, sound.                                          *)
LEMMA VerifyOnly ==
  ASSUME IdTokenInv, UNCHANGED <<now, keys, replaced>>, CacheSound',
         DOMAIN verify' = Caller, verify' = [c \in Caller |-> verify'[c]],
         \A c \in Caller : VerifySound(verify'[c])
  PROVE  IdTokenInv'
<1>1. RotationsSound'
  BY DEF IdTokenInv, RotationsSound
<1>2. verify' \in [Caller -> VerifyState]
  BY DEF VerifySound
<1>3. \A c \in Caller : VerifySound(verify[c])'
  BY DEF VerifySound
<1> QED
  BY <1>1, <1>2, <1>3 DEF IdTokenInv

(* One verification moves to the state v.                                  *)
LEMMA VerifyMoves ==
  ASSUME IdTokenInv, UNCHANGED <<now, keys, replaced, cache>>,
         NEW c \in Caller, NEW v, VerifySound(v), verify' = [verify EXCEPT ![c] = v]
  PROVE  IdTokenInv'
<1>1. DOMAIN verify' = Caller /\ verify' = [d \in Caller |-> verify'[d]]
  BY DEF IdTokenInv
<1>2. \A d \in Caller : VerifySound(verify'[d])
  BY DEF IdTokenInv
<1>3. CacheSound'
  BY DEF IdTokenInv, CacheSound
<1> QED
  BY <1>1, <1>2, <1>3, VerifyOnly

(* A set that is handed over: what it takes to be sound.                   *)
LEMMA GivenSound ==
  ASSUME IdTokenInv, NEW c \in Caller, NEW set \in {0} \cup Version,
         NEW answer \in {"ok", "failed"},
         answer = "ok" =>
           /\ set # 0 /\ set <= keys[verify[c].provider]
           /\ now < replaced[verify[c].provider][set] + JwksTtl + Timeout
  PROVE  VerifySound(Given(c, set, answer))
<1>1. verify[c] \in VerifyState /\ now \in Nat
  BY DEF IdTokenInv, RotationsSound
<1> DEFINE g == Given(c, set, answer)
<1>2. /\ g \in VerifyState /\ g.pc = "reply" /\ g.set = set /\ g.at = now
      /\ g.ans = answer /\ g.provider = verify[c].provider
  BY <1>1 DEF Given, VerifyState
<1>3. SUFFICES VerifySound(g)
  OBVIOUS
<1> HIDE DEF g
<1> QED
  BY <1>1, <1>2 DEF VerifySound

(* A load's result is shared: each that gets it is sound.                  *)
LEMMA SharedSound ==
  ASSUME IdTokenInv, UNCHANGED <<now, keys, replaced>>, CacheSound', NEW c \in Caller,
         NEW set \in {0} \cup Version, NEW answer \in {"ok", "failed"},
         answer = "ok" =>
           /\ set # 0 /\ set <= keys[verify[c].provider]
           /\ now < replaced[verify[c].provider][set] + JwksTtl + Timeout,
         Shared(c, set, answer)
  PROVE  IdTokenInv'
<1>1. DOMAIN verify' = Caller /\ verify' = [d \in Caller |-> verify'[d]]
  BY DEF Shared
<1>2. ASSUME NEW d \in Caller PROVE VerifySound(verify'[d])
  <2>1. CASE \/ d = c
             \/ verify[d].pc = "join" /\ verify[d].provider = verify[c].provider
    <3>1. verify'[d] = Given(d, set, answer) /\ verify[d].provider = verify[c].provider
      BY <2>1 DEF Shared
    <3> QED
      BY <3>1, GivenSound
  <2>2. CASE ~(\/ d = c
               \/ verify[d].pc = "join" /\ verify[d].provider = verify[c].provider)
    <3>1. verify'[d] = verify[d]
      BY <2>2 DEF Shared
    <3> QED
      BY <3>1 DEF IdTokenInv
  <2> QED
    BY <2>1, <2>2
<1> QED
  BY <1>1, <1>2, VerifyOnly

LEMMA IdTokenInvInit == JwksInit => IdTokenInv
<1> SUFFICES ASSUME JwksInit PROVE IdTokenInv
  OBVIOUS
<1>1. Never \in Nat /\ Never > MaxTime
  BY JwksAssumption DEF Never
<1>2. RotationsSound
  <2>1. 1 \in Version /\ \A p \in Provider : MaxVersion[p] \in Nat /\ 1 <= MaxVersion[p]
    BY VersionsCover, JwksAssumption
  <2>2. \A v \in Version : v \in Nat /\ v >= 1
    BY VersionsCover
  <2> HIDE DEF Version
  <2> QED
    BY <1>1, <2>1, <2>2, JwksAssumption DEF JwksInit, RotationsSound
<1>3. CacheSound
  BY DEF JwksInit, CacheSound
<1>4. verify \in [Caller -> VerifyState] /\ \A c \in Caller : VerifySound(verify[c])
  BY NoVerifySound DEF JwksInit
<1> QED
  BY <1>2, <1>3, <1>4 DEF IdTokenInv

LEMMA TickKeeps == IdTokenInv /\ JwksTick => IdTokenInv'
<1> SUFFICES ASSUME IdTokenInv, JwksTick PROVE IdTokenInv'
  OBVIOUS
<1>1. now \in Nat /\ MaxTime \in Nat /\ Timeout \in Nat /\ now' = now + 1 /\ now' <= MaxTime
  BY JwksAssumption DEF IdTokenInv, RotationsSound, JwksTick
<1>2. UNCHANGED <<keys, replaced, cache, verify>>
  BY DEF JwksTick
<1>3. RotationsSound'
  BY <1>1, <1>2, VersionsCover DEF IdTokenInv, RotationsSound
<1>4. CacheSound'
  BY <1>1, <1>2 DEF IdTokenInv, CacheSound
<1>5. ASSUME NEW c \in Caller PROVE VerifySound(verify[c])'
  <2> DEFINE v == verify[c]
  <2>1. VerifySound(v) /\ v.at \in Nat /\ v' = v
    BY <1>2 DEF IdTokenInv, VerifyState
  <2>2. v.pc = "lead" => now < v.at + Timeout
    BY DEF JwksTick
  <2> QED
    BY <2>1, <2>2, <1>1, <1>2 DEF VerifySound
<1> QED
  BY <1>2, <1>3, <1>4, <1>5 DEF IdTokenInv

(* What a rotation leaves and changes of the history, and that it moves    *)
(* nothing before the present.                                             *)
LEMMA RotationKeeps ==
  ASSUME IdTokenInv, NEW p \in Provider, RotateKeys(p)
  PROVE  IdTokenInv'
<1>1. /\ now \in Nat /\ now <= MaxTime /\ MaxTime \in Nat /\ Timeout \in Nat
      /\ Never = MaxTime + 1 /\ Never \in Nat
  BY JwksAssumption DEF IdTokenInv, RotationsSound, Never
<1>2. /\ keys \in [Provider -> Version] /\ replaced \in [Provider -> [Version -> Nat]]
      /\ RotationsSound
  BY DEF IdTokenInv, RotationsSound
<1> DEFINE k == keys[p]
<1>3. /\ k \in Version /\ k + 1 \in Version /\ k + 1 <= MaxVersion[p] /\ k \in Nat
      /\ k = keys[p]
  BY <1>2, VersionsCover, JwksAssumption DEF RotateKeys
<1>4. /\ keys' = [keys EXCEPT ![p] = k + 1]
      /\ replaced' = [replaced EXCEPT ![p] = [replaced[p] EXCEPT ![k] = now]]
      /\ UNCHANGED <<now, cache, verify>>
  BY DEF RotateKeys
<1>5. keys' \in [Provider -> Version] /\ replaced' \in [Provider -> [Version -> Nat]]
  BY <1>1, <1>2, <1>3, <1>4
<1>6. \A q \in Provider :
        /\ keys'[q] = IF q = p THEN k + 1 ELSE keys[q]
        /\ \A v \in Version :
             replaced'[q][v] = IF q = p /\ v = k THEN now ELSE replaced[q][v]
  BY <1>2, <1>3, <1>4
<1>7. \A v \in Version : v \in Nat
  BY VersionsCover
<1> HIDE DEF k
<1>8. \A q \in Provider, v \in Version : v <= keys[q] =>
        /\ v <= keys'[q]
        /\ replaced'[q][v] = replaced[q][v] \/ replaced'[q][v] = now
  BY <1>2, <1>3, <1>6, <1>7
<1>9. RotationsSound'
  <2>1. ASSUME NEW q \in Provider PROVE keys'[q] <= MaxVersion[q]
    BY <1>2, <1>3, <1>6 DEF RotationsSound
  <2>2. ASSUME NEW q \in Provider, NEW v \in Version
        PROVE  /\ replaced'[q][v] <= Never
               /\ v >= keys'[q] => replaced'[q][v] = Never
               /\ v < keys'[q] => replaced'[q][v] <= now
    <3>1. /\ replaced[q][v] <= Never /\ (v >= keys[q] => replaced[q][v] = Never)
          /\ v < keys[q] => replaced[q][v] <= now
      BY <1>2 DEF RotationsSound
    <3>2. CASE q = p
      BY <3>1, <3>2, <1>1, <1>3, <1>6, <1>7
    <3>3. CASE q # p
      BY <3>1, <3>3, <1>6
    <3> QED
      BY <3>2, <3>3
  <2>3. ASSUME NEW q \in Provider, NEW v \in Version, NEW w \in Version, v <= w
        PROVE  replaced'[q][v] <= replaced'[q][w]
    <3>1. /\ replaced[q][v] <= replaced[q][w] /\ v \in Nat /\ w \in Nat
          /\ replaced[q][v] \in Nat /\ replaced[q][w] \in Nat
      BY <2>3, <1>2, <1>7 DEF RotationsSound
    <3>2. (v < keys[q] => replaced[q][v] <= now) /\ (w >= keys[q] => replaced[q][w] = Never)
      BY <1>2 DEF RotationsSound
    <3>3. CASE q = p /\ v = k
      BY <3>1, <3>2, <3>3, <2>3, <1>1, <1>3, <1>6
    <3>4. CASE q = p /\ w = k /\ v # k
      BY <3>1, <3>2, <3>4, <2>3, <1>1, <1>3, <1>6
    <3>5. CASE ~(q = p /\ v = k) /\ ~(q = p /\ w = k)
      BY <3>1, <3>5, <1>6
    <3> QED
      BY <3>3, <3>4, <3>5
  <2> QED
    BY <2>1, <2>2, <2>3, <1>1, <1>4, <1>5 DEF RotationsSound
<1>10. CacheSound'
  <2>1. ASSUME NEW q \in Provider, cache[q].set # 0
        PROVE  /\ cache[q].set <= keys'[q] /\ cache[q].at <= now
               /\ cache[q].at <= replaced'[q][cache[q].set] + Timeout
    <3>1. /\ cache[q].set \in Version /\ cache[q].set <= keys[q] /\ cache[q].at <= now
          /\ cache[q].at <= replaced[q][cache[q].set] + Timeout /\ cache[q].at \in Nat
      BY <2>1 DEF IdTokenInv, CacheSound
    <3> QED
      BY <3>1, <1>1, <1>8
  <2> QED
    BY <2>1, <1>4 DEF IdTokenInv, CacheSound
<1>11. ASSUME NEW c \in Caller PROVE VerifySound(verify[c])'
  <2>1. PICK v : v = verify[c]
    OBVIOUS
  <2>2. /\ VerifySound(v) /\ v \in VerifyState /\ v.at \in Nat /\ v.provider \in Provider
        /\ v.set \in {0} \cup Version
    BY <2>1 DEF IdTokenInv, VerifyState
  <2>3. JwksTtl \in Nat /\ JwksTtl >= 1
    BY TtlIsGreatest
  <2>4. v.pc = "lead" /\ v.set # 0 =>
          v.set <= keys'[v.provider] /\ v.at <= replaced'[v.provider][v.set]
    BY <2>2, <1>1, <1>8 DEF VerifySound
  <2>5. v.pc = "reply" /\ v.ans = "ok" =>
          /\ v.set <= keys'[v.provider]
          /\ v.at < replaced'[v.provider][v.set] + JwksTtl + Timeout
    BY <2>2, <2>3, <1>1, <1>8 DEF VerifySound
  <2>6. verify'[c] = v /\ now' = now
    BY <2>1, <1>4
  <2> QED
    BY <2>2, <2>4, <2>5, <2>6 DEF VerifySound
<1> QED
  BY <1>9, <1>10, <1>11, <1>4 DEF IdTokenInv

LEMMA FetchKeeps ==
  ASSUME IdTokenInv, NEW c \in Caller, Fetch(c)
  PROVE  IdTokenInv'
<1> DEFINE p == verify[c].provider
<1>1. /\ verify[c] \in VerifyState /\ verify[c].pc = "fetch" /\ verify[c].set = 0
      /\ p \in Provider /\ verify[c] = verify[c]
  BY DEF Fetch, IdTokenInv, VerifySound, VerifyState
<1>2. /\ now \in Nat /\ Timeout \in Nat /\ JwksTtl \in Nat
      /\ UNCHANGED <<now, keys, replaced, cache>>
  BY JwksAssumption, TtlIsGreatest DEF IdTokenInv, RotationsSound, Fetch
<1>3. CASE Fresh(p)
  <2>1. verify' = [verify EXCEPT ![c] = Given(c, cache[p].set, "ok")]
    BY <1>3 DEF Fetch
  <2>2. /\ cache[p].set \in Version /\ cache[p].set # 0 /\ cache[p].set <= keys[p]
        /\ cache[p].at <= replaced[p][cache[p].set] + Timeout /\ cache[p].at \in Nat
        /\ replaced[p][cache[p].set] \in Nat /\ now < cache[p].at + JwksTtl
    BY <1>1, <1>3 DEF Fresh, IdTokenInv, CacheSound, RotationsSound
  <2>3. now < replaced[p][cache[p].set] + JwksTtl + Timeout
    BY <2>2, <1>2
  <2>4. VerifySound(Given(c, cache[p].set, "ok"))
    BY <2>2, <2>3, GivenSound
  <2> QED
    BY <2>1, <2>4, <1>2, VerifyMoves
<1>4. CASE ~Fresh(p)
  <2> DEFINE v == [verify[c] EXCEPT
                     !.pc = IF Leaders(p) = {} THEN "lead" ELSE "join", !.at = now]
  <2>1. verify' = [verify EXCEPT ![c] = v]
    BY <1>4 DEF Fetch
  <2>2. /\ v \in VerifyState /\ v.pc \in {"lead", "join"} /\ v.set = 0 /\ v.at = now
    BY <1>1, <1>2 DEF VerifyState
  <2> HIDE DEF v
  <2>3. VerifySound(v)
    BY <2>2, <1>2 DEF VerifySound
  <2> QED
    BY <2>1, <2>3, <1>2, VerifyMoves
<1> QED
  BY <1>3, <1>4

LEMMA ServeKeysKeeps ==
  ASSUME IdTokenInv, NEW c \in Caller, ServeKeys(c)
  PROVE  IdTokenInv'
<1> DEFINE p == verify[c].provider
           v == [verify[c] EXCEPT !.set = keys[p]]
<1>1. /\ verify[c] \in VerifyState /\ verify[c].pc = "lead" /\ VerifySound(verify[c])
      /\ p \in Provider /\ verify[c].at \in Nat /\ keys[p] \in Version
  BY DEF ServeKeys, IdTokenInv, RotationsSound, VerifyState
<1>2. verify' = [verify EXCEPT ![c] = v] /\ UNCHANGED <<now, keys, replaced, cache>>
  BY DEF ServeKeys
<1>3. /\ now \in Nat /\ now <= MaxTime /\ MaxTime \in Nat /\ keys[p] \in Nat
      /\ replaced[p][keys[p]] = Never /\ Never = MaxTime + 1
  BY <1>1, VersionsCover, JwksAssumption DEF IdTokenInv, RotationsSound, Never
<1>4. /\ v \in VerifyState /\ v.pc = "lead" /\ v.set = keys[p] /\ v.at = verify[c].at
      /\ v.provider = p
  BY <1>1 DEF VerifyState
<1>5. SUFFICES VerifySound(v)
  BY <1>2, VerifyMoves
<1>6. /\ verify[c].at <= now /\ now <= verify[c].at + Timeout
      /\ verify[c].at <= replaced[p][keys[p]] /\ keys[p] <= keys[p]
  BY <1>1, <1>3 DEF VerifySound
<1> HIDE DEF v
<1> QED
  BY <1>4, <1>6 DEF VerifySound

LEMMA LoadedKeeps ==
  ASSUME IdTokenInv, NEW c \in Caller, Loaded(c)
  PROVE  IdTokenInv'
<1> DEFINE p == verify[c].provider
           set == verify[c].set
<1>1. /\ verify[c] \in VerifyState /\ verify[c].pc = "lead" /\ VerifySound(verify[c])
      /\ p \in Provider /\ verify[c].at \in Nat /\ set \in Version /\ set # 0
  BY DEF Loaded, IdTokenInv, VerifyState
<1>2. /\ now \in Nat /\ Timeout \in Nat /\ JwksTtl \in Nat /\ JwksTtl >= 1
      /\ UNCHANGED <<now, keys, replaced>> /\ replaced[p][set] \in Nat
  BY <1>1, JwksAssumption, TtlIsGreatest DEF IdTokenInv, RotationsSound, Loaded
<1>3. /\ set <= keys[p] /\ verify[c].at <= replaced[p][set]
      /\ now <= verify[c].at + Timeout
  BY <1>1 DEF VerifySound
<1>4. now <= replaced[p][set] + Timeout /\ now < replaced[p][set] + JwksTtl + Timeout
  BY <1>1, <1>2, <1>3
<1>5. CacheSound'
  <2>1. PICK e : e = [set |-> set, at |-> now]
    OBVIOUS
  <2>2. /\ e \in [set : {0} \cup Version, at : Nat] /\ e.at = now
        /\ e.set = set /\ cache' = [cache EXCEPT ![p] = e]
    BY <2>1, <1>1, <1>2 DEF Loaded
  <2>3. cache' \in [Provider -> [set : {0} \cup Version, at : Nat]]
    BY <2>2 DEF IdTokenInv, CacheSound
  <2>4. ASSUME NEW q \in Provider, cache'[q].set # 0
        PROVE  /\ cache'[q].set <= keys[q] /\ cache'[q].at <= now
               /\ cache'[q].at <= replaced[q][cache'[q].set] + Timeout
    <3>1. CASE q = p
      <4>1. cache'[q] = e
        BY <3>1, <2>2 DEF IdTokenInv, CacheSound
      <4> QED
        BY <4>1, <3>1, <2>2, <1>2, <1>3, <1>4
    <3>2. CASE q # p
      <4>1. cache'[q] = cache[q]
        BY <3>2, <2>2 DEF IdTokenInv, CacheSound
      <4> QED
        BY <4>1, <2>4 DEF IdTokenInv, CacheSound
    <3> QED
      BY <3>1, <3>2
  <2> QED
    BY <2>3, <2>4, <1>2 DEF CacheSound
<1>6. Shared(c, set, "ok")
  BY DEF Loaded
<1> QED
  BY <1>1, <1>2, <1>3, <1>4, <1>5, <1>6, SharedSound

LEMMA AbandonKeeps ==
  ASSUME IdTokenInv, NEW c \in Caller, VerifyAbandon(c)
  PROVE  IdTokenInv'
<1>1. /\ DOMAIN verify' = Caller /\ verify' = [d \in Caller |-> verify'[d]]
      /\ UNCHANGED <<now, keys, replaced, cache>>
  BY DEF VerifyAbandon
<1>2. CacheSound'
  BY <1>1 DEF IdTokenInv, CacheSound
<1>3. ASSUME NEW d \in Caller PROVE VerifySound(verify'[d])
  <2>1. VerifySound(verify[d])
    BY DEF IdTokenInv
  <2>2. PICK w : w = [verify[d] EXCEPT !.pc = "fetch", !.at = 0]
    OBVIOUS
  <2>3. verify[d].pc = "join" => VerifySound(w)
    <3>1. verify[d].pc = "join" => w \in VerifyState /\ w.pc = "fetch" /\ w.set = 0
      BY <2>1, <2>2 DEF VerifySound, VerifyState
    <3> QED
      BY <3>1 DEF VerifySound
  <2>4. \/ verify'[d] = NoVerify
        \/ verify'[d] = w /\ verify[d].pc = "join"
        \/ verify'[d] = verify[d]
    BY <2>2 DEF VerifyAbandon
  <2> QED
    BY <2>1, <2>3, <2>4, NoVerifySound
<1> QED
  BY <1>1, <1>2, <1>3, VerifyOnly

LEMMA IdTokenInvStep == IdTokenInv /\ [IdTokenNext]_jwksVars => IdTokenInv'
<1> SUFFICES ASSUME IdTokenInv, [IdTokenNext]_jwksVars PROVE IdTokenInv'
  OBVIOUS
<1>1. CASE UNCHANGED jwksVars
  BY <1>1 DEF jwksVars, IdTokenInv, RotationsSound, CacheSound, VerifySound
<1>2. CASE JwksTick
  BY <1>2, TickKeeps
<1>3. ASSUME NEW p \in Provider, RotateKeys(p) PROVE IdTokenInv'
  BY <1>3, RotationKeeps
<1>4. ASSUME NEW c \in Caller, VerifyStart(c) PROVE IdTokenInv'
  <2>1. PICK p \in Provider :
          verify' = [verify EXCEPT ![c] = [NoVerify EXCEPT !.pc = "fetch", !.provider = p]]
    BY <1>4 DEF VerifyStart
  <2>2. UNCHANGED <<now, keys, replaced, cache>>
    BY <1>4 DEF VerifyStart
  <2> QED
    BY <2>1, <2>2, NoVerifySound, VerifyMoves
<1>5. ASSUME NEW c \in Caller, Fetch(c) PROVE IdTokenInv'
  BY <1>5, FetchKeeps
<1>6. ASSUME NEW c \in Caller, ServeKeys(c) PROVE IdTokenInv'
  BY <1>6, ServeKeysKeeps
<1>7. ASSUME NEW c \in Caller, Loaded(c) PROVE IdTokenInv'
  BY <1>7, LoadedKeeps
<1>8. ASSUME NEW c \in Caller, LoadFails(c) PROVE IdTokenInv'
  <2>1. Shared(c, 0, "failed") /\ UNCHANGED <<now, keys, replaced, cache>>
    BY <1>8 DEF LoadFails
  <2>2. CacheSound'
    BY <2>1 DEF IdTokenInv, CacheSound
  <2> QED
    BY <2>1, <2>2, SharedSound
<1>9. ASSUME NEW c \in Caller, VerifyAbandon(c) PROVE IdTokenInv'
  BY <1>9, AbandonKeeps
<1>10. ASSUME NEW c \in Caller, VerifyDone(c) PROVE IdTokenInv'
  BY <1>10, NoVerifySound, VerifyMoves DEF VerifyDone
<1>11. ASSUME NEW c \in Caller, Decide(c) PROVE IdTokenInv'
  <2>1. PICK pc \in {"accepted", "refused"} :
          verify' = [verify EXCEPT ![c] = [NoVerify EXCEPT !.pc = pc]]
    BY <1>11 DEF Decide
  <2>2. UNCHANGED <<now, keys, replaced, cache>>
    BY <1>11 DEF Decide
  <2>3. PICK p \in Provider : TRUE
    BY JwksAssumption
  <2> QED
    BY <2>1, <2>2, <2>3, NoVerifySound, VerifyMoves
<1> QED
  BY <1>1, <1>2, <1>3, <1>4, <1>5, <1>6, <1>7, <1>8, <1>9, <1>10, <1>11
     DEF IdTokenNext, JwksNext

-----------------------------------------------------------------------------
LEMMA TokenValues ==
  ASSUME NEW p \in Provider, NEW t \in Token(p)
  PROVE  t.left \in Int /\ t.alg \in {"HS256"} \cup Alg
<1>1. PICK key \in Version :
        LET u == Plain(p, key) IN
          t \in {[u EXCEPT !.sub = FALSE], [u EXCEPT !.iss = FALSE],
                 [u EXCEPT !.aud = FALSE], [u EXCEPT !.nonce = FALSE]}
                  \cup {[u EXCEPT !.kid = kid] : kid \in Version}
                  \cup {[u EXCEPT !.alg = alg] : alg \in {"HS256"} \cup Alg}
                  \cup {[u EXCEPT !.kid = 0, !.alg = alg] : alg \in {"HS256"} \cup Alg}
                  \cup {[u EXCEPT !.left = n] : n \in {-Skew - 1, -Skew}}
                  \cup {[u EXCEPT !.ahead = n] : n \in {Skew, Skew + 1}}
                  \cup {[u EXCEPT !.early = n] : n \in {Skew, Skew + 1}}
  BY DEF Token
<1> DEFINE u == Plain(p, key)
<1>2. u.left = 1 /\ u.alg \in Alg /\ {"left", "alg"} \subseteq DOMAIN u
  BY DEF Plain, Alg
<1>3. -Skew - 1 \in Int /\ -Skew \in Int /\ 1 \in Int
  BY IdTokenAssumption
<1>4. /\ t \in {[u EXCEPT !.sub = FALSE], [u EXCEPT !.iss = FALSE],
                [u EXCEPT !.aud = FALSE], [u EXCEPT !.nonce = FALSE]}
              \cup {[u EXCEPT !.kid = kid] : kid \in Version}
              \cup {[u EXCEPT !.alg = alg] : alg \in {"HS256"} \cup Alg}
              \cup {[u EXCEPT !.kid = 0, !.alg = alg] : alg \in {"HS256"} \cup Alg}
              \cup {[u EXCEPT !.left = n] : n \in {-Skew - 1, -Skew}}
              \cup {[u EXCEPT !.ahead = n] : n \in {Skew, Skew + 1}}
              \cup {[u EXCEPT !.early = n] : n \in {Skew, Skew + 1}}
  BY <1>1
<1> HIDE DEF u
<1> QED
  BY <1>2, <1>3, <1>4

(* The key selected from a set is its newest or the one before, and        *)
(* matches the algorithm when no kid selects it.                           *)
LEMMA SelectedFromSet ==
  ASSUME NEW p, NEW set \in Version, NEW t, SelectKey(p, set, t) # 0
  PROVE  /\ SelectKey(p, set, t) \in {set, set - 1}
         /\ SelectKey(p, set, t) >= 1
         /\ t.kid = 0 => jwk_matches_alg(p, SelectKey(p, set, t), t.alg)
<1>1. set \in Nat /\ set >= 1
  BY VersionsCover
<1> DEFINE ks == KeySet(set)
           fits == {i \in DOMAIN ks : IF t.kid # 0 THEN ks[i] = t.kid
                                      ELSE jwk_matches_alg(p, ks[i], t.alg)}
           i == CHOOSE i \in fits : \A j \in fits : i <= j
<1>2. DOMAIN ks \subseteq {1, 2} /\ \A j \in DOMAIN ks : ks[j] \in {set, set - 1} /\ ks[j] >= 1
  BY <1>1 DEF KeySet
<1>3. fits # {} /\ SelectKey(p, set, t) = ks[i]
  BY DEF SelectKey
<1>4. \E m \in fits : \A j \in fits : m <= j
  <2>1. fits \in SUBSET Nat
    BY <1>2
  <2> HIDE DEF fits
  <2> QED
    BY <2>1, <1>3, LeastNumber
<1>5. i \in fits
  <2> HIDE DEF fits
  <2> QED
    BY <1>4, Zenon
<1>6. i \in DOMAIN ks /\ (t.kid = 0 => jwk_matches_alg(p, ks[i], t.alg))
  BY <1>5
<1> HIDE DEF i, ks
<1> QED
  BY <1>2, <1>3, <1>6

(* Whatever an ID-token verification (idtoken::verify) accepts with the    *)
(* keys the cache handed it is signed by an algorithm for its key's type,  *)
(* without a kid by the one the key declares, with a key that its          *)
(* provider published at most the greatest TTL and one timeout ago, and    *)
(* its claims hold within the skew: for any number of providers, rotations *)
(* and verifications at once, and any TTLs.                                *)
THEOREM WithdrawnKeysExpire == IdTokenSpec => []AcceptedTokenSound
<1>1. IdTokenInv => AcceptedTokenSound
  <2> SUFFICES ASSUME IdTokenInv, NEW c \in Caller,
                      verify[c].pc = "reply", verify[c].ans = "ok",
                      NEW t \in Token(verify[c].provider),
                      VerifyToken(verify[c].provider, verify[c].set, t)
               PROVE  LET v == verify[c]
                          when == Withdrawn(v.provider, t.key)
                          bound == Max({CacheTtl[p] : p \in Provider} \cup {Floor}) + Timeout
                          declared == KeyAlg[v.provider][t.key]
                      IN  /\ t.alg \in Alg /\ Family(t.alg) = Family(declared)
                          /\ t.kid = 0 /\ declared \in Alg => t.alg = declared
                          /\ when # Never => v.at < when + bound
                          /\ t.left + Skew >= 0 /\ t.ahead <= Skew /\ t.early <= Skew
                          /\ t.iss /\ t.aud /\ t.nonce
    BY DEF AcceptedTokenSound
  <2> DEFINE p == verify[c].provider
             set == verify[c].set
             at == verify[c].at
  <2>1. /\ p \in Provider /\ set \in Version /\ at \in Nat
        /\ at < replaced[p][set] + JwksTtl + Timeout
    BY DEF IdTokenInv, VerifySound, VerifyState
  <2>2. /\ t.key = SelectKey(p, set, t) /\ SelectKey(p, set, t) # 0
        /\ t.alg # "HS256" /\ Family(KeyAlg[p][t.key]) = Family(t.alg) /\ ClaimsHold(t)
    BY DEF VerifyToken
  <2>3. t.key \in {set, set - 1} /\ t.key >= 1 /\ set \in Nat
    BY <2>1, <2>2, SelectedFromSet, VersionsCover
  <2>4. /\ t.left + Skew >= 0 /\ t.ahead <= Skew /\ t.early <= Skew
        /\ t.iss /\ t.aud /\ t.nonce
    BY <2>1, <2>2, TokenValues, IdTokenAssumption DEF ClaimsHold
  <2>5. ASSUME Withdrawn(p, t.key) # Never
        PROVE  at < Withdrawn(p, t.key) + JwksTtl + Timeout
    <3>1. t.key + 1 \in Version /\ Withdrawn(p, t.key) = replaced[p][t.key + 1]
      BY <2>5 DEF Withdrawn
    <3>2. t.key + 1 \in Nat /\ set <= t.key + 1
      BY <2>3
    <3>3. /\ replaced[p][set] <= replaced[p][t.key + 1]
          /\ replaced[p][set] \in Nat /\ replaced[p][t.key + 1] \in Nat
      BY <2>1, <3>1, <3>2 DEF IdTokenInv, RotationsSound
    <3> QED
      BY <2>1, <3>1, <3>3, JwksAssumption, TtlIsGreatest
  <2>6. Withdrawn(p, t.key) # Never => Withdrawn(p, t.key) \in Nat
    BY <2>1 DEF Withdrawn, IdTokenInv, RotationsSound
  <2>7. Withdrawn(p, t.key) # Never =>
          at < Withdrawn(p, t.key)
                 + (Max({CacheTtl[q] : q \in Provider} \cup {Floor}) + Timeout)
    BY <2>5, <2>6, JwksAssumption, TtlIsGreatest
  <2>8. t.alg \in Alg
    BY <2>1, <2>2, TokenValues
  <2>9. t.kid = 0 /\ KeyAlg[p][t.key] \in Alg => t.alg = KeyAlg[p][t.key]
    <3>1. t.kid = 0 => jwk_matches_alg(p, t.key, t.alg)
      BY <2>1, <2>2, SelectedFromSet
    <3> QED
      BY <3>1 DEF jwk_matches_alg, Alg, KeyType
  <2> QED
    BY <2>2, <2>4, <2>7, <2>8, <2>9
<1> QED
  BY <1>1, IdTokenInvInit, IdTokenInvStep, PTL DEF IdTokenSpec
=============================================================================
