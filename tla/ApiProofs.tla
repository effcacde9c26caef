----------------------------- MODULE ApiProofs -----------------------------
(* Proofs about Access and Api, for any environments, requests and records: *)
(* how old what a cache gives out may be, whose address a request has, and  *)
(* what the checks of production are worth.                                *)
EXTENDS Api, WellFoundedInduction, SequenceTheorems, TLAPS

(* A copy with a tag is an answer 200 that the tag was made of; and between  *)
(* two answers of the service its two ages grow together.                  *)
CopyInv ==
  copy # None =>
    /\ copy = [answer |-> copy.answer, tag |-> copy.tag, maxAge |-> copy.maxAge,
               age |-> copy.age, lag |-> copy.lag]
    /\ copy.age \in Nat /\ copy.lag \in Nat /\ copy.lag <= copy.age
    /\ copy.tag # None => copy.answer.status = 200 /\ copy.tag = BuildETag(copy.answer)

\* A copy just stored, with the tag of an answer 200 or without one.
LEMMA StoredCopy ==
  ASSUME NEW answer, NEW tag, NEW maxAge,
         tag = None \/ (answer.status = 200 /\ tag = BuildETag(answer)),
         copy' = Stored(answer, tag, maxAge)
  PROVE  CopyInv'
BY DEF CopyInv, Stored, BuildETag

\* 304 is answered to a copy with the link and the day of the answer.
LEMMA RevalidatedCopy ==
  ASSUME CopyInv, NEW rec \in Records,
         copy # None, copy.tag # None, copy.tag = BuildETag(Present(rec)),
         copy' = Revalidated(Present(rec))
  PROVE  CopyInv'
<1>1. SameLink(copy.answer, Present(rec))
  BY DEF CopyInv, BuildETag, SameLink, Present
<1>2. copy' = [copy EXCEPT !.age = 0, !.lag = 0]
  BY <1>1 DEF Revalidated
<1>3. copy' = [answer |-> copy.answer, tag |-> copy.tag, maxAge |-> copy.maxAge,
               age |-> 0, lag |-> 0]
  <2>1. copy = [answer |-> copy.answer, tag |-> copy.tag, maxAge |-> copy.maxAge,
                age |-> copy.age, lag |-> copy.lag]
    BY DEF CopyInv
  <2> DEFINE a == copy.answer  t == copy.tag  m == copy.maxAge  g == copy.age  l == copy.lag
  <2>2. copy = [answer |-> a, tag |-> t, maxAge |-> m, age |-> g, lag |-> l]
    BY <2>1
  <2> HIDE DEF a, t, m, g, l
  <2>3. copy' = [answer |-> a, tag |-> t, maxAge |-> m, age |-> 0, lag |-> 0]
    BY <1>2, <2>2
  <2> QED
    BY <2>3 DEF a, t, m
<1> QED
  BY <1>3 DEF CopyInv, BuildETag

\* No handler, and no time that passes, makes a copy older than its age.
LEMMA CopyStep ==
  CopyInv /\ [Next]_vars => CopyInv'
<1> SUFFICES ASSUME CopyInv, [Next]_vars
             PROVE  CopyInv'
  OBVIOUS
<1>1. ASSUME NEW tag, tag = IF copy = None THEN None ELSE copy.tag, APODHandler(tag)
      PROVE  CopyInv'
  <2>1. ASSUME NEW code \in {400, 502}, copy' = Stored(Status(code), None, APODMaxAge)
        PROVE  CopyInv'
    BY <2>1, StoredCopy
  <2>2. ASSUME NEW rec \in Records,
               copy' = IF tag # None /\ tag = BuildETag(Present(rec)) THEN Revalidated(Present(rec))
                       ELSE Stored(Present(rec), BuildETag(Present(rec)), APODMaxAge)
        PROVE  CopyInv'
    <3>1. CASE tag # None /\ tag = BuildETag(Present(rec))
      BY <1>1, <2>2, <3>1, RevalidatedCopy
    <3>2. CASE ~(tag # None /\ tag = BuildETag(Present(rec)))
      <4>1. copy' = Stored(Present(rec), BuildETag(Present(rec)), APODMaxAge)
        BY <2>2, <3>2
      <4>2. Present(rec).status = 200
        BY DEF Present
      <4> QED
        BY <4>1, <4>2, StoredCopy
    <3> QED
      BY <3>1, <3>2
  <2> QED
    BY <1>1, <2>1, <2>2 DEF APODHandler
<1>2. CASE ImageRedirectHandler
  <2>1. CASE copy' = None
    BY <2>1 DEF CopyInv
  <2>2. ASSUME NEW rec \in Records,
               copy' = Stored([Status(302) EXCEPT !.link = <<"/static/apod/", rec.date>>],
                              None, PictureMaxAge)
        PROVE  CopyInv'
    BY <2>2, StoredCopy
  <2> QED
    BY <1>2, <2>1, <2>2 DEF ImageRedirectHandler
<1>3. CASE StaticImageHandler
  BY <1>3, StoredCopy DEF StaticImageHandler
<1>4. CASE Ask
  BY <1>1, <1>2, <1>3, <1>4 DEF Ask
<1>5. CASE Tick
  <2>1. copy' = [answer |-> copy.answer, tag |-> copy.tag, maxAge |-> copy.maxAge,
                 age |-> copy.age + 1, lag |-> copy.lag + 1]
    BY <1>5 DEF Tick, Fresh, CopyInv
  <2>2. copy # None
    BY <1>5 DEF Tick, Fresh
  <2> QED
    BY <2>1, <2>2 DEF CopyInv, BuildETag
<1>6. CASE UNCHANGED vars
  BY <1>6 DEF vars, CopyInv, BuildETag
<1> QED
  BY <1>4, <1>5, <1>6 DEF Next

(* StaleAtMostMaxAge: what a cache gives out of the status, the day and the  *)
(* link of an answer was true no longer ago than it has been kept.         *)
THEOREM SpecStaleAtMostMaxAge == Spec => []StaleAtMostMaxAge
<1>1. Init => CopyInv
  BY DEF Init, CopyInv
<1>2. CopyInv => StaleAtMostMaxAge
  BY DEF CopyInv, StaleAtMostMaxAge, Fresh
<1> QED
  BY <1>1, <1>2, CopyStep, PTL DEF Spec

-----------------------------------------------------------------------------
\* A set of positions that is not empty has a last one.
LEMMA GreatestExists ==
  ASSUME NEW n \in Nat, NEW S \in SUBSET (1..n), S # {}
  PROVE  Greatest(S) \in S /\ \A j \in S : j <= Greatest(S)
<1> DEFINE Above == {m \in Nat : \A j \in S : j <= m}
<1>1. n \in Above
  OBVIOUS
<1>2. PICK m \in Above : \A k \in Above : ~ (<<k, m>> \in OpToRel(<, Nat))
  BY <1>1, NatLessThanWellFounded, WFMin
<1>3. m \in Nat /\ \A j \in S : j <= m
  BY Zenon, <1>2
<1>4. m \in S
  <2> SUFFICES ASSUME m \notin S PROVE FALSE
    OBVIOUS
  <2>1. \A j \in S : j <= m - 1
    BY <1>3
  <2>2. PICK j \in S : TRUE
    OBVIOUS
  <2>3. m - 1 \in Nat
    BY <1>3, <2>1, <2>2
  <2>4. <<m - 1, m>> \in OpToRel(<, Nat)
    BY <2>3 DEF OpToRel
  <2> QED
    BY <1>2, <2>1, <2>3, <2>4
<1> QED
  BY <1>3, <1>4 DEF Greatest

(* What precedes a stranger in the chain does not change whose address the  *)
(* request has.                                                            *)
LEMMA NearestStrangerDecides ==
  ASSUME NEW r \in Requests, NEW k \in 1..Len(r.forwardedFor),
         Strangers(env, From(r, k)) # {}
  PROVE  RealIP(env, From(r, k)) = RealIP(env, r)
<1> DEFINE s    == r.forwardedFor
           near == SubSeq(s, k, Len(s))
           S    == Strangers(env, r)
           T    == Strangers(env, From(r, k))
<1>1. r \in Request /\ s \in Seq(Texts) /\ Len(s) \in Nat /\ k \in 1..Len(s)
  BY ApiAssumption DEF Request
<1>2. From(r, k).forwardedFor = near /\ From(r, k).remote = r.remote
  BY <1>1 DEF From, Request
<1>3. /\ near \in Seq(Texts) /\ Len(near) = Len(s) - k + 1
      /\ \A i \in 1..Len(near) : near[i] = s[k + i - 1]
  <2>1. \A i \in k..Len(s) : s[i] \in Texts
    BY <1>1
  <2> QED
    BY <1>1, <2>1, SubSeqProperties
<1>4. T = {i \in 1..Len(near) : /\ Parse[near[i]] # None /\ ~IsTrusted(env, near[i])}
  BY <1>2, <1>3 DEF Strangers, Chain
<1>5. S = {i \in 1..Len(s) : /\ Parse[s[i]] # None /\ ~IsTrusted(env, s[i])}
  BY <1>1 DEF Strangers, Chain
<1> HIDE DEF near, S, T
<1>6. Greatest(T) \in T /\ \A j \in T : j <= Greatest(T)
  <2>1. Len(near) \in Nat /\ T \in SUBSET (1..Len(near)) /\ T # {}
    BY <1>3, <1>4 DEF T
  <2> QED
    BY <2>1, GreatestExists
<1> DEFINE g == Greatest(T)
           h == Greatest(S)
<1>7. g \in 1..Len(near) /\ Len(near) \in Nat /\ k \in Nat /\ Len(s) \in Nat
  BY <1>1, <1>3, <1>4, <1>6
<1> HIDE DEF g, h
<1>8. k + g - 1 \in S
  <2>1. k + g - 1 \in 1..Len(s) /\ near[g] = s[k + g - 1]
    BY <1>1, <1>3, <1>7
  <2>2. Parse[near[g]] # None /\ ~IsTrusted(env, near[g])
    BY <1>4, <1>6 DEF g
  <2> QED
    BY <1>5, <2>1, <2>2
<1>9. h \in S /\ \A j \in S : j <= h
  <2>1. Len(s) \in Nat /\ S \in SUBSET (1..Len(s)) /\ S # {}
    BY <1>1, <1>5, <1>8
  <2> QED
    BY <2>1, GreatestExists DEF h
<1>10. h = k + g - 1
  <2>1. h \in 1..Len(s) /\ Parse[s[h]] # None /\ ~IsTrusted(env, s[h])
    BY <1>5, <1>9
  <2>2. k + g - 1 <= h
    BY <1>8, <1>9
  <2>3. h - k + 1 \in 1..Len(near)
    BY <1>1, <1>3, <1>7, <2>1, <2>2
  <2>4. k + (h - k + 1) - 1 = h
    BY <1>7, <2>1
  <2>5. near[h - k + 1] = s[h]
    BY <1>3, <2>3, <2>4
  <2>6. h - k + 1 \in T
    BY <1>4, <2>1, <2>3, <2>5
  <2>7. h - k + 1 <= g
    BY <1>6, <2>6 DEF g
  <2> QED
    BY <1>7, <2>1, <2>2, <2>7
<1>11. near[g] = s[h]
  BY <1>3, <1>7, <1>10
<1>12. g \in T /\ h \in S
  BY <1>6, <1>9 DEF g
<1> QED
  BY <1>2, <1>11, <1>12 DEF RealIP, S, T, g, h

(* A request that does not come from a proxy has the address and the base   *)
(* URL it has without its headers.                                         *)
LEMMA HeadersOfStrangers ==
  ASSUME NEW r \in Requests, ~IsTrusted(env, r.remote)
  PROVE  RealIP(env, r) = RealIP(env, Bare(r)) /\ BaseURL(env, r) = BaseURL(env, Bare(r))
<1>1. r \in Request
  BY ApiAssumption
<1>2. Bare(r).remote = r.remote /\ Bare(r).tls = r.tls /\ Bare(r).host = r.host
  BY <1>1 DEF Bare, Request
<1> QED
  BY <1>1, <1>2 DEF RealIP, BaseURL, DetectScheme, Request

(* FarHopsDoNotMatter: in no environment do the headers before the nearest  *)
(* stranger change whom a demo request is charged to.                      *)
THEOREM SpecFarHopsDoNotMatter == Spec => []FarHopsDoNotMatter
<1>1. FarHopsDoNotMatter
  BY NearestStrangerDecides, HeadersOfStrangers DEF FarHopsDoNotMatter
<1> QED
  BY <1>1, PTL

-----------------------------------------------------------------------------
\* The environment is one NewApp accepted, and stays it.
StartedInv == Starts(env)

(* ProductionKeepsApart: the checks of NewApp suffice for what the          *)
(* middleware does with the keys and the proxies.                          *)
THEOREM SpecProductionKeepsApart == Spec => []ProductionKeepsApart
<1>1. Init => StartedInv
  BY DEF Init, StartedInv
<1>2. StartedInv /\ [Next]_vars => StartedInv'
  <2> SUFFICES ASSUME StartedInv, [Next]_vars
               PROVE  StartedInv'
    OBVIOUS
  <2>1. env' = env
    BY DEF Next, Ask, Tick, vars
  <2> QED
    BY <2>1 DEF StartedInv, Starts, AuthKey, MetricsKey, HasTrustAllProxy
<1>3. StartedInv => ProductionKeepsApart
  <2> SUFFICES ASSUME StartedInv, env.prod, NEW r \in Requests
               PROVE  /\ ~(OpensAPI(env, r) /\ OpensMetrics(env, r))
                      /\ r.authorization = DefaultKey => ~OpensAPI(env, r)
                      /\ OpensAPI(env, r) /\ IsDemo(r) => env.demoKey = TRUE
                      /\ IsTrusted(env, r.remote) =>
                           \E entry \in TrustedProxies(env) : Parse[r.remote] \in entry.addrs
    BY DEF ProductionKeepsApart
  <2>1. /\ AuthKey(env) # DefaultKey /\ MetricsKey(env) # AuthKey(env)
        /\ ~HasTrustAllProxy(env)
    BY DEF StartedInv, Starts
  <2>2. ~(OpensAPI(env, r) /\ OpensMetrics(env, r))
    BY <2>1 DEF OpensAPI, OpensMetrics, IsDemo
  <2>3. r.authorization = DefaultKey => ~OpensAPI(env, r)
    BY <2>1, AccessAssumption DEF OpensAPI, IsDemo, ProvidedKey
  <2>4. OpensAPI(env, r) /\ IsDemo(r) => env.demoKey = TRUE
    BY DEF OpensAPI, AllowDemoKey
  <2>5. IsTrusted(env, r.remote) =>
          \E entry \in TrustedProxies(env) : Parse[r.remote] \in entry.addrs
    BY <2>1, AccessAssumption DEF IsTrusted, TrustedProxies, HasTrustAllProxy
  <2> QED
    BY <2>2, <2>3, <2>4, <2>5
<1> QED
  BY <1>1, <1>2, <1>3, PTL DEF Spec
=============================================================================
