--------------------------- MODULE UpstreamsProofs ---------------------------
(* Proofs about Upstreams, for any dates, any burst and any deadlines.      *)
EXTENDS Upstreams, FiniteSetTheorems, TLAPS

Waiting == {d \in Dates : pc[d] = "waiting"}
WaitingUpTo(v) == {d \in Waiting : act[d] <= v}

(* Waiters have a second each, none of it passed, none further away than    *)
(* the tokens promised, and the limiter remembers the last.                *)
QueueInv ==
  /\ \A d \in Waiting : /\ clock <= act[d]
                        /\ act[d] <= clock + NASADeadline
                        /\ act[d] <= clock - tokens
                        /\ act[d] <= lastEvent
  /\ \A d, e \in Waiting : act[d] = act[e] => d = e

(* Requests are numbered in the order they are sent.                        *)
SentInv ==
  /\ IsFiniteSet(sent)
  /\ \A r \in sent : r.n < Cardinality(sent) /\ r.at <= clock

(* The rate is kept by the requests sent with those promised up to any      *)
(* second to come; and the bucket never holds more than what the rate       *)
(* leaves beside both.                                                     *)
PromiseInv ==
  \A t, v \in Nat : t <= clock /\ clock <= v =>
    Cardinality(SentBetween(t, clock)) + Cardinality(WaitingUpTo(v)) <= Burst + (v - t)

BucketInv ==
  \A t \in Nat : t <= clock =>
    Cardinality(SentBetween(t, clock)) + Cardinality(Waiting) + tokens
      <= Burst + (clock - t)

RateInv == QueueInv /\ SentInv /\ PromiseInv /\ BucketInv /\ RateKept

(* A flight's deadline is counted from where it is, and is not passed.      *)
DeadlineInv ==
  \A d \in Dates :
    /\ pc[d] \in Running =>
         started[d] <= clock /\ clock <= deadline[d]
    /\ pc[d] \in {"waiting", "asked"} => deadline[d] = started[d] + NASADeadline
    /\ pc[d] = "web" => deadline[d] <= started[d] + NASADeadline + WebDeadline

-----------------------------------------------------------------------------
(* An item or an article found at a place of what an upstream sent has the  *)
(* type the upstream's constant gives it.                                  *)
LEMMA ItemsTyped ==
  /\ \A reply \in Replies : \A i \in DOMAIN reply : reply[i] \in Item
  /\ \A found \in Searches : \A i \in DOMAIN found : found[i] \in Article
  BY UpstreamsAssumption

(* The forms of a date.                                                     *)
LEMMA QueriesTyped == \A d \in Dates : Queries(d) \in 1..2
  BY DEF Queries

(* The end of a flight keeps every variable in its type.                    *)
LEMMA EndTyped ==
  ASSUME TypeOK, NEW d \in Dates, NEW a \in Answers, End(d, a)
  PROVE  /\ pc' \in [Dates -> Running \cup {"idle", "done"}]
         /\ started' \in [Dates -> 0..LastBegin]
         /\ deadline' \in [Dates -> Nat]
         /\ act' \in [Dates -> Nat]
         /\ search' \in [Dates -> 0..2]
         /\ \A e \in Dates : search'[e] <= Queries(e)
         /\ canceled' \subseteq Dates
         /\ answer' \in [Dates -> Answers]
<1>1. 0 \in 0..LastBegin
  BY UpstreamsAssumption
<1>2. /\ pc' \in [Dates -> Running \cup {"idle", "done"}]
      /\ answer' \in [Dates -> Answers]
      /\ canceled' \subseteq Dates
  BY DEF TypeOK, End
<1>3. /\ started' \in [Dates -> 0..LastBegin]
      /\ deadline' \in [Dates -> Nat]
      /\ act' \in [Dates -> Nat]
  BY <1>1 DEF TypeOK, End
<1>4. /\ search' \in [Dates -> 0..2]
      /\ \A e \in Dates : search'[e] <= Queries(e)
  BY QueriesTyped DEF TypeOK, End
<1> QED
  BY <1>2, <1>3, <1>4

(* So does entering the web.                                                *)
LEMMA WebTyped ==
  ASSUME TypeOK, NEW d \in Dates, EnterWeb(d)
  PROVE  /\ pc' \in [Dates -> Running \cup {"idle", "done"}]
         /\ deadline' \in [Dates -> Nat]
         /\ act' \in [Dates -> Nat]
         /\ search' \in [Dates -> 0..2]
         /\ \A e \in Dates : search'[e] <= Queries(e)
         /\ canceled' = canceled
         /\ answer' = answer
<1>1. clock + WebDeadline \in Nat
  BY UpstreamsAssumption DEF TypeOK
<1>2. /\ pc' \in [Dates -> Running \cup {"idle", "done"}]
      /\ deadline' \in [Dates -> Nat]
      /\ act' \in [Dates -> Nat]
      /\ canceled' = canceled
      /\ answer' = answer
  BY <1>1 DEF TypeOK, EnterWeb, Running
<1>3. /\ search' \in [Dates -> 0..2]
      /\ \A e \in Dates : search'[e] <= Queries(e)
  BY QueriesTyped DEF TypeOK, EnterWeb
<1> QED
  BY <1>2, <1>3

(* The answers a flight can end with.                                       *)
LEMMA FailedTyped ==
  \A s \in {"", "canceled", "failed"} : Failed(s) \in Answers
  BY DEF Answers, Failed

(* A picture of a date is one of them.                                      *)
LEMMA PictureTyped ==
  ASSUME NEW s \in {"nasa", "web"}, NEW d \in Dates, NEW m \in {"image", "video"},
         NEW l \in Links
  PROVE  Picture(s, d, m, l) \in Answers
  BY DEF Answers, Picture

(* What a flight that gives up on the NASA API leaves.                      *)
LEMMA AfterNASATyped ==
  ASSUME TypeOK, NEW d \in Dates, AfterNASA(d)
  PROVE  /\ pc' \in [Dates -> Running \cup {"idle", "done"}]
         /\ started' \in [Dates -> 0..LastBegin]
         /\ deadline' \in [Dates -> Nat]
         /\ act' \in [Dates -> Nat]
         /\ search' \in [Dates -> 0..2]
         /\ \A e \in Dates : search'[e] <= Queries(e)
         /\ canceled' \subseteq Dates
         /\ answer' \in [Dates -> Answers]
<1>1. CASE Fail(d)
  BY <1>1, FailedTyped, EndTyped DEF Fail
<1>2. CASE EnterWeb(d) /\ UNCHANGED started
  BY <1>2, WebTyped DEF TypeOK
<1> QED
  BY <1>1, <1>2 DEF AfterNASA

(* A request sent now is one of its type.                                   *)
LEMMA SendTyped ==
  ASSUME TypeOK, SentInv, NEW d \in Dates, Send(d)
  PROVE  /\ pc' \in [Dates -> Running \cup {"idle", "done"}]
         /\ sent' \subseteq [n : Nat, at : 0..LastTick]
<1>1. Cardinality(sent) \in Nat
  BY FS_CardinalityType DEF SentInv
<1> QED
  BY <1>1 DEF TypeOK, Send, Running

(* Reserving and canceling keep the bucket in its type.                     *)
LEMMA LimiterTyped ==
  ASSUME TypeOK, NEW d \in Dates, Reserve(d) \/ CancelReservation(d)
  PROVE  tokens' \in Int /\ tokens' <= Burst /\ lastEvent' \in Nat
<1>1. act[d] \in Nat /\ clock \in Nat /\ tokens \in Int /\ tokens <= Burst
        /\ lastEvent \in Nat /\ Burst \in Nat
  BY UpstreamsAssumption DEF TypeOK
<1>2. CASE Reserve(d)
  BY <1>1, <1>2 DEF Reserve, Delay
<1>3. CASE CancelReservation(d)
  BY <1>1, <1>3 DEF CancelReservation, Least, limiterVars
<1> QED
  BY <1>2, <1>3

(* Type correctness is preserved.                                           *)
LEMMA TypePreserved ==
  ASSUME TypeOK, SentInv, [Next]_vars
  PROVE  TypeOK'
<1> USE UpstreamsAssumption
<1>1. ASSUME NEW d \in Dates, BeginCanceled(d) PROVE TypeOK'
  BY <1>1, FailedTyped, EndTyped DEF BeginCanceled, TypeOK, limiterVars
<1>2. ASSUME NEW d \in Dates, Begin(d) PROVE TypeOK'
  <2>1. clock \in 0..LastBegin /\ clock + NASADeadline \in Nat /\ clock + Delay \in Nat
    BY <1>2 DEF Begin, TypeOK, Delay
  <2>2. started' \in [Dates -> 0..LastBegin] /\ clock' = clock
    BY <1>2, <2>1 DEF Begin, TypeOK
  <2>3. CASE Refused
    BY <1>2, <2>2, <2>3, WebTyped DEF Begin, TypeOK, limiterVars
  <2>4. CASE ~Refused
    <3>1. /\ Reserve(d)
          /\ UNCHANGED <<search, canceled, answer>>
          /\ deadline' = [deadline EXCEPT ![d] = clock + NASADeadline]
      BY <1>2, <2>4 DEF Begin
    <3>2. deadline' \in [Dates -> Nat] /\ act' \in [Dates -> Nat]
      BY <2>1, <3>1 DEF TypeOK, Reserve
    <3>3. CASE Send(d)
      BY <2>2, <3>1, <3>2, <3>3, SendTyped, LimiterTyped DEF TypeOK
    <3>4. CASE pc' = [pc EXCEPT ![d] = "waiting"] /\ UNCHANGED sent
      <4>1. pc' \in [Dates -> Running \cup {"idle", "done"}]
        BY <3>4 DEF TypeOK, Running
      <4> QED
        BY <2>2, <3>1, <3>2, <3>4, <4>1, LimiterTyped DEF TypeOK
    <3> QED
      BY <1>2, <2>4, <3>3, <3>4 DEF Begin
  <2> QED
    BY <2>3, <2>4
<1>3. ASSUME NEW d \in Dates, Grant(d) PROVE TypeOK'
  BY <1>3, SendTyped DEF Grant, TypeOK, limiterVars, flightVars
<1>4. ASSUME NEW d \in Dates, GiveUpWaiting(d) PROVE TypeOK'
  BY <1>4, AfterNASATyped, LimiterTyped DEF GiveUpWaiting, TypeOK
<1>5. ASSUME NEW d \in Dates, NASAAnswers(d) PROVE TypeOK'
  <2>1. PICK item \in Item : /\ Usable(item)
                             /\ End(d, Picture("nasa", item.date, item.media, MediaLink(item)))
    BY <1>5, ItemsTyped DEF NASAAnswers
  <2>2. Picture("nasa", item.date, item.media, MediaLink(item)) \in Answers
    BY <2>1, PictureTyped DEF Item, Usable, MediaLink
  <2> QED
    BY <1>5, <2>1, <2>2, EndTyped DEF NASAAnswers, TypeOK, limiterVars
<1>6. ASSUME NEW d \in Dates, NASAFails(d) PROVE TypeOK'
  BY <1>6, AfterNASATyped DEF NASAFails, TypeOK, limiterVars
<1>7. ASSUME NEW d \in Dates, WebAnswers(d) PROVE TypeOK'
  <2>1. PICK article \in Article :
          End(d, Picture("web", article.body, MediaOf(article), "asset"))
    BY <1>7, ItemsTyped DEF WebAnswers
  <2>2. Picture("web", article.body, MediaOf(article), "asset") \in Answers
    BY <2>1, PictureTyped DEF Article, MediaOf, Links
  <2> QED
    BY <1>7, <2>1, <2>2, EndTyped DEF WebAnswers, TypeOK, limiterVars
<1>8. ASSUME NEW d \in Dates, SearchAgain(d) PROVE TypeOK'
  <2>1. search[d] \in 0..2 /\ search[d] < Queries(d) /\ Queries(d) \in 1..2
    BY <1>8, QueriesTyped DEF SearchAgain, TypeOK
  <2>2. search[d] + 1 \in 0..2 /\ search[d] + 1 <= Queries(d)
    BY <2>1
  <2>3. search' \in [Dates -> 0..2] /\ \A e \in Dates : search'[e] <= Queries(e)
    BY <1>8, <2>2 DEF SearchAgain, TypeOK
  <2> QED
    BY <1>8, <2>3 DEF SearchAgain, TypeOK, limiterVars, flightVars
<1>9. ASSUME NEW d \in Dates, NothingFound(d) \/ WebFails(d) PROVE TypeOK'
  BY <1>9, FailedTyped, EndTyped DEF NothingFound, WebFails, Fail, TypeOK, limiterVars
<1>10. ASSUME NEW d \in Dates, Cancel(d) PROVE TypeOK'
  BY <1>10 DEF Cancel, TypeOK, limiterVars, flightVars
<1>11. CASE Tick
  <2>1. clock' \in 0..LastTick /\ tokens' \in Int /\ tokens' <= Burst
    BY <1>11 DEF Tick, TypeOK, Least, LastTick
  <2> QED
    BY <1>11, <2>1 DEF Tick, TypeOK, flightVars
<1>12. CASE UNCHANGED vars
  BY <1>12 DEF vars, TypeOK, limiterVars, flightVars
<1> QED
  BY <1>1, <1>2, <1>3, <1>4, <1>5, <1>6, <1>7, <1>8, <1>9, <1>10, <1>11, <1>12
     DEF Next, FlightStep

-----------------------------------------------------------------------------
(* Those who have a second each are no more than the seconds they have.     *)
LEMMA OneSecondEach ==
  ASSUME NEW S, NEW f, NEW a \in Int, NEW b \in Int,
         \A d \in S : f[d] \in Int /\ a <= f[d] /\ f[d] <= b,
         \A d, e \in S : f[d] = f[e] => d = e
  PROVE  /\ IsFiniteSet(S)
         /\ Cardinality(S) \in Nat
         /\ Cardinality(S) <= IF a > b THEN 0 ELSE b - a + 1
<1> DEFINE g == [d \in S |-> f[d]]
<1>1. g \in [S -> a..b]
  OBVIOUS
<1>2. g \in Injection(S, a..b)
  BY <1>1 DEF Injection, IsInjective
<1>3. IsFiniteSet(a..b) /\ Cardinality(a..b) = IF a > b THEN 0 ELSE b - a + 1
  BY FS_Interval
<1>4. IsFiniteSet(S) /\ Cardinality(S) <= Cardinality(a..b)
  BY <1>2, <1>3, FS_Injection
<1> QED
  BY <1>3, <1>4, FS_CardinalityType

(* Every set of waiters is finite.                                          *)
LEMMA FiniteWaiters ==
  ASSUME TypeOK, QueueInv, NEW S \in SUBSET Waiting
  PROVE  IsFiniteSet(S) /\ Cardinality(S) \in Nat
<1>1. clock \in Int /\ clock + NASADeadline \in Int /\ \A d \in S : act[d] \in Int
  BY UpstreamsAssumption DEF TypeOK, Waiting
<1> QED
  BY <1>1, OneSecondEach DEF QueueInv

(* The same after a step.                                                   *)
LEMMA FiniteWaitersNext ==
  ASSUME TypeOK', QueueInv', NEW S \in SUBSET (Waiting')
  PROVE  IsFiniteSet(S) /\ Cardinality(S) \in Nat
<1>1. clock' \in Int /\ clock' + NASADeadline \in Int /\ \A d \in S : act'[d] \in Int
  BY UpstreamsAssumption DEF TypeOK, Waiting
<1> QED
  BY <1>1, OneSecondEach DEF QueueInv

(* Every stretch of requests is finite.                                     *)
LEMMA FiniteRequests ==
  ASSUME SentInv, NEW t, NEW u
  PROVE  /\ IsFiniteSet(SentBetween(t, u))
         /\ Cardinality(SentBetween(t, u)) \in Nat
  BY FS_Subset, FS_CardinalityType DEF SentInv, SentBetween

(* The same after a step.                                                   *)
LEMMA FiniteRequestsNext ==
  ASSUME SentInv', NEW t, NEW u
  PROVE  /\ IsFiniteSet(SentBetween(t, u)')
         /\ Cardinality(SentBetween(t, u)') \in Nat
  BY FS_Subset, FS_CardinalityType DEF SentInv, SentBetween

(* A request sent now adds one to every stretch that reaches the present,   *)
(* and keeps the numbering.                                                *)
LEMMA OneMoreRequest ==
  ASSUME TypeOK, SentInv, NEW d \in Dates, Send(d), clock' = clock
  PROVE  /\ SentInv'
         /\ \A t \in Nat : t <= clock =>
              Cardinality(SentBetween(t, clock))' = Cardinality(SentBetween(t, clock)) + 1
         /\ \A t, u \in Nat : u < clock => SentBetween(t, u)' = SentBetween(t, u)
<1> DEFINE r == [n |-> Cardinality(sent), at |-> clock]
<1>1. Cardinality(sent) \in Nat /\ clock \in Nat
  BY FS_CardinalityType, UpstreamsAssumption DEF SentInv, TypeOK
<1>2. r \notin sent
  BY <1>1 DEF SentInv
<1>3. sent' = sent \cup {r}
  BY DEF Send
<1>4. IsFiniteSet(sent') /\ Cardinality(sent') = Cardinality(sent) + 1
  BY <1>2, <1>3, FS_AddElement DEF SentInv
<1>5. SentInv'
  BY <1>1, <1>3, <1>4 DEF SentInv, TypeOK
<1>6. ASSUME NEW t \in Nat, t <= clock
      PROVE  Cardinality(SentBetween(t, clock))' = Cardinality(SentBetween(t, clock)) + 1
  <2>1. SentBetween(t, clock)' = SentBetween(t, clock) \cup {r}
    BY <1>1, <1>3, <1>6 DEF SentBetween
  <2>2. r \notin SentBetween(t, clock)
    BY <1>2 DEF SentBetween
  <2> QED
    BY <2>1, <2>2, FiniteRequests, FS_AddElement
<1>7. ASSUME NEW t \in Nat, NEW u \in Nat, u < clock
      PROVE  SentBetween(t, u)' = SentBetween(t, u)
  BY <1>1, <1>3, <1>7 DEF SentBetween
<1> QED
  BY <1>5, <1>6, <1>7

(* What has been sent is bounded by what was promised: RateKept needs no    *)
(* more than its own past and the promises for the present.                *)
LEMMA RateOfPromises ==
  ASSUME TypeOK', QueueInv', SentInv', PromiseInv',
         \A t, u \in Nat : t <= u /\ u < clock' =>
           Cardinality(SentBetween(t, u)') <= Burst + (u - t)
  PROVE  RateKept'
<1>1. clock' \in Nat
  BY DEF TypeOK
<1>2. SUFFICES ASSUME NEW t \in Nat, NEW u \in Nat, t <= u, clock' <= u
               PROVE  Cardinality(SentBetween(t, u)') <= Burst + (u - t)
  BY <1>1 DEF RateKept
<1>3. CASE t <= clock'
  <2>1. SentBetween(t, u)' = SentBetween(t, clock)'
    BY <1>1, <1>2, <1>3 DEF SentBetween, SentInv, TypeOK
  <2>2. Cardinality(SentBetween(t, clock))' + Cardinality(WaitingUpTo(u))' <= Burst + (u - t)
    BY <1>2, <1>3 DEF PromiseInv
  <2>3. Cardinality(WaitingUpTo(u))' \in Nat
    BY FiniteWaitersNext DEF WaitingUpTo
  <2> QED
    <3>1. Cardinality(SentBetween(t, u)') \in Nat
      BY FiniteRequestsNext
    <3> QED
      BY <1>2, <2>1, <2>2, <2>3, <3>1, UpstreamsAssumption
<1>4. CASE t > clock'
  <2>1. SentBetween(t, u)' = {}
    BY <1>1, <1>2, <1>4 DEF SentBetween, SentInv, TypeOK
  <2> QED
    BY <1>2, <2>1, FS_EmptySet, UpstreamsAssumption
<1> QED
  BY <1>1, <1>3, <1>4

(* While the clock stands, what was sent before it does not change.         *)
LEMMA PastKept ==
  ASSUME TypeOK, RateKept, clock' = clock,
         \A t, u \in Nat : u < clock => SentBetween(t, u)' = SentBetween(t, u)
  PROVE  \A t, u \in Nat : t <= u /\ u < clock' =>
           Cardinality(SentBetween(t, u)') <= Burst + (u - t)
  BY UpstreamsAssumption DEF TypeOK, RateKept, LastTick

-----------------------------------------------------------------------------
(* A step that leaves the limiter and its waiters alone keeps the rate.     *)
LEMMA KeptUntouched ==
  ASSUME TypeOK, TypeOK', RateInv, UNCHANGED <<clock, limiterVars, sent>>,
         Waiting' = Waiting, \A d \in Waiting : act'[d] = act[d]
  PROVE  RateInv'
<1>1. QueueInv' /\ SentInv'
  BY DEF RateInv, QueueInv, SentInv, limiterVars
<1>2. /\ \A t, u : SentBetween(t, u)' = SentBetween(t, u)
      /\ \A v : WaitingUpTo(v)' = WaitingUpTo(v)
  BY DEF SentBetween, WaitingUpTo
<1>3. PromiseInv' /\ BucketInv'
  BY <1>2 DEF RateInv, PromiseInv, BucketInv, limiterVars
<1>4. RateKept'
  BY <1>1, <1>2, <1>3, PastKept, RateOfPromises DEF RateInv
<1> QED
  BY <1>1, <1>3, <1>4 DEF RateInv

(* A token is there: nobody waits, and the bucket allows one request more.  *)
LEMMA KeptByToken ==
  ASSUME TypeOK, TypeOK', RateInv, NEW d \in Dates, ~Refused, Delay = 0,
         Reserve(d), Send(d), clock' = clock
  PROVE  RateInv'
<1>1. /\ clock \in Nat /\ tokens \in Int /\ Burst \in Nat
      /\ \A e \in Dates : act[e] \in Nat
  BY UpstreamsAssumption DEF TypeOK
<1>2. tokens >= 1 /\ tokens' = tokens - 1
  BY <1>1 DEF Delay, Reserve
<1>3. Waiting = {}
  BY <1>1, <1>2 DEF RateInv, QueueInv, Waiting
<1>4. Waiting' = {}
  BY <1>3 DEF Waiting, Send, TypeOK
<1>5. QueueInv'
  BY <1>4 DEF QueueInv
<1>6. /\ SentInv'
      /\ \A t \in Nat : t <= clock =>
           Cardinality(SentBetween(t, clock))' = Cardinality(SentBetween(t, clock)) + 1
      /\ \A t, u \in Nat : u < clock => SentBetween(t, u)' = SentBetween(t, u)
  BY OneMoreRequest DEF RateInv
<1>7. Cardinality({}) = 0 /\ \A v : WaitingUpTo(v)' = {}
  BY <1>4, FS_EmptySet DEF WaitingUpTo
<1>8. ASSUME NEW t \in Nat, t <= clock
      PROVE  Cardinality(SentBetween(t, clock))' + tokens' <= Burst + (clock - t)
  <2>1. Cardinality(SentBetween(t, clock)) + 0 + tokens <= Burst + (clock - t)
    BY <1>3, <1>7, <1>8 DEF RateInv, BucketInv
  <2>2. Cardinality(SentBetween(t, clock)) \in Nat
    BY FiniteRequests DEF RateInv
  <2> QED
    BY <1>1, <1>2, <1>6, <1>8, <2>1, <2>2
<1>9. /\ tokens' \in Int /\ tokens' >= 0
      /\ \A t : Cardinality(SentBetween(t, clock))' \in Nat
  BY <1>1, <1>2, <1>6, FiniteRequestsNext
<1>10. BucketInv'
  BY <1>1, <1>4, <1>7, <1>8, <1>9 DEF BucketInv
<1>11. PromiseInv'
  BY <1>1, <1>7, <1>8, <1>9 DEF PromiseInv
<1>12. RateKept'
  BY <1>5, <1>6, <1>11, PastKept, RateOfPromises DEF RateInv
<1> QED
  BY <1>5, <1>6, <1>10, <1>11, <1>12 DEF RateInv

(* A promise is made for a second behind all the others.                    *)
LEMMA KeptByPromise ==
  ASSUME TypeOK, TypeOK', RateInv, NEW d \in Dates, d \notin Waiting, ~Refused,
         Delay > 0, Reserve(d), pc' = [pc EXCEPT ![d] = "waiting"],
         UNCHANGED <<clock, sent>>
  PROVE  RateInv'
<1>1. /\ clock \in Nat /\ tokens \in Int /\ Burst \in Nat /\ lastEvent \in Nat
      /\ NASADeadline \in Nat
      /\ \A e \in Dates : act[e] \in Nat
  BY UpstreamsAssumption DEF TypeOK
<1> DEFINE last == clock + 1 - tokens
<1>2. /\ tokens <= 0 /\ tokens' = tokens - 1 /\ 1 - tokens <= NASADeadline
      /\ lastEvent' = last /\ act' = [act EXCEPT ![d] = last] /\ last \in Nat
      /\ last > clock
  <2>1. tokens <= 0 /\ Delay = 1 - tokens /\ clock + Delay = last
    BY <1>1 DEF Delay
  <2>2. tokens' = tokens - 1 /\ lastEvent' = last /\ act' = [act EXCEPT ![d] = last]
    BY <2>1 DEF Reserve
  <2> QED
    BY <1>1, <2>1, <2>2 DEF Refused
<1>3. Waiting' = Waiting \cup {d}
  BY DEF Waiting, TypeOK
<1>4. act'[d] = last /\ \A e \in Waiting : act'[e] = act[e] /\ act[e] < last
  BY <1>1, <1>2 DEF RateInv, QueueInv, Waiting, TypeOK
<1>5. QueueInv'
  <2>1. \A e \in Waiting' : /\ clock' <= act'[e]
                            /\ act'[e] <= clock' + NASADeadline
                            /\ act'[e] <= clock' - tokens'
                            /\ act'[e] <= lastEvent'
    BY <1>1, <1>2, <1>3, <1>4 DEF RateInv, QueueInv, Waiting
  <2>2. \A e, f \in Waiting' : act'[e] = act'[f] => e = f
    BY <1>1, <1>2, <1>3, <1>4 DEF RateInv, QueueInv, Waiting
  <2> QED
    BY <2>1, <2>2 DEF QueueInv
<1>6. SentInv' /\ \A t, u : SentBetween(t, u)' = SentBetween(t, u)
  BY DEF RateInv, SentInv, SentBetween
<1>7. Cardinality(Waiting)' = Cardinality(Waiting) + 1
  BY <1>3, FiniteWaiters, FS_AddElement DEF RateInv
<1>8. BucketInv'
  <2>1. ASSUME NEW t \in Nat, t <= clock
        PROVE  Cardinality(SentBetween(t, clock)') + Cardinality(Waiting)' + tokens'
                 <= Burst + (clock - t)
    <3>1. Cardinality(SentBetween(t, clock)) + Cardinality(Waiting) + tokens
            <= Burst + (clock - t)
      BY <2>1 DEF RateInv, BucketInv
    <3>2. Cardinality(SentBetween(t, clock)) \in Nat /\ Cardinality(Waiting) \in Nat
      BY FiniteRequests, FiniteWaiters DEF RateInv
    <3> QED
      BY <1>1, <1>2, <1>6, <1>7, <3>1, <3>2
  <2> QED
    BY <2>1 DEF BucketInv
<1>9. PromiseInv'
  <2>1. ASSUME NEW t \in Nat, NEW v \in Nat, t <= clock, clock <= v
        PROVE  Cardinality(SentBetween(t, clock)) + Cardinality(WaitingUpTo(v)')
                 <= Burst + (v - t)
    <3>1. CASE v < last
      <4>1. WaitingUpTo(v)' = WaitingUpTo(v)
        BY <1>1, <1>2, <1>3, <1>4, <3>1 DEF WaitingUpTo
      <4> QED
        BY <2>1, <4>1 DEF RateInv, PromiseInv
    <3>2. CASE v >= last
      <4>1. v - 1 \in Nat /\ clock <= v - 1
        BY <1>1, <1>2, <3>2
      <4>2. WaitingUpTo(v)' = Waiting \cup {d} /\ WaitingUpTo(v - 1) = Waiting
        BY <1>1, <1>2, <1>3, <1>4, <3>2 DEF WaitingUpTo, Waiting
      <4>3. Cardinality(SentBetween(t, clock)) + Cardinality(Waiting) <= Burst + (v - 1 - t)
        BY <2>1, <4>1, <4>2 DEF RateInv, PromiseInv
      <4>4. Cardinality(Waiting \cup {d}) = Cardinality(Waiting) + 1
        BY <1>3, <1>7
      <4>5. Cardinality(SentBetween(t, clock)) \in Nat /\ Cardinality(Waiting) \in Nat
        BY FiniteRequests, FiniteWaiters DEF RateInv
      <4> QED
        BY <1>1, <4>2, <4>3, <4>4, <4>5
    <3> QED
      BY <1>2, <3>1, <3>2
  <2> QED
    BY <1>6, <2>1 DEF PromiseInv
<1>10. RateKept'
  BY <1>5, <1>6, <1>9, PastKept, RateOfPromises DEF RateInv
<1> QED
  BY <1>5, <1>6, <1>8, <1>9, <1>10 DEF RateInv

(* A waiter whose second has come is counted as sent from then on.          *)
LEMMA KeptByGrant ==
  ASSUME TypeOK, TypeOK', RateInv, NEW d \in Dates, Grant(d)
  PROVE  RateInv'
<1>1. /\ clock \in Nat /\ tokens \in Int /\ Burst \in Nat
      /\ \A e \in Dates : act[e] \in Nat
      /\ clock' = clock /\ tokens' = tokens /\ act' = act /\ lastEvent' = lastEvent
  BY UpstreamsAssumption DEF TypeOK, Grant, limiterVars, flightVars
<1>2. d \in Waiting /\ act[d] = clock
  BY <1>1 DEF Grant, Waiting, RateInv, QueueInv
<1>3. Waiting' = Waiting \ {d}
  BY DEF Grant, Send, Waiting, TypeOK
<1>4. QueueInv'
  BY <1>1, <1>3 DEF RateInv, QueueInv
<1>5. /\ SentInv'
      /\ \A t \in Nat : t <= clock =>
           Cardinality(SentBetween(t, clock))' = Cardinality(SentBetween(t, clock)) + 1
      /\ \A t, u \in Nat : u < clock => SentBetween(t, u)' = SentBetween(t, u)
  BY <1>1, OneMoreRequest DEF RateInv, Grant
<1>6. ASSUME NEW S \in SUBSET Waiting, d \in S
      PROVE  Cardinality(S \ {d}) = Cardinality(S) - 1 /\ Cardinality(S) \in Nat
  BY <1>6, FiniteWaiters, FS_RemoveElement DEF RateInv
<1>7. BucketInv'
  <2>1. Cardinality(Waiting)' = Cardinality(Waiting) - 1 /\ Cardinality(Waiting) \in Nat
    BY <1>2, <1>3, <1>6
  <2>2. ASSUME NEW t \in Nat, t <= clock
        PROVE  Cardinality(SentBetween(t, clock))' + Cardinality(Waiting)' + tokens
                 <= Burst + (clock - t)
    <3>1. Cardinality(SentBetween(t, clock)) \in Nat
      BY FiniteRequests DEF RateInv
    <3>2. Cardinality(SentBetween(t, clock)) + Cardinality(Waiting) + tokens
            <= Burst + (clock - t)
      BY <2>2 DEF RateInv, BucketInv
    <3> QED
      BY <1>1, <1>5, <2>1, <2>2, <3>1, <3>2
  <2> QED
    BY <1>1, <2>2 DEF BucketInv
<1>8. PromiseInv'
  <2>1. ASSUME NEW t \in Nat, NEW v \in Nat, t <= clock, clock <= v
        PROVE  Cardinality(SentBetween(t, clock))' + Cardinality(WaitingUpTo(v))'
                 <= Burst + (v - t)
    <3>1. WaitingUpTo(v)' = WaitingUpTo(v) \ {d} /\ d \in WaitingUpTo(v)
      BY <1>1, <1>2, <1>3, <2>1 DEF WaitingUpTo
    <3>2. /\ Cardinality(WaitingUpTo(v))' = Cardinality(WaitingUpTo(v)) - 1
          /\ Cardinality(WaitingUpTo(v)) \in Nat
      BY <1>6, <3>1 DEF WaitingUpTo
    <3>3. Cardinality(SentBetween(t, clock)) \in Nat
      BY FiniteRequests DEF RateInv
    <3>4. Cardinality(SentBetween(t, clock)) + Cardinality(WaitingUpTo(v)) <= Burst + (v - t)
      BY <2>1 DEF RateInv, PromiseInv
    <3> QED
      BY <1>1, <1>5, <2>1, <3>2, <3>3, <3>4
  <2> QED
    BY <1>1, <2>1 DEF PromiseInv
<1>9. RateKept'
  BY <1>1, <1>4, <1>5, <1>8, PastKept, RateOfPromises DEF RateInv
<1> QED
  BY <1>4, <1>5, <1>7, <1>8, <1>9 DEF RateInv

(* A waiter that gives up leaves its second unused, or, if it is the last,  *)
(* gives its token back.                                                   *)
LEMMA KeptByGivingUp ==
  ASSUME TypeOK, TypeOK', RateInv, NEW d \in Dates, GiveUpWaiting(d)
  PROVE  RateInv'
<1>1. /\ clock \in Nat /\ tokens \in Int /\ Burst \in Nat /\ lastEvent \in Nat
      /\ \A e \in Dates : act[e] \in Nat
      /\ clock' = clock /\ sent' = sent
      /\ tokens' \in Int
  BY UpstreamsAssumption DEF TypeOK, GiveUpWaiting
<1>2. d \in Waiting
  BY DEF GiveUpWaiting, Waiting
<1>3. Waiting' = Waiting \ {d} /\ \A e \in Waiting' : act'[e] = act[e]
  BY DEF GiveUpWaiting, AfterNASA, Fail, End, EnterWeb, Waiting, TypeOK
<1>4. \/ UNCHANGED limiterVars
      \/ /\ act[d] = lastEvent
         /\ tokens' <= tokens + 1
         /\ lastEvent' \in {act[d] - 1, act[d]}
  <2>1. act[d] <= lastEvent
    BY <1>2 DEF RateInv, QueueInv
  <2> QED
    BY <1>1, <2>1 DEF GiveUpWaiting, CancelReservation, Least
<1>5. tokens' <= tokens + 1 /\ tokens' \in Int
  BY <1>1, <1>4 DEF limiterVars
<1>6. QueueInv'
  <2>1. CASE UNCHANGED limiterVars
    BY <1>1, <1>3, <2>1 DEF RateInv, QueueInv, limiterVars
  <2>2. CASE /\ act[d] = lastEvent
             /\ tokens' <= tokens + 1
             /\ lastEvent' \in {act[d] - 1, act[d]}
    <3>1. \A e \in Waiting' : act[e] < act[d]
      BY <1>1, <1>2, <1>3, <2>2 DEF RateInv, QueueInv, Waiting
    <3>2. \A e \in Waiting' : /\ clock <= act'[e]
                              /\ act'[e] <= clock + NASADeadline
                              /\ act'[e] <= clock - tokens'
                              /\ act'[e] <= lastEvent'
      BY <1>1, <1>2, <1>3, <2>2, <3>1 DEF RateInv, QueueInv, Waiting
    <3>3. \A e, f \in Waiting' : act'[e] = act'[f] => e = f
      BY <1>3 DEF RateInv, QueueInv
    <3> QED
      BY <1>1, <3>2, <3>3 DEF QueueInv
  <2> QED
    BY <1>4, <2>1, <2>2
<1>7. SentInv' /\ \A t, u : SentBetween(t, u)' = SentBetween(t, u)
  BY <1>1 DEF RateInv, SentInv, SentBetween
<1>8. ASSUME NEW S \in SUBSET Waiting
      PROVE  /\ Cardinality(S \ {d}) <= Cardinality(S)
             /\ d \in S => Cardinality(S \ {d}) = Cardinality(S) - 1
             /\ Cardinality(S) \in Nat /\ Cardinality(S \ {d}) \in Nat
  <2>1. IsFiniteSet(S) /\ Cardinality(S) \in Nat /\ Cardinality(S \ {d}) \in Nat
    BY FiniteWaiters DEF RateInv
  <2>2. Cardinality(S \ {d}) = IF d \in S THEN Cardinality(S) - 1 ELSE Cardinality(S)
    BY <2>1, FS_RemoveElement
  <2> QED
    BY <2>1, <2>2
<1>9. BucketInv'
  <2>1. ASSUME NEW t \in Nat, t <= clock
        PROVE  Cardinality(SentBetween(t, clock)) + Cardinality(Waiting)' + tokens'
                 <= Burst + (clock - t)
    <3>1. Cardinality(SentBetween(t, clock)) \in Nat
      BY FiniteRequests DEF RateInv
    <3>2. Cardinality(SentBetween(t, clock)) + Cardinality(Waiting) + tokens
            <= Burst + (clock - t)
      BY <2>1 DEF RateInv, BucketInv
    <3>3. Cardinality(Waiting)' = Cardinality(Waiting) - 1 /\ Cardinality(Waiting) \in Nat
      BY <1>2, <1>3, <1>8
    <3> QED
      BY <1>1, <1>5, <2>1, <3>1, <3>2, <3>3
  <2> QED
    BY <1>1, <1>7, <2>1 DEF BucketInv
<1>10. PromiseInv'
  <2>1. ASSUME NEW t \in Nat, NEW v \in Nat, t <= clock, clock <= v
        PROVE  Cardinality(SentBetween(t, clock)) + Cardinality(WaitingUpTo(v))'
                 <= Burst + (v - t)
    <3>1. WaitingUpTo(v)' = WaitingUpTo(v) \ {d} /\ WaitingUpTo(v) \in SUBSET Waiting
      BY <1>3 DEF WaitingUpTo
    <3>2. /\ Cardinality(WaitingUpTo(v))' <= Cardinality(WaitingUpTo(v))
          /\ Cardinality(WaitingUpTo(v)) \in Nat /\ Cardinality(WaitingUpTo(v))' \in Nat
      BY <1>8, <3>1
    <3>3. Cardinality(SentBetween(t, clock)) \in Nat
      BY FiniteRequests DEF RateInv
    <3>4. Cardinality(SentBetween(t, clock)) + Cardinality(WaitingUpTo(v)) <= Burst + (v - t)
      BY <2>1 DEF RateInv, PromiseInv
    <3> QED
      BY <1>1, <2>1, <3>2, <3>3, <3>4
  <2> QED
    BY <1>1, <1>7, <2>1 DEF PromiseInv
<1>11. RateKept'
  BY <1>1, <1>6, <1>7, <1>10, PastKept, RateOfPromises DEF RateInv
<1> QED
  BY <1>6, <1>7, <1>9, <1>10, <1>11 DEF RateInv

(* A second passes only when no promise is due in it: the waiters' seconds  *)
(* are all to come, and a stretch that begins now has nothing but them.    *)
LEMMA KeptByTick ==
  ASSUME TypeOK, TypeOK', RateInv, Tick
  PROVE  RateInv'
<1>1. /\ clock \in Nat /\ tokens \in Int /\ Burst \in Nat /\ Burst >= 1
      /\ \A e \in Dates : act[e] \in Nat
      /\ clock' = clock + 1 /\ act' = act /\ lastEvent' = lastEvent /\ sent' = sent
      /\ tokens' \in Int /\ tokens' <= tokens + 1 /\ tokens' <= Burst
  BY UpstreamsAssumption DEF TypeOK, Tick, Least, flightVars
<1>2. Waiting' = Waiting
  BY DEF Tick, Waiting
<1>3. \A d \in Waiting : act[d] >= clock + 1
  BY <1>1 DEF Tick, Due, Waiting, Running
<1>4. QueueInv'
  <2>1. \A d \in Waiting' : /\ clock' <= act'[d]
                            /\ act'[d] <= clock' - tokens'
                            /\ act'[d] <= lastEvent'
    BY <1>1, <1>2, <1>3 DEF RateInv, QueueInv, Waiting
  <2>2. \A d \in Waiting' : act'[d] <= clock' + NASADeadline
    BY <1>1, <1>2, UpstreamsAssumption DEF RateInv, QueueInv, Waiting
  <2>3. \A d, e \in Waiting' : act'[d] = act'[e] => d = e
    BY <1>1, <1>2 DEF RateInv, QueueInv
  <2> QED
    BY <2>1, <2>2, <2>3 DEF QueueInv
<1>5. SentInv'
  BY <1>1 DEF RateInv, SentInv, TypeOK
<1>6. /\ \A t \in Nat : t <= clock =>
           SentBetween(t, clock)' = SentBetween(t, clock)
      /\ \A t \in Nat : t = clock + 1 => SentBetween(t, clock)' = {}
      /\ \A v : WaitingUpTo(v)' = WaitingUpTo(v)
  <2>1. \A r \in sent : r.at \in Nat /\ r.at <= clock
    BY DEF RateInv, SentInv, TypeOK
  <2>2. \A t \in Nat : t <= clock => SentBetween(t, clock)' = SentBetween(t, clock)
    BY <1>1, <2>1 DEF SentBetween
  <2>3. \A t \in Nat : t = clock + 1 => SentBetween(t, clock)' = {}
    BY <1>1, <2>1 DEF SentBetween
  <2>4. \A v : WaitingUpTo(v)' = WaitingUpTo(v)
    BY <1>1, <1>2 DEF WaitingUpTo
  <2> QED
    BY <2>2, <2>3, <2>4
<1>7. \A v \in Int : /\ Cardinality(WaitingUpTo(v)) \in Nat
                     /\ Cardinality(WaitingUpTo(v)) <= IF clock + 1 > v THEN 0 ELSE v - clock
  <2>1. ASSUME NEW v \in Int
        PROVE  /\ Cardinality(WaitingUpTo(v)) \in Nat
               /\ Cardinality(WaitingUpTo(v))
                    <= IF clock + 1 > v THEN 0 ELSE v - (clock + 1) + 1
    <3>1. \A d \in WaitingUpTo(v) :
             d \in Waiting /\ act[d] \in Int /\ clock + 1 <= act[d] /\ act[d] <= v
      BY <1>1, <1>3 DEF WaitingUpTo, Waiting
    <3>2. \A d, e \in WaitingUpTo(v) : act[d] = act[e] => d = e
      BY <3>1 DEF RateInv, QueueInv
    <3>3. clock + 1 \in Int
      BY <1>1
    <3> QED
      BY <2>1, <3>1, <3>2, <3>3, OneSecondEach
  <2> QED
    BY <1>1, <2>1
<1>8. PromiseInv'
  <2>1. ASSUME NEW t \in Nat, NEW v \in Nat, t <= clock + 1, clock + 1 <= v
        PROVE  Cardinality(SentBetween(t, clock)') + Cardinality(WaitingUpTo(v))
                 <= Burst + (v - t)
    <3>1. CASE t <= clock
      BY <1>1, <1>6, <2>1, <3>1 DEF RateInv, PromiseInv
    <3>2. CASE t = clock + 1
      <4>1. Cardinality(SentBetween(t, clock)') = 0
        BY <1>6, <3>2, FS_EmptySet
      <4> QED
        BY <1>1, <1>7, <2>1, <3>2, <4>1
    <3> QED
      BY <1>1, <2>1, <3>1, <3>2
  <2> QED
    BY <1>1, <1>6, <2>1 DEF PromiseInv
<1>9. BucketInv'
  <2>1. ASSUME NEW t \in Nat, t <= clock + 1
        PROVE  Cardinality(SentBetween(t, clock)') + Cardinality(Waiting) + tokens'
                 <= Burst + (clock + 1 - t)
    <3>1. Cardinality(Waiting) \in Nat
      BY FiniteWaiters DEF RateInv
    <3>2. CASE t <= clock
      <4>1. Cardinality(SentBetween(t, clock)) + Cardinality(Waiting) + tokens
              <= Burst + (clock - t)
        BY <3>2 DEF RateInv, BucketInv
      <4>2. Cardinality(SentBetween(t, clock)) \in Nat
        BY FiniteRequests DEF RateInv
      <4> QED
        BY <1>1, <1>6, <3>1, <3>2, <4>1, <4>2
    <3>3. CASE t = clock + 1
      <4>1. Cardinality(SentBetween(t, clock)') = 0
        BY <1>6, <3>3, FS_EmptySet
      <4>2. WaitingUpTo(clock - tokens) = Waiting
        BY DEF RateInv, QueueInv, WaitingUpTo
      <4>3. Cardinality(Waiting) <= IF clock + 1 > clock - tokens THEN 0 ELSE -tokens
        BY <1>1, <1>7, <4>2
      <4> QED
        BY <1>1, <3>1, <3>3, <4>1, <4>3
    <3> QED
      BY <1>1, <2>1, <3>2, <3>3
  <2> QED
    BY <1>1, <1>2, <2>1 DEF BucketInv
<1>10. RateKept'
  <2>1. ASSUME NEW t \in Nat, NEW u \in Nat, t <= u, u <= clock
        PROVE  Cardinality(SentBetween(t, u)') <= Burst + (u - t)
    <3>1. SentBetween(t, u)' = SentBetween(t, u)
      BY <1>1 DEF SentBetween
    <3>2. t \in 0..LastTick /\ u \in 0..LastTick
      BY <1>1, <2>1, UpstreamsAssumption DEF TypeOK, LastTick
    <3> QED
      BY <2>1, <3>1, <3>2 DEF RateInv, RateKept
  <2>2. \A t, u \in Nat : t <= u /\ u < clock' =>
          Cardinality(SentBetween(t, u)') <= Burst + (u - t)
    BY <1>1, <2>1
  <2> QED
    BY <1>4, <1>5, <1>8, <2>2, RateOfPromises
<1> QED
  BY <1>4, <1>5, <1>8, <1>9, <1>10 DEF RateInv

(* Every step keeps the rate.                                               *)
LEMMA RatePreserved ==
  ASSUME TypeOK, TypeOK', RateInv, [Next]_vars
  PROVE  RateInv'
<1>1. ASSUME NEW d \in Dates, BeginCanceled(d) PROVE RateInv'
  <2>1. Waiting' = Waiting /\ \A e \in Waiting : act'[e] = act[e]
    BY <1>1 DEF BeginCanceled, End, Waiting, TypeOK
  <2> QED
    BY <1>1, <2>1, KeptUntouched DEF BeginCanceled
<1>2. ASSUME NEW d \in Dates, Begin(d) PROVE RateInv'
  <2>1. d \notin Waiting /\ clock' = clock
    BY <1>2 DEF Begin, Waiting
  <2>2. CASE Refused
    <3>1. Waiting' = Waiting /\ \A e \in Waiting : act'[e] = act[e]
      BY <1>2, <2>1, <2>2 DEF Begin, EnterWeb, Waiting, TypeOK
    <3> QED
      BY <1>2, <2>1, <2>2, <3>1, KeptUntouched DEF Begin
  <2>3. CASE ~Refused /\ Delay = 0 /\ Send(d)
    BY <1>2, <2>1, <2>3, KeptByToken DEF Begin
  <2>4. CASE ~Refused /\ Delay > 0 /\ pc' = [pc EXCEPT ![d] = "waiting"] /\ UNCHANGED sent
    BY <1>2, <2>1, <2>4, KeptByPromise DEF Begin
  <2> QED
    BY <1>2, <2>2, <2>3, <2>4 DEF Begin
<1>3. ASSUME NEW d \in Dates, Grant(d) PROVE RateInv'
  BY <1>3, KeptByGrant
<1>4. ASSUME NEW d \in Dates, GiveUpWaiting(d) PROVE RateInv'
  BY <1>4, KeptByGivingUp
<1>5. ASSUME NEW d \in Dates,
             \/ NASAAnswers(d) \/ NASAFails(d) \/ WebAnswers(d)
             \/ NothingFound(d) \/ WebFails(d)
      PROVE  RateInv'
  <2>1. UNCHANGED <<clock, limiterVars, sent>>
    BY <1>5 DEF NASAAnswers, NASAFails, WebAnswers, NothingFound, WebFails
  <2>2. Waiting' = Waiting /\ \A e \in Waiting : act'[e] = act[e]
    BY <1>5 DEF NASAAnswers, NASAFails, WebAnswers, NothingFound, WebFails, AfterNASA,
                Fail, EnterWeb, End, Waiting, TypeOK
  <2> QED
    BY <2>1, <2>2, KeptUntouched
<1>6. ASSUME NEW d \in Dates, SearchAgain(d) \/ Cancel(d) PROVE RateInv'
  <2>1. Waiting' = Waiting /\ \A e \in Waiting : act'[e] = act[e]
    BY <1>6 DEF SearchAgain, Cancel, Waiting, flightVars
  <2> QED
    BY <1>6, <2>1, KeptUntouched DEF SearchAgain, Cancel
<1>7. CASE Tick
  BY <1>7, KeptByTick
<1>8. CASE UNCHANGED vars
  <2>1. Waiting' = Waiting /\ act' = act
    BY <1>8 DEF vars, Waiting, flightVars
  <2> QED
    BY <1>8, <2>1, KeptUntouched DEF vars
<1> QED
  BY <1>1, <1>2, <1>3, <1>4, <1>5, <1>6, <1>7, <1>8 DEF Next, FlightStep

(* Initially nothing was sent or promised.                                  *)
LEMMA InitTyped == Init => TypeOK /\ RateInv
<1> SUFFICES ASSUME Init PROVE TypeOK /\ RateInv
  OBVIOUS
<1>1. TypeOK
  <2>1. 0 \in 0..LastTick /\ 0 \in 0..LastBegin
    BY UpstreamsAssumption DEF LastTick
  <2>2. search \in [Dates -> 0..2] /\ \A d \in Dates : search[d] <= Queries(d)
    BY QueriesTyped DEF Init
  <2>3. answer \in [Dates -> Answers]
    BY FailedTyped DEF Init, NoAnswer
  <2> QED
    BY <2>1, <2>2, <2>3, UpstreamsAssumption DEF Init, TypeOK
<1>2. Waiting = {} /\ \A v : WaitingUpTo(v) = {}
  BY DEF Init, Waiting, WaitingUpTo
<1>3. \A t, u : SentBetween(t, u) = {}
  BY DEF Init, SentBetween
<1>4. IsFiniteSet({}) /\ Cardinality({}) = 0
  BY FS_EmptySet
<1>5. QueueInv /\ SentInv
  BY <1>2, <1>4 DEF Init, QueueInv, SentInv
<1>6. PromiseInv /\ BucketInv /\ RateKept
  <2>1. /\ \A t, u : Cardinality(SentBetween(t, u)) = 0
        /\ \A v : Cardinality(WaitingUpTo(v)) = 0
        /\ Cardinality(Waiting) = 0
    BY <1>2, <1>3, <1>4
  <2>2. clock = 0 /\ tokens = Burst /\ Burst \in Nat /\ LastTick \in Nat
    BY UpstreamsAssumption DEF Init, LastTick
  <2>3. PromiseInv
    BY <2>1, <2>2 DEF PromiseInv
  <2>4. BucketInv
    BY <2>1, <2>2 DEF BucketInv
  <2>5. RateKept
    BY <2>1, <2>2 DEF RateKept
  <2> QED
    BY <2>3, <2>4, <2>5
<1> QED
  BY <1>1, <1>5, <1>6 DEF RateInv

(* The inductive invariant behind the theorems.                             *)
LEMMA RateInvariant == Spec => [](TypeOK /\ RateInv)
<1>1. TypeOK /\ RateInv /\ [Next]_vars => (TypeOK /\ RateInv)'
  BY TypePreserved, RatePreserved DEF RateInv
<1> QED
  BY InitTyped, <1>1, PTL DEF Spec

(* Type correctness.                                                        *)
THEOREM UpstreamsTypeOK == Spec => []TypeOK
  BY RateInvariant, PTL

(* The NASA API never sees more than one request a second on top of the     *)
(* burst, whatever flights wait, give up and begin anew.                   *)
THEOREM UpstreamsRateKept == Spec => []RateKept
<1>1. RateInv => RateKept
  BY DEF RateInv
<1> QED
  BY RateInvariant, <1>1, PTL

(* The seconds to come that a flight may be promised bound the waiters.     *)
LEMMA QueueSize ==
  ASSUME TypeOK, QueueInv
  PROVE  QueueBounded
<1> DEFINE queue == {d \in Dates : pc[d] = "waiting" /\ act[d] > clock}
<1>1. /\ clock \in Nat /\ NASADeadline \in Nat /\ NASADeadline >= 1
      /\ clock + 1 \in Int /\ clock + NASADeadline \in Int
  BY UpstreamsAssumption DEF TypeOK
<1>2. \A d \in queue : /\ d \in Waiting
                       /\ act[d] \in Int
                       /\ clock + 1 <= act[d]
                       /\ act[d] <= clock + NASADeadline
  BY <1>1 DEF QueueInv, Waiting, TypeOK
<1>3. \A d, e \in queue : act[d] = act[e] => d = e
  BY <1>2 DEF QueueInv
<1>4. ASSUME NEW a \in Int, NEW b \in Int, a = clock + 1, b = clock + NASADeadline
      PROVE  Cardinality(queue) \in Nat /\
             Cardinality(queue) <= IF a > b THEN 0 ELSE b - a + 1
  <2>1. \A d \in queue : act[d] \in Int /\ a <= act[d] /\ act[d] <= b
    BY <1>2, <1>4
  <2> QED
    BY <1>3, <2>1, OneSecondEach
<1>5. Cardinality(queue) <= NASADeadline
  BY <1>1, <1>4
<1> QED
  BY <1>5 DEF QueueBounded

(* No more flights queue behind the limiter than the seconds a flight has.  *)
THEOREM UpstreamsQueueBounded == Spec => []QueueBounded
<1>1. TypeOK /\ RateInv => QueueBounded
  BY QueueSize DEF RateInv
<1> QED
  BY RateInvariant, <1>1, PTL

-----------------------------------------------------------------------------
(* A flight that ends no longer has a deadline to meet.                     *)
LEMMA DeadlineAtEnd ==
  ASSUME TypeOK, DeadlineInv, NEW d \in Dates, NEW a, End(d, a), clock' = clock
  PROVE  DeadlineInv'
  BY DEF TypeOK, DeadlineInv, End, Running

(* The web's deadline begins before that of the NASA API has passed.        *)
LEMMA DeadlineAfterNASA ==
  ASSUME TypeOK, DeadlineInv, NEW d \in Dates, pc[d] \in {"waiting", "asked"},
         AfterNASA(d), clock' = clock
  PROVE  DeadlineInv'
<1>1. CASE Fail(d)
  BY <1>1, DeadlineAtEnd DEF Fail
<1>2. CASE EnterWeb(d) /\ UNCHANGED started
  BY <1>2, UpstreamsAssumption DEF TypeOK, DeadlineInv, EnterWeb, Running
<1> QED
  BY <1>1, <1>2 DEF AfterNASA

(* Deadlines are kept by every step.                                        *)
LEMMA DeadlinePreserved ==
  ASSUME TypeOK, DeadlineInv, [Next]_vars
  PROVE  DeadlineInv'
<1>1. ASSUME NEW d \in Dates, Begin(d) PROVE DeadlineInv'
  BY <1>1, UpstreamsAssumption
     DEF Begin, EnterWeb, Send, Reserve, TypeOK, DeadlineInv, Running
<1>2. ASSUME NEW d \in Dates, Grant(d) PROVE DeadlineInv'
  BY <1>2 DEF Grant, Send, TypeOK, DeadlineInv, Running, flightVars
<1>3. ASSUME NEW d \in Dates, GiveUpWaiting(d) \/ NASAFails(d) PROVE DeadlineInv'
  BY <1>3, DeadlineAfterNASA DEF GiveUpWaiting, NASAFails
<1>4. ASSUME NEW d \in Dates,
             \/ BeginCanceled(d) \/ NASAAnswers(d) \/ WebAnswers(d)
             \/ NothingFound(d) \/ WebFails(d)
      PROVE  DeadlineInv'
  BY <1>4, DeadlineAtEnd
     DEF BeginCanceled, NASAAnswers, WebAnswers, NothingFound, WebFails, Fail
<1>5. ASSUME NEW d \in Dates, SearchAgain(d) \/ Cancel(d) PROVE DeadlineInv'
  BY <1>5 DEF SearchAgain, Cancel, DeadlineInv, flightVars
<1>6. CASE Tick
  BY <1>6 DEF Tick, Due, TypeOK, DeadlineInv, flightVars
<1>7. CASE UNCHANGED vars
  BY <1>7 DEF vars, DeadlineInv, flightVars
<1> QED
  BY <1>1, <1>2, <1>3, <1>4, <1>5, <1>6, <1>7 DEF Next, FlightStep

(* A flight ends within the deadlines of its two upstreams.                 *)
THEOREM UpstreamsFetchBounded == Spec => []FetchBounded
<1>1. Init => DeadlineInv
  BY DEF Init, DeadlineInv, Running
<1>2. TypeOK /\ DeadlineInv /\ [Next]_vars => DeadlineInv'
  BY DeadlinePreserved
<1>3. TypeOK /\ DeadlineInv => FetchBounded
  BY UpstreamsAssumption DEF TypeOK, DeadlineInv, FetchBounded, Running
<1> QED
  BY UpstreamsTypeOK, <1>1, <1>2, <1>3, PTL DEF Spec

-----------------------------------------------------------------------------
(* Every answer is a picture of the date it was asked for.                  *)
THEOREM UpstreamsPictureOfTheDay == Spec => []PictureOfTheDay
<1>1. Init => PictureOfTheDay
  <2>1. Init => \A d \in Dates : answer[d] = NoAnswer
    BY DEF Init
  <2>2. NoAnswer.of = {}
    BY DEF NoAnswer, Failed
  <2> QED
    BY <2>1, <2>2 DEF PictureOfTheDay
<1>2. ASSUME TypeOK, PictureOfTheDay, [Next]_vars PROVE PictureOfTheDay'
  <2>1. ASSUME NEW d \in Dates, NASAAnswers(d) PROVE PictureOfTheDay'
    <3>1. PICK reply \in Replies : \E i \in DOMAIN reply :
            /\ reply[i].date = d
            /\ MediaLink(reply[i]) = "asset"
            /\ End(d, Picture("nasa", reply[i].date, reply[i].media, MediaLink(reply[i])))
      BY <2>1 DEF NASAAnswers, Picked, Usable
    <3> QED
      BY <1>2, <3>1 DEF PictureOfTheDay, TypeOK, End, Picture
  <2>2. ASSUME NEW d \in Dates, WebAnswers(d) PROVE PictureOfTheDay'
    <3>1. PICK found \in Searches : \E i \in DOMAIN found :
            /\ found[i].body = d
            /\ End(d, Picture("web", found[i].body, MediaOf(found[i]), "asset"))
      BY <2>2 DEF WebAnswers, Valid
    <3> QED
      BY <1>2, <3>1 DEF PictureOfTheDay, TypeOK, End, Picture
  <2>3. ASSUME NEW d \in Dates, NEW s, End(d, Failed(s))
        PROVE  PictureOfTheDay'
    BY <1>2, <2>3 DEF PictureOfTheDay, TypeOK, End, Failed
  <2>4. ASSUME UNCHANGED answer PROVE PictureOfTheDay'
    BY <1>2, <2>4 DEF PictureOfTheDay
  <2>5. ASSUME NEW d \in Dates, Fail(d) PROVE PictureOfTheDay'
    BY <2>3, <2>5 DEF Fail
  <2>6. ASSUME NEW d \in Dates, GiveUpWaiting(d) \/ NASAFails(d) PROVE PictureOfTheDay'
    BY <2>4, <2>5, <2>6 DEF GiveUpWaiting, NASAFails, AfterNASA, EnterWeb
  <2>7. ASSUME NEW d \in Dates, BeginCanceled(d) \/ NothingFound(d) \/ WebFails(d)
        PROVE  PictureOfTheDay'
    BY <2>3, <2>5, <2>7 DEF BeginCanceled, NothingFound, WebFails
  <2>8. ASSUME NEW d \in Dates, Begin(d) \/ Grant(d) \/ SearchAgain(d) \/ Cancel(d)
        PROVE  PictureOfTheDay'
    BY <2>4, <2>8 DEF Begin, EnterWeb, Grant, SearchAgain, Cancel
  <2>9. ASSUME Tick \/ UNCHANGED vars PROVE PictureOfTheDay'
    BY <2>4, <2>9 DEF Tick, vars
  <2> QED
    BY <1>2, <2>1, <2>2, <2>6, <2>7, <2>8, <2>9 DEF Next, FlightStep
<1> QED
  BY UpstreamsTypeOK, <1>1, <1>2, PTL DEF Spec
=============================================================================
