------------------------------ MODULE Upstreams ------------------------------
(***************************************************************************)
(* The two upstreams of a flight: the NASA API behind its rate limiter     *)
(* (fetchFromNASA) and the article search of NASA Science (fetchFromWeb).  *)
(*                                                                         *)
(* The singleflight group runs one flight per date, so a flight is named   *)
(* by its date; the date can be fetched again once its flight has ended.   *)
(* What Fetch sees as "nasa fails" and "web fails" happens here: waiting   *)
(* for the limiter inside the request's own deadline, picking the record   *)
(* of the date out of a collection, and searching Science once or twice    *)
(* under one deadline.                                                     *)
(*                                                                         *)
(* Time is counted in ticks of a second, the period of rate.NewLimiter(1,  *)
(* 2); deadlines are whole ticks.  The clock does not move past an expired *)
(* deadline, a due grant or a canceled context before the flight waiting   *)
(* on it has run: Go's timers and the scheduler are taken to be prompt     *)
(* compared with a second.                                                 *)
(***************************************************************************)
EXTENDS Integers, FiniteSets, Sequences

CONSTANTS Dates,         \* the dates that are fetched
          ShortDates,    \* those whose day of the month has one digit
          Burst,         \* burst of the limiter (2 in app.go)
          NASADeadline,  \* of one call of the NASA API, waiting included (10 s)
          WebDeadline,   \* of all searches of a flight together (8 s)
          LastBegin,     \* bound: no flight begins after this tick
          Replies,       \* what the NASA API can send: sequences of items
          Searches       \* what a search can find: sequences of articles

\* An image item has its asset in hdurl and the page of its article in url.  A
\* link is a media asset, a page about it, or none that can be used.
Links == {"asset", "page", "none"}
Item  == [date : Dates, media : {"image", "video", "other"},
          url : Links, hdurl : Links, texts : BOOLEAN]

\* An article names its date in the title and in the body, and may hold a
\* player, a picture or both; linked says that its own link is one to an article.
Article == [title : Dates, body : Dates, media : SUBSET {"image", "video"},
            linked : BOOLEAN, texts : BOOLEAN]

ASSUME UpstreamsAssumption ==
  /\ ShortDates \subseteq Dates
  /\ Burst \in Nat \ {0}
  /\ NASADeadline \in Nat \ {0}
  /\ WebDeadline \in Nat \ {0}
  /\ LastBegin \in Nat
  /\ Replies \subseteq Seq(Item)
  /\ Searches \subseteq Seq(Article)

VARIABLES
  clock,      \* seconds passed
  tokens,     \* the limiter's bucket; below zero, the tokens promised to waiters
  lastEvent,  \* the limiter's latest promised time
  sent,       \* the requests that went to the NASA API, numbered, with their time
  pc,         \* where the flight of a date is
  started,    \* when it began
  deadline,   \* of the upstream it is at
  act,        \* the time the limiter promised it
  search,     \* the search it is at, 0 before the first
  canceled,   \* the flights whose leader's context is done
  answer      \* what it ended with

limiterVars == <<tokens, lastEvent>>
flightVars  == <<started, deadline, act>>
vars == <<clock, limiterVars, sent, pc, flightVars, search, canceled, answer>>

\* Every flight begun in time has ended by then.
LastTick == LastBegin + NASADeadline + WebDeadline
Running  == {"waiting", "asked", "web"}

\* The picture a flight answers with: the upstream, the day the picture is of,
\* its media type and what its media URL points at.
Picture(source, of, media, link) ==
  [source |-> source, of |-> {of}, media |-> media, link |-> link]
Failed(source) == [source |-> source, of |-> {}, media |-> "", link |-> ""]
NoAnswer == Failed("")

Init ==
  /\ clock = 0
  /\ tokens = Burst
  /\ lastEvent = 0
  /\ sent = {}
  /\ pc = [d \in Dates |-> "idle"]
  /\ started = [d \in Dates |-> 0]
  /\ deadline = [d \in Dates |-> 0]
  /\ act = [d \in Dates |-> 0]
  /\ search = [d \in Dates |-> 0]
  /\ canceled = {}
  /\ answer = [d \in Dates |-> NoAnswer]

-----------------------------------------------------------------------------
(* The limiter of golang.org/x/time/rate.                                  *)

Least(a, b) == IF a <= b THEN a ELSE b

\* How long a reservation made now has to wait for its token.
Delay == IF tokens >= 1 THEN 0 ELSE 1 - tokens

\* Mutated form: Wait is given the leader's context, which has no deadline.
NeverRefused == FALSE

\* Limiter.Wait makes no reservation that would outlast the context it is given.
Refused == Delay > NASADeadline

Reserve(d) ==
  /\ tokens' = tokens - 1
  /\ lastEvent' = clock + Delay
  /\ act' = [act EXCEPT ![d] = clock + Delay]

\* Reservation.Cancel gives back what later reservations have not built on.
CancelReservation(d) ==
  LET restored == 1 - (lastEvent - act[d])
  IN IF act[d] < clock \/ restored <= 0
     THEN UNCHANGED limiterVars
     ELSE /\ tokens' = Least(Burst, tokens + restored)
          /\ lastEvent' = IF act[d] = lastEvent /\ act[d] - 1 >= clock
                          THEN act[d] - 1 ELSE lastEvent

-----------------------------------------------------------------------------
(* realFetchLogic.                                                         *)

\* What a flight keeps of its own goes with it: all but its answer is reset.
End(d, a) ==
  /\ pc' = [pc EXCEPT ![d] = "done"]
  /\ answer' = [answer EXCEPT ![d] = a]
  /\ started' = [started EXCEPT ![d] = 0]
  /\ deadline' = [deadline EXCEPT ![d] = 0]
  /\ act' = [act EXCEPT ![d] = 0]
  /\ search' = [search EXCEPT ![d] = 0]
  /\ canceled' = canceled \ {d}

\* The context is looked at again before the flight falls back or fails.
Fail(d) == End(d, Failed(IF d \in canceled THEN "canceled" ELSE "failed"))

Send(d) ==
  /\ pc' = [pc EXCEPT ![d] = "asked"]
  /\ sent' = sent \cup {[n |-> Cardinality(sent), at |-> clock]}

\* fetchFromWeb: a deadline of its own, and the padded form of the date first.
EnterWeb(d) ==
  /\ pc' = [pc EXCEPT ![d] = "web"]
  /\ deadline' = [deadline EXCEPT ![d] = clock + WebDeadline]
  /\ search' = [search EXCEPT ![d] = 1]
  /\ act' = [act EXCEPT ![d] = 0]
  /\ UNCHANGED <<canceled, answer>>

\* The NASA API gave no record: Science is next, unless the leader is gone.
AfterNASA(d) ==
  \/ d \in canceled /\ Fail(d)
  \/ d \notin canceled /\ EnterWeb(d) /\ UNCHANGED started

\* A leader that is gone before its flight begins.
BeginCanceled(d) ==
  /\ pc[d] \in {"idle", "done"}
  /\ clock <= LastBegin
  /\ End(d, Failed("canceled"))
  /\ UNCHANGED <<clock, limiterVars, sent>>

\* fetchFromNASA up to the limiter: a token at once, a promise, or a refusal.
Begin(d) ==
  /\ pc[d] \in {"idle", "done"}
  /\ clock <= LastBegin
  /\ started' = [started EXCEPT ![d] = clock]
  /\ \/ /\ Refused
        /\ EnterWeb(d)
        /\ UNCHANGED <<limiterVars, sent>>
     \/ /\ ~Refused
        /\ Reserve(d)
        /\ deadline' = [deadline EXCEPT ![d] = clock + NASADeadline]
        /\ \/ Delay = 0 /\ Send(d)
           \/ Delay > 0 /\ pc' = [pc EXCEPT ![d] = "waiting"] /\ UNCHANGED sent
        /\ UNCHANGED <<search, canceled, answer>>
  /\ UNCHANGED clock

\* Mutated form: the request is sent without waiting for the promised time.
GrantEarly(d) ==
  /\ pc[d] = "waiting"
  /\ Send(d)
  /\ UNCHANGED <<clock, limiterVars, flightVars, search, canceled, answer>>

\* The promised time has come.  If the context is done too, Wait returns either.
Grant(d) ==
  /\ pc[d] = "waiting"
  /\ clock >= act[d]
  /\ Send(d)
  /\ UNCHANGED <<clock, limiterVars, flightVars, search, canceled, answer>>

GiveUpWaiting(d) ==
  /\ pc[d] = "waiting"
  /\ d \in canceled \/ clock >= deadline[d]
  /\ CancelReservation(d)
  /\ AfterNASA(d)
  /\ UNCHANGED <<clock, sent>>

-----------------------------------------------------------------------------
(* What is taken from an answer of the NASA API.                           *)

\* Mutated form: the first item is the answer, whatever its date.
PickedFirst(reply, d, i) == i = 1

\* decodeNASAResponse: the first item of the requested date.
Picked(reply, d, i) ==
  /\ reply[i].date = d
  /\ \A j \in 1..(i - 1) : reply[j].date # d

\* The media URL of an image item is hdurl; url is the page of its article.
MediaLink(item) == IF item.media = "image" THEN item.hdurl ELSE item.url

Usable(item) ==
  /\ item.media \in {"image", "video"}
  /\ MediaLink(item) = "asset"
  /\ item.texts

NASAAnswers(d) ==
  /\ pc[d] = "asked"
  /\ \E reply \in Replies : \E i \in DOMAIN reply :
       /\ Picked(reply, d, i)
       /\ Usable(reply[i])
       /\ End(d, Picture("nasa", reply[i].date, reply[i].media, MediaLink(reply[i])))
  /\ UNCHANGED <<clock, limiterVars, sent>>

\* No answer in time, a status or a body that is refused, or a collection whose
\* item of the date is missing or not usable.
NASAFails(d) ==
  /\ pc[d] = "asked"
  /\ AfterNASA(d)
  /\ UNCHANGED <<clock, limiterVars, sent>>

-----------------------------------------------------------------------------
(* The articles of NASA Science.                                           *)

\* Mutated form: the date of the title is enough.
ValidByTitle(article, d) ==
  article.title = d /\ article.linked /\ article.texts /\ article.media # {}

\* parseScienceArticle: the title and the body both carry the requested date.
Valid(article, d) ==
  /\ article.title = d
  /\ article.linked
  /\ article.body = d
  /\ article.texts
  /\ article.media # {}

\* extractScienceMedia: a player wins over the picture shown with it.
MediaOf(article) == IF "video" \in article.media THEN "video" ELSE "image"

WebAnswers(d) ==
  /\ pc[d] = "web"
  /\ \E found \in Searches : \E i \in DOMAIN found :
       /\ Valid(found[i], d)
       /\ \A j \in 1..(i - 1) : ~Valid(found[j], d)
       /\ End(d, Picture("web", found[i].body, MediaOf(found[i]), "asset"))
  /\ UNCHANGED <<clock, limiterVars, sent>>

\* The padded and the unpadded form of a date differ for a one-digit day only.
Queries(d) == IF d \in ShortDates THEN 2 ELSE 1

\* Not every search finds a valid article.
NoneValid(d) ==
  ~\A found \in Searches : \E i \in DOMAIN found : Valid(found[i], d)

\* Mutated form: every search has the whole of WebDeadline to itself.
SearchAgainAfresh(d) ==
  /\ pc[d] = "web"
  /\ NoneValid(d)
  /\ search[d] < Queries(d)
  /\ search' = [search EXCEPT ![d] = @ + 1]
  /\ deadline' = [deadline EXCEPT ![d] = clock + WebDeadline]
  /\ UNCHANGED <<clock, limiterVars, sent, pc, started, act, canceled, answer>>

\* A search that found nothing valid is followed by the next, in the same deadline.
SearchAgain(d) ==
  /\ pc[d] = "web"
  /\ NoneValid(d)
  /\ search[d] < Queries(d)
  /\ search' = [search EXCEPT ![d] = @ + 1]
  /\ UNCHANGED <<clock, limiterVars, sent, pc, flightVars, canceled, answer>>

NothingFound(d) ==
  /\ pc[d] = "web"
  /\ NoneValid(d)
  /\ search[d] = Queries(d)
  /\ Fail(d)
  /\ UNCHANGED <<clock, limiterVars, sent>>

\* A failed search ends fetchFromWeb: the second form of the date is not tried.
WebFails(d) ==
  /\ pc[d] = "web"
  /\ Fail(d)
  /\ UNCHANGED <<clock, limiterVars, sent>>

-----------------------------------------------------------------------------
\* The leader's client goes away, or its deadline passes.
Cancel(d) ==
  /\ pc[d] \in Running
  /\ d \notin canceled
  /\ canceled' = canceled \cup {d}
  /\ UNCHANGED <<clock, limiterVars, sent, pc, flightVars, search, answer>>

\* The flight of d has something to do at once.
Due(d) ==
  /\ pc[d] \in Running
  /\ \/ d \in canceled
     \/ clock >= deadline[d]
     \/ pc[d] = "waiting" /\ clock >= act[d]

Tick ==
  /\ clock < LastTick
  /\ \A d \in Dates : ~Due(d)
  /\ clock' = clock + 1
  /\ tokens' = Least(Burst, tokens + 1)
  /\ UNCHANGED <<lastEvent, sent, pc, flightVars, search, canceled, answer>>

FlightStep(d) ==
  \/ BeginCanceled(d) \/ Begin(d) \/ Grant(d) \/ GiveUpWaiting(d)
  \/ NASAAnswers(d) \/ NASAFails(d)
  \/ WebAnswers(d) \/ SearchAgain(d) \/ NothingFound(d) \/ WebFails(d)
  \/ Cancel(d)

Next == Tick \/ \E d \in Dates : FlightStep(d)

Spec == Init /\ [][Next]_vars

-----------------------------------------------------------------------------
Answers == [source : {"nasa", "web"}, of : {{d} : d \in Dates},
            media : {"image", "video"}, link : Links]
              \cup {Failed(s) : s \in {"", "canceled", "failed"}}

\* Type invariant.  A date is searched for in as many forms as it has, and the
\* bucket never holds more than its burst.
TypeOK ==
  /\ clock \in 0..LastTick
  /\ tokens \in Int
  /\ tokens <= Burst
  /\ lastEvent \in Nat
  /\ sent \subseteq [n : Nat, at : 0..LastTick]
  /\ pc \in [Dates -> Running \cup {"idle", "done"}]
  /\ started \in [Dates -> 0..LastBegin]
  /\ deadline \in [Dates -> Nat]
  /\ act \in [Dates -> Nat]
  /\ search \in [Dates -> 0..2]
  /\ \A d \in Dates : search[d] <= Queries(d)
  /\ canceled \subseteq Dates
  /\ answer \in [Dates -> Answers]

\* The requests sent from second t on, up to and including second u.
SentBetween(t, u) == {r \in sent : r.at \in t..u}

\* The NASA API never sees more than one request a second on top of the burst,
\* over any stretch of time, whoever gives up waiting and starts anew
\* (fetchFromNASA's Limiter.Wait).
RateKept ==
  \A t, u \in 0..LastTick : t <= u => Cardinality(SentBetween(t, u)) <= Burst + (u - t)

\* The flights queued behind the limiter never outnumber the seconds a flight is
\* given: one more would only wait to time out, and goes to Science at once
\* (fetchCtx is the context of Limiter.Wait).
QueueBounded ==
  Cardinality({d \in Dates : pc[d] = "waiting" /\ act[d] > clock}) <= NASADeadline

\* A flight ends within the two deadlines of its upstreams: 18 s, so that the
\* prefetch's own 20 s never cut it short (fetchFromNASA, fetchFromWeb: "All
\* searches share one deadline").
FetchBounded ==
  \A d \in Dates :
    pc[d] \in Running => clock <= started[d] + NASADeadline + WebDeadline

\* What a flight answers with is a picture of its own date, never another day's
\* relabelled, and its media URL is the asset and not a page about it
\* (decodeNASAResponse, fetchFromNASA, parseScienceArticle).
PictureOfTheDay ==
  \A d \in Dates : answer[d].of # {} => answer[d].of = {d} /\ answer[d].link = "asset"
=============================================================================
