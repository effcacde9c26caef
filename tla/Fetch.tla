-------------------------------- MODULE Fetch --------------------------------
(***************************************************************************)
(* fetch.Service.GetAPOD and the work it shares between callers.           *)
(*                                                                         *)
(* A call looks in the memory cache, then in Redis, and otherwise joins    *)
(* the singleflight "apod:data:<date>".  The first caller of a flight      *)
(* leads it: the flight runs in a goroutine of its own but with the        *)
(* context of the leader and with the leader's permission to fall back on  *)
(* another day.  The flight asks the NASA API, then NASA Science, stores   *)
(* what it got in both caches and starts the image download.               *)
(*                                                                         *)
(* Days are numbers, an APOD record is the date it carries.  The two       *)
(* caches are seen from outside: an entry may disappear at any time        *)
(* (expiry, eviction, Redis TTL), and Redis may fail to answer or to       *)
(* store at any call (circuit open, timeout), or store late or twice.      *)
(***************************************************************************)
EXTENDS Integers, FiniteSets

CONSTANTS Requests,    \* the calls of GetAPOD: HTTP handlers and cron prefetches
          LastDay,     \* bound: the days of the model are 1..LastDay
          ImageDates,  \* the days whose APOD is an image, not a video
          None

Dates == 1..LastDay

Found  == {"memory", "redis", "nasa", "web", "memory-fallback", "redis-fallback"}
Errors == {"canceled", "failed", "invalid"}

NoAnswer == [source |-> "", date |-> None]
Got(source, date) == [source |-> source, date |-> date]
Error(source) == [source |-> source, date |-> None]

\* A source of data comes with a record, an error without one.
Entry  == [date : Dates, permanent : BOOLEAN]
Answer == [source : Found, date : Dates] \cup [source : Errors, date : {None}]
            \cup {NoAnswer}

ASSUME FetchAssumption ==
  /\ LastDay \in Nat \ {0}
  /\ ImageDates \subseteq Dates
  /\ None \notin Dates
  /\ None \notin Requests

VARIABLES
  day,        \* today's date in NASA's time zone, by this server's clock
  ahead,      \* history: the days whose record was got before they came
  mem,        \* the memory cache, key -> entry or None
  kv,         \* Redis, key -> date of the stored record or None
  kvLast,     \* Redis "apod:last_date"
  downloads,  \* the dates for which an image download was started; a record that
              \* Redis had at the start is left to the process that stored it
  pc,         \* where each call is
  asked,      \* the date a call was made with, None when it named no date
  key,        \* dateStr of each call: the date it looks up
  canceled,   \* the calls whose context is done
  joined,     \* the flight a call waits for, named by its leader
  answer,     \* what a call returned; before that, what it read from Redis
  sf,         \* the singleflight group: key -> leader of the running flight
  fpc,        \* where the flight led by each call is
  fres        \* the result of that flight

callVars   == <<pc, asked, key, joined, answer>>
flightVars == <<sf, fpc, fres>>
storeVars  == <<mem, kv, kvLast, downloads>>
days == <<day, ahead>>
vars == <<days, storeVars, callVars, canceled, flightVars>>

-----------------------------------------------------------------------------
(* A process starts with an empty memory cache.  Redis holds whatever the  *)
(* processes before it stored and did not expire, records of days to come  *)
(* among them.                                                             *)
Init ==
  /\ day \in Dates
  /\ mem = [d \in Dates |-> None]
  /\ kv \in {m \in [Dates -> Dates \cup {None}] : \A d \in Dates : m[d] \in {d, None}}
  /\ kvLast \in Dates \cup {None}
  /\ kvLast = None => \A d \in Dates : kv[d] = None
  /\ ahead = {d \in Dates : kv[d] # None /\ d > day}
  /\ downloads = {d \in ImageDates : kv[d] # None}
  /\ pc = [r \in Requests |-> "idle"]
  /\ asked = [r \in Requests |-> None]
  /\ key = [r \in Requests |-> None]
  /\ canceled = {}
  /\ joined = [r \in Requests |-> None]
  /\ answer = [r \in Requests |-> NoAnswer]
  /\ sf = [d \in Dates |-> None]
  /\ fpc = [r \in Requests |-> "none"]
  /\ fres = [r \in Requests |-> NoAnswer]

(* The memory cache as a caller of Set sees it: an entry filed under a key  *)
(* other than today's never expires, one filed under today's does.         *)
\* Mutated form: every entry is permanent.
CacheSetWithoutTTL(d, record) ==
  mem' = [mem EXCEPT ![d] = [date |-> record, permanent |-> TRUE]]

CacheSet(d, record) ==
  mem' = [mem EXCEPT ![d] = [date |-> record, permanent |-> d # day]]

(* Redis stores the record and its "last date" in one transaction, or, when *)
(* the circuit is open or the call fails, nothing.                         *)
KVSet(d) ==
  \/ /\ kv' = [kv EXCEPT ![d] = d]
     /\ kvLast' = d
  \/ UNCHANGED <<kv, kvLast>>

Return(r, a) ==
  /\ pc' = [pc EXCEPT ![r] = "done"]
  /\ answer' = [answer EXCEPT ![r] = a]

-----------------------------------------------------------------------------
(* GetAPOD, the caller's side.                                              *)

\* The date is parsed, or read off the clock when the call names none.
BeginCall(r) ==
  /\ pc[r] = "idle"
  /\ \E a \in Dates \cup {None} :
       /\ asked' = [asked EXCEPT ![r] = a]
       /\ key' = [key EXCEPT ![r] = IF a = None THEN day ELSE a]
  /\ pc' = [pc EXCEPT ![r] = "memory"]
  /\ UNCHANGED <<days, storeVars, joined, answer, canceled, flightVars>>

\* A date that does not parse is refused before anything is looked up.
RejectInvalid(r) ==
  /\ pc[r] = "idle"
  /\ Return(r, Error("invalid"))
  /\ UNCHANGED <<days, storeVars, asked, key, joined, canceled, flightVars>>

LookInMemory(r) ==
  /\ pc[r] = "memory"
  /\ \/ /\ mem[key[r]] # None
        /\ Return(r, Got("memory", mem[key[r]].date))
     \/ /\ mem[key[r]] = None
        /\ pc' = [pc EXCEPT ![r] = "redis"]
        /\ UNCHANGED answer
  /\ UNCHANGED <<days, storeVars, asked, key, joined, canceled, flightVars>>

\* A hit is carried in answer until Refill files it; the other disjunct is a
\* miss, an open circuit or a failed call.
LookInRedis(r) ==
  /\ pc[r] = "redis"
  /\ \/ /\ kv[key[r]] # None
        /\ pc' = [pc EXCEPT ![r] = "refill"]
        /\ answer' = [answer EXCEPT ![r] = Got("redis", kv[key[r]])]
     \/ /\ pc' = [pc EXCEPT ![r] = "join"]
        /\ UNCHANGED answer
  /\ UNCHANGED <<days, storeVars, asked, key, joined, canceled, flightVars>>

Refill(r) ==
  /\ pc[r] = "refill"
  /\ CacheSet(key[r], answer[r].date)
  /\ pc' = [pc EXCEPT ![r] = "done"]
  /\ UNCHANGED <<days, kv, kvLast, downloads, asked, key, joined, answer,
                 canceled, flightVars>>

\* Mutated form: a call starts a flight of its own without looking in the group.
JoinWithoutGroup(r) ==
  /\ pc[r] = "join"
  /\ pc' = [pc EXCEPT ![r] = "waiting"]
  /\ joined' = [joined EXCEPT ![r] = r]
  /\ sf' = [sf EXCEPT ![key[r]] = r]
  /\ fpc' = [fpc EXCEPT ![r] = "start"]
  /\ UNCHANGED <<days, storeVars, asked, key, answer, canceled, fres>>

\* Mutated form: the group has one key for all dates.
JoinWhateverRuns(r) ==
  /\ pc[r] = "join"
  /\ pc' = [pc EXCEPT ![r] = "waiting"]
  /\ \/ /\ \E d \in Dates : sf[d] # None /\ joined' = [joined EXCEPT ![r] = sf[d]]
        /\ UNCHANGED <<sf, fpc>>
     \/ /\ \A d \in Dates : sf[d] = None
        /\ joined' = [joined EXCEPT ![r] = r]
        /\ sf' = [sf EXCEPT ![key[r]] = r]
        /\ fpc' = [fpc EXCEPT ![r] = "start"]
  /\ UNCHANGED <<days, storeVars, asked, key, answer, canceled, fres>>

\* singleflight.DoChan: wait for the running flight of the key, or lead one.
Join(r) ==
  /\ pc[r] = "join"
  /\ pc' = [pc EXCEPT ![r] = "waiting"]
  /\ \/ /\ sf[key[r]] # None
        /\ joined' = [joined EXCEPT ![r] = sf[key[r]]]
        /\ UNCHANGED <<sf, fpc>>
     \/ /\ sf[key[r]] = None
        /\ joined' = [joined EXCEPT ![r] = r]
        /\ sf' = [sf EXCEPT ![key[r]] = r]
        /\ fpc' = [fpc EXCEPT ![r] = "start"]
  /\ UNCHANGED <<days, storeVars, asked, key, answer, canceled, fres>>

\* Mutated form: the caller waits for the flight whatever happens to its context.
NeverReturnCanceled(r) == FALSE /\ UNCHANGED vars

\* The select on ctx.Done(): a caller that is gone need not wait for the flight.
ReturnCanceled(r) ==
  /\ pc[r] = "waiting"
  /\ r \in canceled
  /\ Return(r, Error("canceled"))
  /\ UNCHANGED <<days, storeVars, asked, key, joined, canceled, flightVars>>

\* Mutated form: one channel for the flight, read by the call that led it.
ReceiveOwnFlight(r) ==
  /\ pc[r] = "waiting"
  /\ joined[r] = r
  /\ fpc[r] = "finished"
  /\ Return(r, fres[r])
  /\ UNCHANGED <<days, storeVars, asked, key, joined, canceled, flightVars>>

\* The select on the result channel: every caller of a flight gets its result.
Receive(r) ==
  /\ pc[r] = "waiting"
  /\ fpc[joined[r]] = "finished"
  /\ Return(r, fres[joined[r]])
  /\ UNCHANGED <<days, storeVars, asked, key, joined, canceled, flightVars>>

\* The client goes away or a deadline passes.  (GetAPOD also cancels its own
\* context when it returns; by then a flight it led is canceled or finished.)
Cancel(r) ==
  /\ pc[r] \notin {"idle", "done"}
  /\ r \notin canceled
  /\ canceled' = canceled \cup {r}
  /\ UNCHANGED <<days, storeVars, callVars, flightVars>>

-----------------------------------------------------------------------------
(* The flight led by call f: realFetchLogic under f's context.              *)

Goto(f, label) == fpc' = [fpc EXCEPT ![f] = label]

Finish(f, result) ==
  /\ Goto(f, "return")
  /\ fres' = [fres EXCEPT ![f] = result]

\* The context is looked at before each upstream is tried and before falling back.
StartFlight(f) ==
  /\ fpc[f] = "start"
  /\ \/ f \in canceled /\ Finish(f, Error("canceled"))
     \/ f \notin canceled /\ Goto(f, "nasa") /\ UNCHANGED fres
  /\ UNCHANGED <<days, storeVars, callVars, canceled, sf>>

\* An upstream answers with the record of the requested day, whether or not that
\* day has come by this server's clock.  The answer goes to the memory cache first.
Fetched(f, upstream) ==
  /\ fpc[f] = upstream
  /\ ahead' = ahead \cup {d \in {key[f]} : d > day}
  /\ CacheSet(key[f], key[f])
  /\ Goto(f, "store")
  /\ fres' = [fres EXCEPT ![f] = Got(upstream, key[f])]
  /\ UNCHANGED <<day, kv, kvLast, downloads, callVars, canceled, sf>>

\* Mutated form: the 10 s deadline of the request is taken for the caller's.
NASATimeoutCancels(f) ==
  /\ fpc[f] = "nasa"
  /\ \/ Finish(f, Error("canceled"))
     \/ f \notin canceled /\ Goto(f, "web") /\ UNCHANGED fres
  /\ UNCHANGED <<days, storeVars, callVars, canceled, sf>>

NASAFails(f) ==
  /\ fpc[f] = "nasa"
  /\ \/ f \in canceled /\ Finish(f, Error("canceled"))
     \/ f \notin canceled /\ Goto(f, "web") /\ UNCHANGED fres
  /\ UNCHANGED <<days, storeVars, callVars, canceled, sf>>

\* Mutated form: every flight may fall back on another day.
WebFailsAlwaysFallback(f) ==
  /\ fpc[f] = "web"
  /\ \/ f \in canceled /\ Finish(f, Error("canceled"))
     \/ f \notin canceled /\ Goto(f, "fallback") /\ UNCHANGED fres
  /\ UNCHANGED <<days, storeVars, callVars, canceled, sf>>

WebFails(f) ==
  /\ fpc[f] = "web"
  /\ \/ f \in canceled /\ Finish(f, Error("canceled"))
     \/ /\ f \notin canceled
        /\ \/ asked[f] = None /\ Goto(f, "fallback") /\ UNCHANGED fres
           \/ asked[f] # None /\ Finish(f, Error("failed"))
  /\ UNCHANGED <<days, storeVars, callVars, canceled, sf>>

StoreInRedis(f) ==
  /\ fpc[f] = "store"
  /\ KVSet(key[f])
  /\ Goto(f, "ensure")
  /\ UNCHANGED <<days, mem, downloads, callVars, canceled, sf, fres>>

\* Mutated form: the download is only started for an answer of the NASA API.
EnsureImageOfNASA(f) ==
  /\ fpc[f] = "ensure"
  /\ downloads' = IF fres[f].source = "nasa"
                  THEN downloads \cup ({key[f]} \cap ImageDates) ELSE downloads
  /\ Goto(f, "return")
  /\ UNCHANGED <<days, mem, kv, kvLast, callVars, canceled, sf, fres>>

\* "go s.Image.Ensure(...)" when the record is an image.
EnsureImage(f) ==
  /\ fpc[f] = "ensure"
  /\ downloads' = downloads \cup ({key[f]} \cap ImageDates)
  /\ Goto(f, "return")
  /\ UNCHANGED <<days, mem, kv, kvLast, callVars, canceled, sf, fres>>

\* Cache.GetLast: the entry with the latest date.
Cached == {d \in Dates : mem[d] # None}

FallBackOnMemory(f) ==
  /\ fpc[f] = "fallback"
  /\ \/ \E d \in Cached :
          /\ \A e \in Cached : mem[e].date <= mem[d].date
          /\ Finish(f, Got("memory-fallback", mem[d].date))
     \/ /\ Cached = {}
        /\ Goto(f, "kvlast")
        /\ UNCHANGED fres
  /\ UNCHANGED <<days, storeVars, callVars, canceled, sf>>

\* Mutated form: the record of the last date is not checked for nil.
FallBackOnRedisUnchecked(f) ==
  /\ fpc[f] = "kvlast"
  /\ \/ /\ kvLast # None
        /\ Goto(f, "kvfill")
        /\ fres' = [fres EXCEPT ![f] = Got("redis-fallback", kv[kvLast])]
     \/ Finish(f, Error("failed"))
  /\ UNCHANGED <<days, storeVars, callVars, canceled, sf>>

\* KV.GetLast: the record of "apod:last_date", if Redis answers and still has it.
FallBackOnRedis(f) ==
  /\ fpc[f] = "kvlast"
  /\ \/ /\ kvLast # None
        /\ kv[kvLast] # None
        /\ Goto(f, "kvfill")
        /\ fres' = [fres EXCEPT ![f] = Got("redis-fallback", kv[kvLast])]
     \/ Finish(f, Error("failed"))
  /\ UNCHANGED <<days, storeVars, callVars, canceled, sf>>

\* Mutated form: the old record is filed under the date that was asked for.
RefillLastUnderKey(f) ==
  /\ fpc[f] = "kvfill"
  /\ CacheSet(key[f], fres[f].date)
  /\ Goto(f, "return")
  /\ UNCHANGED <<days, kv, kvLast, downloads, callVars, canceled, sf, fres>>

\* The old record is filed in memory under its own date.
RefillLast(f) ==
  /\ fpc[f] = "kvfill"
  /\ CacheSet(fres[f].date, fres[f].date)
  /\ Goto(f, "return")
  /\ UNCHANGED <<days, kv, kvLast, downloads, callVars, canceled, sf, fres>>

\* singleflight.doCall: the key is free again and the result is on every channel.
Deliver(f) ==
  /\ fpc[f] = "return"
  /\ Goto(f, "finished")
  /\ sf' = IF sf[key[f]] = f THEN [sf EXCEPT ![key[f]] = None] ELSE sf
  /\ UNCHANGED <<days, storeVars, callVars, canceled, fres>>

-----------------------------------------------------------------------------
(* The environment.                                                         *)

NextDay ==
  /\ day < LastDay
  /\ day' = day + 1
  /\ UNCHANGED <<ahead, storeVars, callVars, canceled, flightVars>>

\* Expiry, LRU eviction and Cleanup of the memory cache, seen from outside.
ForgetInMemory(d) ==
  /\ mem[d] # None
  /\ mem' = [mem EXCEPT ![d] = None]
  /\ UNCHANGED <<days, kv, kvLast, downloads, callVars, canceled, flightVars>>

\* The TTL of a Redis key.  "apod:last_date" has none.
ExpireInRedis(d) ==
  /\ kv[d] # None
  /\ kv' = [kv EXCEPT ![d] = None]
  /\ UNCHANGED <<days, mem, kvLast, downloads, callVars, canceled, flightVars>>

\* A Set that was given up or sent twice is executed after all, or once more:
\* the transaction writes the record again and is the last one again.
StoreAgain(f) ==
  /\ fpc[f] \in {"ensure", "return", "finished"}
  /\ fres[f].source \in {"nasa", "web"}
  /\ kv' = [kv EXCEPT ![key[f]] = key[f]]
  /\ kvLast' = key[f]
  /\ UNCHANGED <<days, mem, downloads, callVars, canceled, flightVars>>

-----------------------------------------------------------------------------
CallerStep(r) ==
  \/ LookInMemory(r) \/ LookInRedis(r) \/ Refill(r) \/ Join(r)
  \/ ReturnCanceled(r) \/ Receive(r)

FlightStep(f) ==
  \/ StartFlight(f) \/ NASAFails(f) \/ WebFails(f)
  \/ Fetched(f, "nasa") \/ Fetched(f, "web")
  \/ StoreInRedis(f) \/ EnsureImage(f)
  \/ FallBackOnMemory(f) \/ FallBackOnRedis(f) \/ RefillLast(f) \/ Deliver(f)

Next ==
  \/ \E r \in Requests : BeginCall(r) \/ RejectInvalid(r) \/ Cancel(r)
  \/ \E r \in Requests : CallerStep(r)
  \/ \E f \in Requests : FlightStep(f)
  \/ NextDay
  \/ \E d \in Dates : ForgetInMemory(d) \/ ExpireInRedis(d)
  \/ \E f \in Requests : StoreAgain(f)

Spec == Init /\ [][Next]_vars

(* Goroutines are scheduled, and every upstream call ends: the limiter and  *)
(* the NASA request have 10 s, the NASA Science search has 8 s.  Nothing    *)
(* obliges clients to call or leave, days to pass or entries to expire.     *)
CallersRun == \A r \in Requests : WF_vars(CallerStep(r))
FlightsRun == \A f \in Requests : WF_vars(FlightStep(f))

\* Flights may hang; what needs them to end says so.
FairSpec == Spec /\ CallersRun

-----------------------------------------------------------------------------
(* Types; in particular no call is answered with a source of data and no    *)
(* record: KV.GetLast and Cache.GetLast are checked for nil.               *)
TypeOK ==
  /\ day \in Dates
  /\ ahead \subseteq Dates
  /\ mem \in [Dates -> Entry \cup {None}]
  /\ kv \in [Dates -> Dates \cup {None}]
  /\ kvLast \in Dates \cup {None}
  /\ downloads \subseteq Dates
  /\ pc \in [Requests -> {"idle", "memory", "redis", "refill", "join",
                          "waiting", "done"}]
  /\ asked \in [Requests -> Dates \cup {None}]
  /\ key \in [Requests -> Dates \cup {None}]
  /\ canceled \subseteq Requests
  /\ joined \in [Requests -> Requests \cup {None}]
  /\ answer \in [Requests -> Answer]
  /\ sf \in [Dates -> Requests \cup {None}]
  /\ fpc \in [Requests -> {"none", "start", "nasa", "web", "store", "ensure",
                           "fallback", "kvlast", "kvfill", "return", "finished"}]
  /\ fres \in [Requests -> Answer]

Running(f) == fpc[f] \notin {"none", "finished"}

(* A record is only ever filed under the date it carries, in both caches,   *)
(* although a fallback returns a record of another day for the key that was *)
(* asked for, and Redis records are copied back into memory by two paths.   *)
CachesNotPoisoned ==
  \A d \in Dates : /\ mem[d] # None => mem[d].date = d
                   /\ kv[d] # None => kv[d] = d

(* The memory entry of the current day has a TTL, whichever path filed it   *)
(* and across midnight: otherwise a picture that NASA corrects during the  *)
(* day would be served until it is evicted.  The one exception is a day     *)
(* whose record was got ahead of it, through a call that named the day:    *)
(* what is filed then stays permanent when the day comes.                  *)
TodayExpires == mem[day] # None /\ mem[day].permanent => day \in ahead

(* singleflight: the upstreams are asked for a date by one flight at a time.*)
OneFlightPerDate ==
  \A f, g \in Requests : Running(f) /\ Running(g) /\ key[f] = key[g] => f = g

(* A call that names a date gets a record of another day only when it       *)
(* joined a flight led by a call that names none, and only as a fallback.   *)
SubstituteOnlyByJoining ==
  \A r \in Requests :
    pc[r] = "done" /\ answer[r].date \notin {None, key[r]} /\ asked[r] # None =>
      /\ joined[r] \in Requests \ {r}
      /\ asked[joined[r]] = None
      /\ answer[r].source \in {"memory-fallback", "redis-fallback"}

(* A call is told "canceled" only if its own context is done or, the price  *)
(* of sharing, the context of the call that leads its flight.               *)
CanceledHasACause ==
  \A r \in Requests :
    pc[r] = "done" /\ answer[r].source = "canceled" =>
      r \in canceled \/ joined[r] \in canceled

\* The download of the image of d was started, or a flight that is storing the
\* record of d is about to start it.
OnItsWay(d) ==
  d \in downloads \/ \E f \in Requests : key[f] = d /\ fpc[f] \in {"store", "ensure"}

(* Whoever is sent the record of an image, from an upstream, as a fallback  *)
(* or from a cache where it is before its download begins, need not ask     *)
(* again for the download to begin: it has, or the flight that brought the  *)
(* record is on the way to it, even if all who waited for it are gone.     *)
ImagesFollow ==
  \A r \in Requests :
    pc[r] = "done" /\ answer[r].date \in ImageDates => OnItsWay(answer[r].date)

\* A call as its caller sees it: idle, pending until it returns, and then done.
Call(r) == IF pc[r] \in {"idle", "done"} THEN pc[r] ELSE "pending"

Callers ==
  INSTANCE Service WITH
    call   <- [r \in Requests |-> Call(r)],
    gone   <- canceled,
    answer <- [r \in Requests |-> IF pc[r] = "done" THEN answer[r] ELSE NoAnswer]

(* For all that callers see, two caches, two upstreams, fallbacks and       *)
(* shared flights are a service that answers each call once, with what     *)
(* Service allows: never with a day that has neither come nor been         *)
(* published, never with the record or cancellation of another date's call.*)
ImplementsService == Callers!Spec

(* Every call of GetAPOD returns, if the flights run to their end.          *)
EveryCallReturns ==
  FlightsRun => \A r \in Requests : pc[r] = "memory" ~> pc[r] = "done"

(* A caller that is gone returns even when no upstream ever answers.        *)
LeaversReturn ==
  \A r \in Requests : pc[r] = "waiting" /\ r \in canceled ~> pc[r] = "done"

(* What README.md says of a call with a date: it gets that date or an error.*)
ExplicitDateNeverSubstituted ==
  \A r \in Requests :
    pc[r] = "done" /\ asked[r] # None => answer[r].date \in {None, asked[r]}
=============================================================================
