----------------------------- MODULE FetchProofs -----------------------------
(* Proofs about Fetch, for any set of calls and any number of days.         *)
EXTENDS Fetch, TLAPS

(* The record of d may be known: d has come, or was got ahead of its day.   *)
Out(d) == d <= day \/ d \in ahead

(* What a caller knows at each point: its key, the record that Redis gave   *)
(* it, and the flight it joined, which exists and is for the same key.      *)
CallersInv ==
  \A r \in Requests :
    /\ pc[r] \notin {"idle", "done"} => key[r] \in Dates
    /\ pc[r] = "refill" => answer[r] = Got("redis", key[r]) /\ Out(key[r])
    /\ pc[r] = "waiting" => joined[r] # None
    /\ joined[r] # None => /\ joined[r] \in Requests
                           /\ fpc[joined[r]] # "none"
                           /\ key[joined[r]] = key[r]

(* A flight exists once its leader has joined it; while it runs it holds    *)
(* its key in the singleflight group.                                      *)
FlightsInv ==
  \A f \in Requests :
    /\ pc[f] \in {"idle", "memory", "redis", "refill", "join"}
         => fpc[f] = "none" /\ joined[f] = None
    /\ Running(f) => key[f] \in Dates /\ sf[key[f]] = f

(* A key of the group is held by a flight of that key.                      *)
GroupInv ==
  \A d \in Dates : sf[d] # None => /\ sf[d] \in Requests
                                  /\ fpc[sf[d]] # "none"
                                  /\ key[sf[d]] = d

(* What a flight is about to store or has got, and on what authority.       *)
ResultOK(f) ==
  /\ fpc[f] = "none" => fres[f].source = ""
  /\ fpc[f] \in {"store", "ensure"} =>
       Out(key[f]) /\ fres[f].source \in {"nasa", "web"}
  /\ fpc[f] \in {"fallback", "kvlast", "kvfill"} => asked[f] = None
  /\ fpc[f] = "kvfill" =>
       fres[f].source = "redis-fallback" /\ Out(fres[f].date)
  /\ fres[f].source \in {"nasa", "web"} =>
       fpc[f] \in {"store", "ensure", "return", "finished"} /\ fres[f].date = key[f]
  /\ fres[f].source \in {"memory-fallback", "redis-fallback"} => asked[f] = None
  /\ fres[f].source = "canceled" => f \in canceled
  /\ fres[f].source \notin {"memory", "redis", "invalid"}

ResultsInv == \A f \in Requests : ResultOK(f)

(* A flight that ends has a result, and never a record that is not out.     *)
OutcomeOK(f) ==
  /\ fres[f].source \in Found => Out(fres[f].date)
  /\ fpc[f] \in {"return", "finished"} => fres[f].source # ""

OutcomesInv == \A f \in Requests : OutcomeOK(f)

(* Neither cache holds a record that is not out.                            *)
OnlyWhatIsOut ==
  \A d \in Dates : mem[d] # None \/ kv[d] # None => Out(d)

CachesInv == CachesNotPoisoned /\ TodayExpires /\ OnlyWhatIsOut

AnswersInv == SubstituteOnlyByJoining /\ CanceledHasACause

(* Where a record is found, its image is on its way.                        *)
Heard(d) ==
  \/ mem[d] # None \/ kv[d] # None
  \/ \E r \in Requests : answer[r].date = d \/ fres[r].date = d

ImagesInv == \A d \in ImageDates : Heard(d) => OnItsWay(d)

IndInv ==
  /\ TypeOK /\ CallersInv /\ FlightsInv /\ GroupInv
  /\ ResultsInv /\ OutcomesInv /\ CachesInv /\ AnswersInv /\ ImagesInv

-----------------------------------------------------------------------------
(* Facts about the constants and about answers.                             *)

(* None is told apart from dates and calls, and dates are integers.         *)
LEMMA Constants ==
  /\ None \notin Dates /\ None \notin Requests
  /\ ImageDates \subseteq Dates /\ Dates \subseteq Int
  BY FetchAssumption DEF Dates

(* A source of data with a date is an answer.                               *)
LEMMA GotIsAnswer ==
  ASSUME NEW s \in Found, NEW d \in Dates PROVE Got(s, d) \in Answer
  BY DEF Got, Answer, Found

(* An error without a date is an answer.                                    *)
LEMMA ErrorIsAnswer == ASSUME NEW s \in Errors PROVE Error(s) \in Answer
  BY DEF Error, Answer, Errors

(* An answer carries a date exactly when its source is a source of data.    *)
LEMMA AnswerDates ==
  ASSUME NEW a \in Answer
  PROVE  /\ a.source \in Found => a.date \in Dates
         /\ a.source \notin Found => a.date = None
         /\ a.source \in Found \cup Errors \cup {""}
<1>1. CASE a \in [source : Found, date : Dates]
  BY <1>1 DEF Found, Errors
<1>2. CASE a \in [source : Errors, date : {None}]
  BY <1>2 DEF Found, Errors
<1>3. CASE a = NoAnswer
  BY <1>3 DEF NoAnswer, Found, Errors
<1> QED BY <1>1, <1>2, <1>3 DEF Answer
-----------------------------------------------------------------------------
(* A record that Redis writes late or again is that of a flight's date.     *)
LEMMA AgainForADate ==
  ASSUME TypeOK, ResultsInv, NEW f \in Requests, StoreAgain(f)
  PROVE  key[f] \in Dates
<1>1. fres[f] \in Answer /\ fres[f].source \in {"nasa", "web"} /\ fres[f].date = key[f]
  BY DEF StoreAgain, TypeOK, ResultsInv, ResultOK
<1> QED
  BY <1>1, AnswerDates DEF Found

(* Steps preserve the types.  The values that flow between calls, flights   *)
(* and caches are typed by what the other parts of IndInv say of them.     *)
LEMMA TypeStep ==
  ASSUME TypeOK, CallersInv, FlightsInv, ResultsInv, [Next]_vars
  PROVE  TypeOK'
<1> USE Constants DEF days, storeVars, callVars, flightVars
<1>1. ASSUME NEW r \in Requests, BeginCall(r) PROVE TypeOK'
  BY <1>1 DEF TypeOK, BeginCall
<1>2. ASSUME NEW r \in Requests, RejectInvalid(r) PROVE TypeOK'
  <2>1. Error("invalid") \in Answer
    BY ErrorIsAnswer DEF Errors
  <2> QED BY <1>2, <2>1 DEF TypeOK, RejectInvalid, Return
<1>3. ASSUME NEW r \in Requests, LookInMemory(r) PROVE TypeOK'
  <2>1. CASE mem[key[r]] # None /\ Return(r, Got("memory", mem[key[r]].date))
    <3>1. key[r] \in Dates
      BY <1>3 DEF LookInMemory, CallersInv
    <3>2. mem[key[r]].date \in Dates
      BY <2>1, <3>1 DEF TypeOK, Entry
    <3>3. Got("memory", mem[key[r]].date) \in Answer
      BY <3>2, GotIsAnswer DEF Found
    <3> QED BY <1>3, <2>1, <3>3 DEF TypeOK, LookInMemory, Return
  <2>2. CASE pc' = [pc EXCEPT ![r] = "redis"] /\ UNCHANGED answer
    BY <1>3, <2>2 DEF TypeOK, LookInMemory
  <2> QED BY <1>3, <2>1, <2>2 DEF LookInMemory
<1>4. ASSUME NEW r \in Requests, LookInRedis(r) PROVE TypeOK'
  <2>1. CASE /\ kv[key[r]] # None
             /\ pc' = [pc EXCEPT ![r] = "refill"]
             /\ answer' = [answer EXCEPT ![r] = Got("redis", kv[key[r]])]
    <3>0. key[r] \in Dates
      BY <1>4 DEF LookInRedis, CallersInv
    <3>1. kv[key[r]] \in Dates
      BY <2>1, <3>0 DEF TypeOK
    <3>2. Got("redis", kv[key[r]]) \in Answer
      BY <3>1, GotIsAnswer DEF Found
    <3> QED BY <1>4, <2>1, <3>2 DEF TypeOK, LookInRedis
  <2>2. CASE pc' = [pc EXCEPT ![r] = "join"] /\ UNCHANGED answer
    BY <1>4, <2>2 DEF TypeOK, LookInRedis
  <2> QED BY <1>4, <2>1, <2>2 DEF LookInRedis
<1>5. ASSUME NEW d \in Dates, NEW e \in Dates, CacheSet(d, e)
      PROVE  mem' \in [Dates -> Entry \cup {None}]
  BY <1>5 DEF CacheSet, Entry, TypeOK
<1>6. ASSUME NEW r \in Requests, Refill(r) PROVE TypeOK'
  <2>0. pc[r] = "refill"
    BY <1>6 DEF Refill
  <2>1. key[r] \in Dates /\ answer[r] = Got("redis", key[r])
    BY <2>0 DEF CallersInv
  <2>2. CacheSet(key[r], key[r])
    BY <1>6, <2>1 DEF Refill, Got
  <2>3. mem' \in [Dates -> Entry \cup {None}]
    BY <1>5, <2>1, <2>2
  <2> QED BY <1>6, <2>3 DEF TypeOK, Refill
<1>7. ASSUME NEW r \in Requests, Join(r) PROVE TypeOK'
  <2>1. key[r] \in Dates
    BY <1>7 DEF Join, CallersInv
  <2>2. joined' \in [Requests -> Requests \cup {None}]
    <3>1. sf[key[r]] \in Requests \cup {None}
      BY <2>1 DEF TypeOK
    <3> QED BY <1>7, <3>1 DEF Join, TypeOK
  <2>3. sf' \in [Dates -> Requests \cup {None}]
    BY <1>7, <2>1 DEF Join, TypeOK
  <2> QED BY <1>7, <2>2, <2>3 DEF TypeOK, Join
<1>8. ASSUME NEW r \in Requests, ReturnCanceled(r) PROVE TypeOK'
  <2>1. Error("canceled") \in Answer
    BY ErrorIsAnswer DEF Errors
  <2> QED BY <1>8, <2>1 DEF TypeOK, ReturnCanceled, Return
<1>9. ASSUME NEW r \in Requests, Receive(r) PROVE TypeOK'
  <2>1. fres[joined[r]] \in Answer
    BY <1>9 DEF Receive, CallersInv, TypeOK
  <2> QED BY <1>9, <2>1 DEF TypeOK, Receive, Return
<1>10. ASSUME NEW r \in Requests, Cancel(r) PROVE TypeOK'
  BY <1>10 DEF TypeOK, Cancel
<1>11. ASSUME NEW f \in Requests, StartFlight(f) \/ NASAFails(f) \/ WebFails(f)
       PROVE  TypeOK'
  <2>1. Error("canceled") \in Answer /\ Error("failed") \in Answer
    BY ErrorIsAnswer DEF Errors
  <2>2. fres' \in [Requests -> Answer]
    BY <1>11, <2>1 DEF TypeOK, StartFlight, NASAFails, WebFails, Finish
  <2>3. /\ fpc' \in [Requests -> {"none", "start", "nasa", "web", "store", "ensure",
                         "fallback", "kvlast", "kvfill", "return", "finished"}]
        /\ UNCHANGED <<day, ahead, mem, kv, kvLast, downloads, pc, asked, key, joined,
                       answer, canceled, sf>>
    BY <1>11 DEF TypeOK, StartFlight, NASAFails, WebFails, Finish, Goto
  <2> QED BY <2>2, <2>3 DEF TypeOK
<1>12. ASSUME NEW f \in Requests, NEW u \in {"nasa", "web"}, Fetched(f, u)
       PROVE  TypeOK'
  <2>1. key[f] \in Dates
    BY <1>12 DEF Fetched, FlightsInv, Running
  <2>2. mem' \in [Dates -> Entry \cup {None}]
    BY <1>5, <1>12, <2>1 DEF Fetched
  <2>3. Got(u, key[f]) \in Answer
    BY <2>1, GotIsAnswer DEF Found
  <2>4. ahead' \subseteq Dates
    BY <1>12, <2>1 DEF TypeOK, Fetched
  <2> QED BY <1>12, <2>2, <2>3, <2>4 DEF TypeOK, Fetched, Goto
<1>13. ASSUME NEW f \in Requests, StoreInRedis(f) PROVE TypeOK'
  <2>1. key[f] \in Dates
    BY <1>13 DEF StoreInRedis, FlightsInv, Running
  <2>2. kv' \in [Dates -> Dates \cup {None}] /\ kvLast' \in Dates \cup {None}
    BY <1>13, <2>1 DEF StoreInRedis, KVSet, TypeOK
  <2> QED BY <1>13, <2>2 DEF TypeOK, StoreInRedis, Goto
<1>14. ASSUME NEW f \in Requests, EnsureImage(f) PROVE TypeOK'
  BY <1>14 DEF TypeOK, EnsureImage, Goto
<1>15. ASSUME NEW f \in Requests, FallBackOnMemory(f) PROVE TypeOK'
  <2>1. \A d \in Cached : Got("memory-fallback", mem[d].date) \in Answer
    <3> SUFFICES ASSUME NEW d \in Cached
                 PROVE  Got("memory-fallback", mem[d].date) \in Answer
      OBVIOUS
    <3>1. mem[d].date \in Dates
      BY DEF Cached, TypeOK, Entry
    <3> QED BY <3>1, GotIsAnswer DEF Found
  <2> QED BY <1>15, <2>1 DEF TypeOK, FallBackOnMemory, Finish, Goto
<1>16. ASSUME NEW f \in Requests, FallBackOnRedis(f) PROVE TypeOK'
  <2>1. Error("failed") \in Answer
    BY ErrorIsAnswer DEF Errors
  <2>2. ASSUME kvLast # None, kv[kvLast] # None
        PROVE  Got("redis-fallback", kv[kvLast]) \in Answer
    <3>1. kv[kvLast] \in Dates
      BY <2>2 DEF TypeOK
    <3> QED BY <3>1, GotIsAnswer DEF Found
  <2> QED BY <1>16, <2>1, <2>2 DEF TypeOK, FallBackOnRedis, Finish, Goto
<1>17. ASSUME NEW f \in Requests, RefillLast(f) PROVE TypeOK'
  <2>1. fres[f].source \in Found /\ fres[f] \in Answer
    BY <1>17 DEF RefillLast, ResultsInv, ResultOK, TypeOK, Found
  <2>2. fres[f].date \in Dates
    BY <2>1, AnswerDates
  <2>3. mem' \in [Dates -> Entry \cup {None}]
    BY <1>5, <1>17, <2>2 DEF RefillLast
  <2> QED BY <1>17, <2>3 DEF TypeOK, RefillLast, Goto
<1>18. ASSUME NEW f \in Requests, Deliver(f) PROVE TypeOK'
  BY <1>18 DEF TypeOK, Deliver, Goto
<1>19. CASE NextDay
  BY <1>19, FetchAssumption DEF TypeOK, NextDay, Dates
<1>20. ASSUME NEW d \in Dates, ForgetInMemory(d) \/ ExpireInRedis(d) PROVE TypeOK'
  BY <1>20 DEF TypeOK, ForgetInMemory, ExpireInRedis
<1>21. ASSUME NEW f \in Requests, StoreAgain(f) PROVE TypeOK'
  <2>1. key[f] \in Dates
    BY <1>21, AgainForADate
  <2> QED BY <1>21, <2>1 DEF TypeOK, StoreAgain
<1>22. CASE UNCHANGED vars
  BY <1>22 DEF TypeOK, vars
<1> QED
  BY <1>1, <1>2, <1>3, <1>4, <1>6, <1>7, <1>8, <1>9, <1>10, <1>11, <1>12, <1>13,
     <1>14, <1>15, <1>16, <1>17, <1>18, <1>19, <1>20, <1>21, <1>22
     DEF Next, CallerStep, FlightStep

-----------------------------------------------------------------------------
(* Steps preserve CallersInv and FlightsInv: a call only joins a flight of  *)
(* its own key, a flight only starts on a free key and only Deliver frees   *)
(* the key, so that two flights of a key never overlap.                     *)

(* The steps of a flight leave the calls alone and never unmake a flight.   *)
LEMMA FlightFrame ==
  ASSUME TypeOK, NEW f \in Requests, FlightStep(f)
  PROVE  /\ UNCHANGED <<day, callVars, canceled>> /\ ahead \subseteq ahead'
         /\ \A g \in Requests \ {f} : fpc'[g] = fpc[g] /\ fres'[g] = fres[g]
         /\ fpc[f] \notin {"none", "finished"} /\ fpc'[f] # "none"
         /\ fpc[f] # "return" => sf' = sf
         /\ fpc'[f] = "finished" <=> fpc[f] = "return"
<1> USE DEF TypeOK, Goto, Finish, days
<1>1. CASE StartFlight(f)
  BY <1>1 DEF StartFlight
<1>2. CASE NASAFails(f)
  BY <1>2 DEF NASAFails
<1>3. CASE WebFails(f)
  BY <1>3 DEF WebFails
<1>4. CASE Fetched(f, "nasa") \/ Fetched(f, "web")
  BY <1>4 DEF Fetched
<1>5. CASE StoreInRedis(f)
  BY <1>5 DEF StoreInRedis
<1>6. CASE EnsureImage(f)
  BY <1>6 DEF EnsureImage
<1>7. CASE FallBackOnMemory(f)
  BY <1>7 DEF FallBackOnMemory
<1>8. CASE FallBackOnRedis(f)
  BY <1>8 DEF FallBackOnRedis
<1>9. CASE RefillLast(f)
  BY <1>9 DEF RefillLast
<1>10. CASE Deliver(f)
  BY <1>10 DEF Deliver
<1> QED
  BY <1>1, <1>2, <1>3, <1>4, <1>5, <1>6, <1>7, <1>8, <1>9, <1>10 DEF FlightStep

(* Callers keep what they know.                                             *)
LEMMA CallersStep ==
  ASSUME TypeOK, CallersInv, FlightsInv, GroupInv, CachesInv, [Next]_vars
  PROVE  CallersInv'
<1> USE Constants DEF Out, days, storeVars, callVars, flightVars
<1>1. ASSUME NEW r \in Requests, BeginCall(r) PROVE CallersInv'
  <2>1. /\ UNCHANGED <<day, ahead, joined, answer, fpc>>
        /\ pc[r] = "idle" /\ pc'[r] = "memory"
        /\ \A s \in Requests \ {r} : pc'[s] = pc[s] /\ key'[s] = key[s]
    BY <1>1 DEF BeginCall, TypeOK
  <2>2. key'[r] \in Dates
    BY <1>1 DEF BeginCall, TypeOK
  <2>3. fpc[r] = "none" /\ joined[r] = None
    BY <2>1 DEF FlightsInv
  <2>4. \A s \in Requests : joined[s] # r
    BY <2>3 DEF CallersInv
  <2> QED BY <2>1, <2>2, <2>3, <2>4 DEF CallersInv
<1>2. ASSUME NEW r \in Requests, RejectInvalid(r) PROVE CallersInv'
  BY <1>2 DEF RejectInvalid, Return, CallersInv, TypeOK
<1>3. ASSUME NEW r \in Requests, LookInMemory(r) PROVE CallersInv'
  BY <1>3 DEF LookInMemory, Return, CallersInv, TypeOK
<1>4. ASSUME NEW r \in Requests, LookInRedis(r) PROVE CallersInv'
  <2>0. key[r] \in Dates
    BY <1>4 DEF LookInRedis, CallersInv
  <2>1. kv[key[r]] # None => kv[key[r]] = key[r] /\ Out(key[r])
    BY <2>0 DEF CachesInv, CachesNotPoisoned, OnlyWhatIsOut
  <2>2. /\ UNCHANGED <<day, ahead, key, joined, fpc>>
        /\ pc'[r] \in {"refill", "join"}
        /\ pc'[r] = "refill" => kv[key[r]] # None /\ answer'[r] = Got("redis", kv[key[r]])
        /\ \A s \in Requests \ {r} : pc'[s] = pc[s] /\ answer'[s] = answer[s]
    BY <1>4 DEF LookInRedis, TypeOK
  <2> QED BY <2>0, <2>1, <2>2 DEF CallersInv, Out
<1>5. ASSUME NEW r \in Requests, Refill(r) PROVE CallersInv'
  BY <1>5 DEF Refill, CallersInv, TypeOK
<1>6. ASSUME NEW r \in Requests, Join(r) PROVE CallersInv'
  <2>0. key[r] \in Dates
    BY <1>6 DEF Join, CallersInv
  <2>1. /\ UNCHANGED <<day, ahead, key, answer>>
        /\ pc'[r] = "waiting"
        /\ \A s \in Requests \ {r} : pc'[s] = pc[s] /\ joined'[s] = joined[s]
        /\ \A s \in Requests : fpc[s] # "none" => fpc'[s] # "none"
    BY <1>6 DEF Join, TypeOK
  <2>2. CASE sf[key[r]] # None
    <3>1. joined'[r] = sf[key[r]]
      BY <1>6, <2>2 DEF Join, TypeOK
    <3>2. sf[key[r]] \in Requests /\ fpc[sf[key[r]]] # "none" /\ key[sf[key[r]]] = key[r]
      BY <2>0, <2>2 DEF TypeOK, GroupInv
    <3> QED BY <2>0, <2>1, <3>1, <3>2 DEF CallersInv
  <2>3. CASE sf[key[r]] = None
    <3>1. joined'[r] = r /\ fpc'[r] = "start"
      BY <1>6, <2>3 DEF Join, TypeOK
    <3> QED BY <2>0, <2>1, <3>1 DEF CallersInv
  <2> QED BY <2>2, <2>3
<1>7. ASSUME NEW r \in Requests, ReturnCanceled(r) PROVE CallersInv'
  BY <1>7 DEF ReturnCanceled, Return, CallersInv, TypeOK
<1>8. ASSUME NEW r \in Requests, Receive(r) PROVE CallersInv'
  BY <1>8 DEF Receive, Return, CallersInv, TypeOK
<1>9. ASSUME NEW r \in Requests, Cancel(r) PROVE CallersInv'
  BY <1>9 DEF Cancel, CallersInv
<1>10. ASSUME NEW f \in Requests, FlightStep(f) PROVE CallersInv'
  <2>1. /\ UNCHANGED <<pc, key, joined, answer>>
        /\ \A s \in Requests : fpc[s] # "none" => fpc'[s] # "none"
    BY <1>10, FlightFrame
  <2>2. \A s \in Requests : Out(key[s]) => Out(key[s])'
    BY <1>10, FlightFrame DEF Out
  <2> QED BY <2>1, <2>2 DEF CallersInv
<1>11. CASE NextDay
  <2>1. /\ UNCHANGED <<pc, key, joined, answer, fpc>>
        /\ \A d \in Dates : Out(d) => Out(d)'
    BY <1>11 DEF NextDay, TypeOK, Out
  <2> QED BY <2>1 DEF CallersInv
<1>12. ASSUME NEW d \in Dates, ForgetInMemory(d) \/ ExpireInRedis(d) PROVE CallersInv'
  BY <1>12 DEF ForgetInMemory, ExpireInRedis, CallersInv
<1>13. ASSUME NEW f \in Requests, StoreAgain(f) PROVE CallersInv'
  BY <1>13 DEF StoreAgain, CallersInv
<1>14. CASE UNCHANGED vars
  BY <1>14 DEF vars, CallersInv
<1> QED
  BY <1>1, <1>2, <1>3, <1>4, <1>5, <1>6, <1>7, <1>8, <1>9, <1>10, <1>11, <1>12,
     <1>13, <1>14 DEF Next, CallerStep

(* Flights keep their keys, and the group its flights.                      *)
LEMMA FlightsStep ==
  ASSUME TypeOK, CallersInv, FlightsInv, GroupInv, [Next]_vars
  PROVE  FlightsInv' /\ GroupInv'
<1> USE Constants DEF days, storeVars, callVars, flightVars, Running
<1>1. ASSUME NEW r \in Requests, BeginCall(r) PROVE FlightsInv' /\ GroupInv'
  <2>1. /\ UNCHANGED <<joined, fpc, sf>>
        /\ pc[r] = "idle"
        /\ \A s \in Requests \ {r} : pc'[s] = pc[s] /\ key'[s] = key[s]
    BY <1>1 DEF BeginCall, TypeOK
  <2>2. fpc[r] = "none" /\ joined[r] = None
    BY <2>1 DEF FlightsInv
  <2> QED BY <2>1, <2>2 DEF FlightsInv, GroupInv
<1>2. ASSUME NEW r \in Requests, Join(r) PROVE FlightsInv' /\ GroupInv'
  <2>1. /\ UNCHANGED key
        /\ pc'[r] = "waiting" /\ key[r] \in Dates /\ fpc[r] = "none"
        /\ \A s \in Requests \ {r} : /\ pc'[s] = pc[s] /\ joined'[s] = joined[s]
                                     /\ fpc'[s] = fpc[s]
    BY <1>2 DEF Join, TypeOK, CallersInv, FlightsInv
  <2>2. CASE sf[key[r]] # None
    <3>1. UNCHANGED <<sf, fpc>>
      BY <1>2, <2>2 DEF Join
    <3> QED BY <2>1, <3>1 DEF FlightsInv, GroupInv
  <2>3. CASE sf[key[r]] = None
    <3>1. /\ fpc'[r] = "start" /\ sf'[key[r]] = r
          /\ \A d \in Dates \ {key[r]} : sf'[d] = sf[d]
      BY <1>2, <2>1, <2>3 DEF Join, TypeOK
    <3>2. FlightsInv'
      <4>1. \A s \in Requests \ {r} : Running(s) => key[s] \in Dates \ {key[r]}
        BY <2>3 DEF FlightsInv
      <4>2. \A s \in Requests \ {r} : Running(s)' => sf'[key'[s]] = s
        BY <2>1, <3>1, <4>1 DEF FlightsInv
      <4> QED BY <2>1, <3>1, <4>1, <4>2 DEF FlightsInv
    <3>3. GroupInv'
      BY <2>1, <2>3, <3>1 DEF GroupInv
    <3> QED BY <3>2, <3>3
  <2> QED BY <2>2, <2>3
<1>3. ASSUME NEW r \in Requests,
             \/ RejectInvalid(r) \/ LookInMemory(r) \/ LookInRedis(r) \/ Refill(r)
             \/ ReturnCanceled(r) \/ Receive(r) \/ Cancel(r)
      PROVE  FlightsInv' /\ GroupInv'
  <2>1. UNCHANGED <<key, joined, fpc, sf>>
    BY <1>3 DEF RejectInvalid, LookInMemory, LookInRedis, Refill, ReturnCanceled,
                Receive, Cancel
  <2>2. \A s \in Requests :
          pc'[s] \in {"idle", "memory", "redis", "refill", "join"}
            => pc[s] \in {"idle", "memory", "redis", "refill", "join"}
    BY <1>3 DEF RejectInvalid, LookInMemory, LookInRedis, Refill, ReturnCanceled,
                Receive, Cancel, Return, TypeOK
  <2> QED BY <2>1, <2>2 DEF FlightsInv, GroupInv
<1>4. ASSUME NEW f \in Requests, FlightStep(f) PROVE FlightsInv' /\ GroupInv'
  <2>1. /\ UNCHANGED <<pc, key, joined>>
        /\ \A g \in Requests \ {f} : fpc'[g] = fpc[g]
        /\ Running(f) /\ fpc'[f] # "none"
        /\ fpc[f] # "return" => sf' = sf
        /\ fpc'[f] = "finished" <=> fpc[f] = "return"
    BY <1>4, FlightFrame
  <2>2. CASE fpc[f] # "return"
    BY <2>1, <2>2 DEF FlightsInv, GroupInv
  <2>3. CASE fpc[f] = "return"
    <3>1. Deliver(f)
      BY <1>4, <2>3 DEF FlightStep, StartFlight, NASAFails, WebFails, Fetched,
         StoreInRedis, EnsureImage, FallBackOnMemory, FallBackOnRedis, RefillLast
    <3>2. key[f] \in Dates /\ sf[key[f]] = f
      BY <2>1 DEF FlightsInv
    <3>3. sf' = [sf EXCEPT ![key[f]] = None]
      BY <3>1, <3>2 DEF Deliver
    <3>4. /\ sf'[key[f]] = None
          /\ \A d \in Dates \ {key[f]} : sf'[d] = sf[d]
      BY <3>2, <3>3 DEF TypeOK
    <3>5. FlightsInv'
      <4>1. \A g \in Requests \ {f} : Running(g) => key[g] \in Dates \ {key[f]}
        BY <3>2 DEF FlightsInv
      <4>2. \A g \in Requests \ {f} : Running(g)' => sf'[key'[g]] = g
        BY <2>1, <3>4, <4>1 DEF FlightsInv
      <4> QED BY <2>1, <2>3, <4>1, <4>2 DEF FlightsInv
    <3>6. GroupInv'
      BY <2>1, <2>3, <3>4 DEF GroupInv
    <3> QED BY <3>5, <3>6
  <2> QED BY <2>2, <2>3
<1>5. CASE NextDay
  BY <1>5 DEF NextDay, FlightsInv, GroupInv
<1>6. ASSUME NEW d \in Dates, ForgetInMemory(d) \/ ExpireInRedis(d) PROVE FlightsInv' /\ GroupInv'
  BY <1>6 DEF ForgetInMemory, ExpireInRedis, FlightsInv, GroupInv
<1>7. ASSUME NEW f \in Requests, StoreAgain(f) PROVE FlightsInv' /\ GroupInv'
  BY <1>7 DEF StoreAgain, FlightsInv, GroupInv
<1>8. CASE UNCHANGED vars
  BY <1>8 DEF vars, FlightsInv, GroupInv
<1> QED
  BY <1>1, <1>2, <1>3, <1>4, <1>5, <1>6, <1>7, <1>8 DEF Next, CallerStep

-----------------------------------------------------------------------------
(* What an upstream answers with is out: its day has come, or it goes down  *)
(* as got ahead of it.                                                     *)
LEMMA FetchedIsOut ==
  ASSUME TypeOK, FlightsInv, NEW f \in Requests, NEW u \in {"nasa", "web"}, Fetched(f, u)
  PROVE  /\ UNCHANGED <<day, key, kv>> /\ ahead \subseteq ahead'
         /\ key[f] \in Dates /\ Out(key[f])'
<1>1. UNCHANGED <<day, key, kv>> /\ ahead' = ahead \cup {d \in {key[f]} : d > day}
  BY DEF Fetched, callVars
<1>2. key[f] \in Dates
  BY DEF Fetched, FlightsInv, Running
<1>3. key[f] \in Int /\ day \in Int
  BY <1>2, Constants DEF TypeOK
<1>4. CASE key[f] <= day
  BY <1>1, <1>2, <1>4 DEF Out
<1>5. CASE key[f] > day
  BY <1>1, <1>2, <1>5 DEF Out
<1> QED
  BY <1>3, <1>4, <1>5

(* Steps preserve ResultsInv: what a flight stores and returns.             *)
LEMMA ResultsStep ==
  ASSUME TypeOK, FlightsInv, CachesInv, ResultsInv, [Next]_vars
  PROVE  ResultsInv'
<1> USE Constants DEF Out, days, storeVars, callVars, flightVars
<1>1. ASSUME NEW f \in Requests, FlightStep(f), ResultOK(f)' PROVE ResultsInv'
  <2> SUFFICES ASSUME NEW g \in Requests \ {f} PROVE ResultOK(g)'
    BY <1>1 DEF ResultsInv
  <2>1. /\ UNCHANGED <<day, asked, key, canceled>> /\ ahead \subseteq ahead'
        /\ fpc'[g] = fpc[g] /\ fres'[g] = fres[g]
    BY <1>1, FlightFrame
  <2> QED BY <2>1 DEF ResultsInv, ResultOK, Out
<1>2. ASSUME NEW f \in Requests, Finish(f, Error("canceled")), f \in canceled,
             UNCHANGED canceled
      PROVE  ResultOK(f)'
  <2>1. fpc'[f] = "return" /\ fres'[f].source = "canceled"
    BY <1>2 DEF Finish, Goto, Error, TypeOK
  <2> QED BY <1>2, <2>1 DEF ResultOK
<1>3. ASSUME NEW f \in Requests, Finish(f, Error("failed")) PROVE ResultOK(f)'
  <2>1. fpc'[f] = "return" /\ fres'[f].source = "failed"
    BY <1>3 DEF Finish, Goto, Error, TypeOK
  <2> QED BY <2>1 DEF ResultOK
<1>4. ASSUME NEW f \in Requests, fpc[f] \in {"start", "nasa", "web"},
             NEW l \in {"nasa", "web", "fallback"}, Goto(f, l), UNCHANGED fres,
             UNCHANGED <<key, asked, canceled>>, l = "fallback" => asked[f] = None
      PROVE  ResultOK(f)'
  <2>1. fpc'[f] = l /\ fres'[f] = fres[f]
    BY <1>4 DEF Goto, TypeOK
  <2>2. fres[f].source \notin {"nasa", "web"}
    BY <1>4 DEF ResultsInv, ResultOK
  <2> QED BY <1>4, <2>1, <2>2 DEF ResultsInv, ResultOK
<1>5. ASSUME NEW f \in Requests, StartFlight(f) PROVE ResultsInv'
  BY <1>1, <1>2, <1>4, <1>5 DEF StartFlight, FlightStep
<1>6. ASSUME NEW f \in Requests, NASAFails(f) PROVE ResultsInv'
  BY <1>1, <1>2, <1>4, <1>6 DEF NASAFails, FlightStep
<1>7. ASSUME NEW f \in Requests, WebFails(f) PROVE ResultsInv'
  BY <1>1, <1>2, <1>3, <1>4, <1>7 DEF WebFails, FlightStep
<1>8. ASSUME NEW f \in Requests, NEW u \in {"nasa", "web"}, Fetched(f, u)
      PROVE  ResultsInv'
  <2>0. key' = key /\ Out(key[f])'
    BY <1>8, FetchedIsOut
  <2>1. fpc'[f] = "store" /\ fres'[f].source = u /\ fres'[f].date = key[f]
    BY <1>8 DEF Fetched, Goto, Got, TypeOK
  <2>2. ResultOK(f)'
    BY <2>0, <2>1 DEF ResultOK
  <2> QED BY <1>1, <1>8, <2>2 DEF FlightStep
<1>9. ASSUME NEW f \in Requests, StoreInRedis(f) PROVE ResultsInv'
  <2>1. /\ UNCHANGED <<day, ahead, key, asked, canceled, fres>>
        /\ fpc[f] = "store" /\ fpc'[f] = "ensure"
    BY <1>9 DEF StoreInRedis, Goto, TypeOK
  <2>2. ResultOK(f)'
    BY <2>1 DEF ResultsInv, ResultOK
  <2> QED BY <1>1, <1>9, <2>2 DEF FlightStep
<1>10. ASSUME NEW f \in Requests, EnsureImage(f) PROVE ResultsInv'
  <2>1. /\ UNCHANGED <<day, ahead, key, asked, canceled, fres>>
        /\ fpc[f] = "ensure" /\ fpc'[f] = "return"
    BY <1>10 DEF EnsureImage, Goto, TypeOK
  <2>2. ResultOK(f)'
    BY <2>1 DEF ResultsInv, ResultOK
  <2> QED BY <1>1, <1>10, <2>2 DEF FlightStep
<1>11. ASSUME NEW f \in Requests, FallBackOnMemory(f) PROVE ResultsInv'
  <2>1. /\ UNCHANGED <<day, ahead, key, asked, canceled, downloads>>
        /\ asked[f] = None /\ fpc[f] = "fallback"
    BY <1>11 DEF FallBackOnMemory, ResultsInv, ResultOK
  <2>2. \/ fpc'[f] = "return" /\ fres'[f].source = "memory-fallback"
        \/ fpc'[f] = "kvlast" /\ fres'[f] = fres[f]
    BY <1>11 DEF FallBackOnMemory, Finish, Goto, Got, TypeOK
  <2>3. ResultOK(f)'
    BY <2>1, <2>2 DEF ResultsInv, ResultOK
  <2> QED BY <1>1, <1>11, <2>3 DEF FlightStep
<1>12. ASSUME NEW f \in Requests, FallBackOnRedis(f) PROVE ResultsInv'
  <2>1. CASE Finish(f, Error("failed"))
    BY <1>1, <1>3, <1>12, <2>1 DEF FlightStep
  <2>2. CASE /\ kvLast # None
             /\ kv[kvLast] # None
             /\ Goto(f, "kvfill")
             /\ fres' = [fres EXCEPT ![f] = Got("redis-fallback", kv[kvLast])]
    <3>1. /\ UNCHANGED <<day, ahead, asked>>
          /\ asked[f] = None
      BY <1>12 DEF FallBackOnRedis, ResultsInv, ResultOK
    <3>2. kvLast \in Dates /\ kv[kvLast] = kvLast /\ Out(kvLast)
      BY <2>2 DEF TypeOK, CachesInv, CachesNotPoisoned, OnlyWhatIsOut
    <3>3. /\ fpc'[f] = "kvfill" /\ fres'[f].source = "redis-fallback"
          /\ fres'[f].date = kvLast
      BY <2>2, <3>2 DEF Goto, Got, TypeOK
    <3>4. ResultOK(f)'
      BY <3>1, <3>2, <3>3 DEF ResultOK, Out
    <3> QED BY <1>1, <1>12, <3>4 DEF FlightStep
  <2> QED BY <1>12, <2>1, <2>2 DEF FallBackOnRedis
<1>13. ASSUME NEW f \in Requests, RefillLast(f) \/ Deliver(f) PROVE ResultsInv'
  <2>1. /\ UNCHANGED <<day, ahead, key, asked, canceled, fres, downloads>>
        /\ \/ fpc[f] = "kvfill" /\ fpc'[f] = "return"
           \/ fpc[f] = "return" /\ fpc'[f] = "finished"
    BY <1>13 DEF RefillLast, Deliver, Goto, TypeOK
  <2>2. ResultOK(f)'
    BY <2>1 DEF ResultsInv, ResultOK
  <2> QED BY <1>1, <1>13, <2>2 DEF FlightStep
<1>14. ASSUME NEW r \in Requests, BeginCall(r) PROVE ResultsInv'
  <2>1. /\ UNCHANGED <<day, ahead, canceled, downloads, fpc, fres>>
        /\ \A s \in Requests \ {r} : asked'[s] = asked[s] /\ key'[s] = key[s]
    BY <1>14 DEF BeginCall, TypeOK
  <2>2. fpc[r] = "none"
    BY <1>14 DEF BeginCall, FlightsInv
  <2> QED BY <2>1, <2>2 DEF ResultsInv, ResultOK
<1>15. ASSUME NEW r \in Requests, Join(r) PROVE ResultsInv'
  <2>1. /\ UNCHANGED <<day, ahead, canceled, downloads, asked, key, fres>>
        /\ fpc[r] = "none" /\ fpc'[r] \in {"none", "start"}
        /\ \A s \in Requests \ {r} : fpc'[s] = fpc[s]
    BY <1>15 DEF Join, TypeOK, FlightsInv
  <2> QED BY <2>1 DEF ResultsInv, ResultOK
<1>16. ASSUME NEW r \in Requests,
              \/ RejectInvalid(r) \/ LookInMemory(r) \/ LookInRedis(r) \/ Refill(r)
              \/ ReturnCanceled(r) \/ Receive(r) \/ Cancel(r)
       PROVE  ResultsInv'
  <2>1. UNCHANGED <<day, ahead, downloads, asked, key, fpc, fres>> /\ canceled \subseteq canceled'
    BY <1>16 DEF RejectInvalid, LookInMemory, LookInRedis, Refill, ReturnCanceled,
                 Receive, Cancel
  <2> QED BY <2>1 DEF ResultsInv, ResultOK
<1>17. CASE NextDay
  <2>1. /\ UNCHANGED <<canceled, asked, key, fpc, fres>>
        /\ \A d \in Dates : Out(d) => Out(d)'
    BY <1>17 DEF NextDay, TypeOK, Out
  <2>2. ASSUME NEW f \in Requests PROVE ResultOK(f)'
    <3>1. fpc[f] \in {"store", "ensure"} => key[f] \in Dates
      BY DEF FlightsInv, Running
    <3>2. fpc[f] = "kvfill" => fres[f].date \in Dates
      <4>1. fpc[f] = "kvfill" => fres[f].source \in Found
        BY DEF ResultsInv, ResultOK, Found
      <4>2. fres[f] \in Answer
        BY DEF TypeOK
      <4> QED BY <4>1, <4>2, AnswerDates
    <3> QED BY <2>1, <3>1, <3>2 DEF ResultsInv, ResultOK
  <2> QED BY <2>2 DEF ResultsInv
<1>18. ASSUME NEW d \in Dates, ForgetInMemory(d) \/ ExpireInRedis(d) PROVE ResultsInv'
  BY <1>18 DEF ForgetInMemory, ExpireInRedis, ResultsInv, ResultOK
<1>19. ASSUME NEW f \in Requests, StoreAgain(f) PROVE ResultsInv'
  BY <1>19 DEF StoreAgain, ResultsInv, ResultOK
<1>20. CASE UNCHANGED vars
  BY <1>20 DEF vars, ResultsInv, ResultOK
<1> QED
  BY <1>5, <1>6, <1>7, <1>8, <1>9, <1>10, <1>11, <1>12, <1>13, <1>14, <1>15, <1>16,
     <1>17, <1>18, <1>19, <1>20 DEF Next, CallerStep, FlightStep

-----------------------------------------------------------------------------
(* Steps preserve CachesInv: what is filed under which date, and for how    *)
(* long.                                                                   *)
LEMMA CachesStep ==
  ASSUME TypeOK, CallersInv, FlightsInv, ResultsInv, OutcomesInv, CachesInv, [Next]_vars
  PROVE  CachesInv'
<1> USE Constants DEF Out, days, storeVars, callVars, flightVars
<1>1. ASSUME NEW d \in Dates, CacheSet(d, d), UNCHANGED <<day, kv>>,
             ahead \subseteq ahead', Out(d)'
      PROVE  CachesInv'
  <2>1. /\ mem'[d].date = d /\ mem'[d].permanent = (d # day)
        /\ \A e \in Dates \ {d} : mem'[e] = mem[e]
    BY <1>1 DEF CacheSet, TypeOK
  <2>2. day \in Dates
    BY DEF TypeOK
  <2> QED
    BY <1>1, <2>1, <2>2 DEF CachesInv, CachesNotPoisoned, TodayExpires, OnlyWhatIsOut, Out
<1>2. ASSUME NEW r \in Requests, Refill(r) PROVE CachesInv'
  <2>0. pc[r] = "refill"
    BY <1>2 DEF Refill
  <2>1. key[r] \in Dates /\ Out(key[r]) /\ answer[r] = Got("redis", key[r])
    BY <2>0 DEF CallersInv
  <2>2. CacheSet(key[r], key[r]) /\ UNCHANGED <<day, ahead, kv, key>>
    BY <1>2, <2>1 DEF Refill, Got
  <2>3. Out(key[r])'
    BY <2>1, <2>2 DEF Out
  <2> QED BY <1>1, <2>1, <2>2, <2>3
<1>3. ASSUME NEW f \in Requests, NEW u \in {"nasa", "web"}, Fetched(f, u)
      PROVE  CachesInv'
  <2> HIDE DEF Out
  <2>1. /\ UNCHANGED <<day, kv, key>> /\ ahead \subseteq ahead'
        /\ key[f] \in Dates /\ Out(key[f])'
    BY <1>3, FetchedIsOut
  <2> QED BY <1>1, <1>3, <2>1 DEF Fetched
<1>4. ASSUME NEW f \in Requests, RefillLast(f) PROVE CachesInv'
  <2>1. fres[f].source \in Found /\ Out(fres[f].date) /\ fres[f] \in Answer
    BY <1>4 DEF RefillLast, ResultsInv, ResultOK, TypeOK, Found
  <2>2. fres[f].date \in Dates
    BY <2>1, AnswerDates
  <2>3. Out(fres[f].date)'
    BY <1>4, <2>1 DEF RefillLast, Out
  <2> QED BY <1>1, <1>4, <2>1, <2>2, <2>3 DEF RefillLast
<1>5. ASSUME NEW f \in Requests, StoreInRedis(f) PROVE CachesInv'
  <2>1. key[f] \in Dates /\ Out(key[f])
    BY <1>5 DEF StoreInRedis, FlightsInv, Running, ResultsInv, ResultOK
  <2>2. \A d \in Dates : kv'[d] = kv[d] \/ (d = key[f] /\ kv'[d] = d)
    <3>1. kv' = kv \/ kv' = [kv EXCEPT ![key[f]] = key[f]]
      BY <1>5 DEF StoreInRedis, KVSet
    <3>2. kv \in [Dates -> Dates \cup {None}]
      BY DEF TypeOK
    <3> QED BY <2>1, <3>1, <3>2
  <2>3. UNCHANGED <<day, ahead, mem>>
    BY <1>5 DEF StoreInRedis
  <2> QED
    BY <2>1, <2>2, <2>3 DEF CachesInv, CachesNotPoisoned, TodayExpires, OnlyWhatIsOut, Out
<1>6. CASE NextDay
  <2>1. /\ UNCHANGED <<mem, kv, ahead>> /\ day' \in Dates /\ ~(day' <= day)
        /\ \A d \in Dates : Out(d) => Out(d)'
    BY <1>6, FetchAssumption DEF NextDay, TypeOK, Dates, Out
  <2>2. mem[day'] # None => day' \in ahead
    BY <2>1 DEF CachesInv, OnlyWhatIsOut, Out
  <2> QED
    BY <2>1, <2>2 DEF CachesInv, CachesNotPoisoned, TodayExpires, OnlyWhatIsOut
<1>7. ASSUME NEW d \in Dates, ForgetInMemory(d) \/ ExpireInRedis(d) PROVE CachesInv'
  <2>1. /\ UNCHANGED <<day, ahead>> /\ day \in Dates
        /\ \A e \in Dates : /\ mem'[e] = mem[e] \/ mem'[e] = None
                            /\ kv'[e] = kv[e] \/ kv'[e] = None
    BY <1>7 DEF ForgetInMemory, ExpireInRedis, TypeOK
  <2> QED
    BY <2>1 DEF CachesInv, CachesNotPoisoned, TodayExpires, OnlyWhatIsOut, Out
<1>8. ASSUME UNCHANGED <<day, ahead, mem, kv>> PROVE CachesInv'
  BY <1>8 DEF CachesInv, CachesNotPoisoned, TodayExpires, OnlyWhatIsOut, Out
<1>9. ASSUME NEW r \in Requests,
             \/ BeginCall(r) \/ RejectInvalid(r) \/ Cancel(r) \/ LookInMemory(r)
             \/ LookInRedis(r) \/ Join(r) \/ ReturnCanceled(r) \/ Receive(r)
      PROVE  CachesInv'
  BY <1>8, <1>9 DEF BeginCall, RejectInvalid, Cancel, LookInMemory, LookInRedis, Join,
                    ReturnCanceled, Receive
<1>10. ASSUME NEW f \in Requests,
              \/ StartFlight(f) \/ NASAFails(f) \/ WebFails(f) \/ EnsureImage(f)
              \/ FallBackOnMemory(f) \/ FallBackOnRedis(f) \/ Deliver(f)
       PROVE  CachesInv'
  BY <1>8, <1>10 DEF StartFlight, NASAFails, WebFails, EnsureImage, FallBackOnMemory,
                     FallBackOnRedis, Deliver
<1>11. ASSUME NEW f \in Requests, StoreAgain(f) PROVE CachesInv'
  <2>1. key[f] \in Dates
    BY <1>11, AgainForADate
  <2>2. Out(key[f])
    BY <1>11 DEF StoreAgain, ResultsInv, ResultOK, OutcomesInv, OutcomeOK, Found
  <2>3. /\ UNCHANGED <<day, ahead, mem>>
        /\ \A d \in Dates : kv'[d] = kv[d] \/ (d = key[f] /\ kv'[d] = d)
    BY <1>11, <2>1 DEF StoreAgain, TypeOK
  <2> QED
    BY <2>1, <2>2, <2>3 DEF CachesInv, CachesNotPoisoned, TodayExpires, OnlyWhatIsOut, Out
<1>12. CASE UNCHANGED vars
  BY <1>8, <1>12 DEF vars
<1> QED
  BY <1>2, <1>3, <1>4, <1>5, <1>6, <1>7, <1>9, <1>10, <1>11, <1>12
     DEF Next, CallerStep, FlightStep

-----------------------------------------------------------------------------
(* Steps preserve AnswersInv: what the calls that have returned were told.  *)
LEMMA AnswersStep ==
  ASSUME TypeOK, CallersInv, FlightsInv, ResultsInv, CachesInv, AnswersInv, [Next]_vars
  PROVE  AnswersInv'
<1> USE Constants DEF days, storeVars, callVars, flightVars
<1>1. ASSUME UNCHANGED <<asked, key, joined, pc, answer>>, canceled \subseteq canceled'
      PROVE  AnswersInv'
  BY <1>1 DEF AnswersInv, SubstituteOnlyByJoining, CanceledHasACause
\* One call moves; if it returns, its answer is accounted for.
<1>2. ASSUME NEW r \in Requests,
             UNCHANGED <<asked, key, canceled>>,
             \A s \in Requests \ {r} : /\ pc'[s] = pc[s] /\ answer'[s] = answer[s]
                                       /\ joined'[s] = joined[s],
             pc'[r] = "done" =>
               /\ answer'[r].date \notin {None, key[r]} /\ asked[r] # None =>
                    /\ joined'[r] \in Requests \ {r} /\ asked[joined'[r]] = None
                    /\ answer'[r].source \in {"memory-fallback", "redis-fallback"}
               /\ answer'[r].source = "canceled" =>
                    r \in canceled \/ joined'[r] \in canceled
      PROVE  AnswersInv'
  BY <1>2 DEF AnswersInv, SubstituteOnlyByJoining, CanceledHasACause
<1>3. ASSUME NEW r \in Requests, BeginCall(r) PROVE AnswersInv'
  <2>1. /\ UNCHANGED <<joined, answer, canceled>>
        /\ pc[r] = "idle" /\ pc'[r] = "memory"
        /\ \A s \in Requests \ {r} : /\ pc'[s] = pc[s] /\ key'[s] = key[s]
                                     /\ asked'[s] = asked[s]
    BY <1>3 DEF BeginCall, TypeOK
  <2>2. \A s \in Requests : joined[s] # r
    BY <2>1 DEF CallersInv, FlightsInv
  <2>3. \A s \in Requests \ {r} : joined[s] \in Requests
            => asked'[joined'[s]] = asked[joined[s]]
    BY <2>1, <2>2
  <2> QED BY <2>1, <2>2, <2>3 DEF AnswersInv, SubstituteOnlyByJoining,
                                  CanceledHasACause
<1>4. ASSUME NEW r \in Requests, RejectInvalid(r) PROVE AnswersInv'
  <2>1. /\ pc'[r] = "done" /\ answer'[r] = Error("invalid")
        /\ UNCHANGED <<asked, key, canceled>>
        /\ \A s \in Requests \ {r} : /\ pc'[s] = pc[s] /\ answer'[s] = answer[s]
                                     /\ joined'[s] = joined[s]
    BY <1>4 DEF RejectInvalid, Return, TypeOK
  <2>2. answer'[r].date = None /\ answer'[r].source = "invalid"
    BY <2>1 DEF Error
  <2> QED BY <1>2, <2>1, <2>2
<1>5. ASSUME NEW r \in Requests, LookInMemory(r) PROVE AnswersInv'
  <2>1. /\ pc'[r] = "done" =>
             mem[key[r]] # None /\ answer'[r] = Got("memory", mem[key[r]].date)
        /\ UNCHANGED <<asked, key, canceled>>
        /\ \A s \in Requests \ {r} : /\ pc'[s] = pc[s] /\ answer'[s] = answer[s]
                                     /\ joined'[s] = joined[s]
    BY <1>5 DEF LookInMemory, Return, TypeOK
  <2>2. key[r] \in Dates
    BY <1>5 DEF LookInMemory, CallersInv
  <2>3. mem[key[r]] # None => mem[key[r]].date = key[r]
    BY <2>2 DEF CachesInv, CachesNotPoisoned
  <2>4. pc'[r] = "done" => answer'[r].date = key[r] /\ answer'[r].source = "memory"
    BY <2>1, <2>3 DEF Got
  <2> QED BY <1>2, <2>1, <2>4
<1>6. ASSUME NEW r \in Requests, LookInRedis(r) \/ Join(r) PROVE AnswersInv'
  <2>1. /\ pc'[r] # "done"
        /\ UNCHANGED <<asked, key, canceled>>
        /\ \A s \in Requests \ {r} : /\ pc'[s] = pc[s] /\ answer'[s] = answer[s]
                                     /\ joined'[s] = joined[s]
    BY <1>6 DEF LookInRedis, Join, TypeOK
  <2> QED BY <1>2, <2>1
<1>7. ASSUME NEW r \in Requests, Refill(r) PROVE AnswersInv'
  <2>1. /\ pc[r] = "refill"
        /\ UNCHANGED <<asked, key, canceled, answer>>
        /\ \A s \in Requests \ {r} : /\ pc'[s] = pc[s] /\ answer'[s] = answer[s]
                                     /\ joined'[s] = joined[s]
    BY <1>7 DEF Refill, TypeOK
  <2>2. answer[r] = Got("redis", key[r])
    BY <2>1 DEF CallersInv
  <2>3. answer'[r].date = key[r] /\ answer'[r].source = "redis"
    BY <2>1, <2>2 DEF Got
  <2> QED BY <1>2, <2>1, <2>3
<1>8. ASSUME NEW r \in Requests, ReturnCanceled(r) PROVE AnswersInv'
  <2>1. /\ r \in canceled /\ answer'[r] = Error("canceled")
        /\ UNCHANGED <<asked, key, canceled>>
        /\ \A s \in Requests \ {r} : /\ pc'[s] = pc[s] /\ answer'[s] = answer[s]
                                     /\ joined'[s] = joined[s]
    BY <1>8 DEF ReturnCanceled, Return, TypeOK
  <2>2. answer'[r].date = None /\ answer'[r].source = "canceled"
    BY <2>1 DEF Error
  <2> QED BY <1>2, <2>1, <2>2
<1>9. ASSUME NEW r \in Requests, Receive(r) PROVE AnswersInv'
  <2> DEFINE f == joined[r]
  <2>1. /\ answer'[r] = fres[f] /\ fpc[f] = "finished"
        /\ UNCHANGED <<asked, key, canceled, joined>>
        /\ \A s \in Requests \ {r} : /\ pc'[s] = pc[s] /\ answer'[s] = answer[s]
                                     /\ joined'[s] = joined[s]
    BY <1>9 DEF Receive, Return, TypeOK
  <2>2. f \in Requests /\ key[f] = key[r]
    BY <1>9 DEF Receive, CallersInv
  <2>3. ResultOK(f) /\ fres[f] \in Answer
    BY <2>2 DEF ResultsInv, TypeOK
  <2>4. fres[f].date \notin {None, key[r]} =>
          /\ asked[f] = None
          /\ fres[f].source \in {"memory-fallback", "redis-fallback"}
    <3>1. fres[f].date # None => fres[f].source \in Found
      BY <2>3, AnswerDates
    <3> QED BY <2>2, <2>3, <3>1 DEF ResultOK, Found
  <2>5. fres[f].source = "canceled" => f \in canceled
    BY <2>3 DEF ResultOK
  <2>6. answer'[r].date \notin {None, key[r]} /\ asked[r] # None =>
          /\ joined'[r] \in Requests \ {r} /\ asked[joined'[r]] = None
          /\ answer'[r].source \in {"memory-fallback", "redis-fallback"}
    BY <2>1, <2>2, <2>4
  <2>7. answer'[r].source = "canceled" => r \in canceled \/ joined'[r] \in canceled
    BY <2>1, <2>5
  <2> HIDE DEF f
  <2> QED BY <1>2, <2>1, <2>6, <2>7
<1>10. ASSUME NEW r \in Requests, Cancel(r) PROVE AnswersInv'
  BY <1>1, <1>10 DEF Cancel
<1>11. ASSUME NEW f \in Requests, FlightStep(f) PROVE AnswersInv'
  <2>1. UNCHANGED <<asked, key, joined, pc, answer, canceled>>
    BY <1>11, FlightFrame DEF callVars
  <2> QED BY <1>1, <2>1
<1>12. CASE NextDay
  BY <1>1, <1>12 DEF NextDay
<1>13. ASSUME NEW d \in Dates, ForgetInMemory(d) \/ ExpireInRedis(d) PROVE AnswersInv'
  BY <1>1, <1>13 DEF ForgetInMemory, ExpireInRedis
<1>14. ASSUME NEW f \in Requests, StoreAgain(f) PROVE AnswersInv'
  BY <1>1, <1>14 DEF StoreAgain
<1>15. CASE UNCHANGED vars
  BY <1>1, <1>15 DEF vars
<1> QED
  BY <1>3, <1>4, <1>5, <1>6, <1>7, <1>8, <1>9, <1>10, <1>11, <1>12, <1>13, <1>14, <1>15
     DEF Next, CallerStep

-----------------------------------------------------------------------------
(* Steps preserve ImagesInv: an image stays on its way, and a record is     *)
(* heard of anew only while it is stored, or from where it was heard of.    *)
LEMMA ImagesStep ==
  ASSUME TypeOK, CallersInv, FlightsInv, ResultsInv, CachesInv, ImagesInv, [Next]_vars
  PROVE  ImagesInv'
<1> USE Constants DEF days, storeVars, callVars, flightVars
<1> SUFFICES ASSUME NEW d \in ImageDates, Heard(d)' PROVE OnItsWay(d)'
  BY DEF ImagesInv
<1>0. d \in Dates /\ d # None
  OBVIOUS
<1>1. ASSUME UNCHANGED <<key, downloads>>,
             \A f \in Requests : fpc[f] \in {"store", "ensure"} => fpc'[f] \in {"store", "ensure"},
             Heard(d)
      PROVE  OnItsWay(d)'
  BY <1>1 DEF ImagesInv, OnItsWay
\* A flight leaves the calls alone.
<1>2. ASSUME NEW f \in Requests, FlightStep(f), ~EnsureImage(f), Heard(d)
      PROVE  OnItsWay(d)'
  <2>1. UNCHANGED <<key, downloads>> /\ \A g \in Requests \ {f} : fpc'[g] = fpc[g]
    BY <1>2, FlightFrame DEF FlightStep, StartFlight, NASAFails, WebFails, Fetched, StoreInRedis,
         FallBackOnMemory, FallBackOnRedis, RefillLast, Deliver
  <2>2. fpc[f] \in {"store", "ensure"} => fpc'[f] \in {"store", "ensure"}
    BY <1>2 DEF FlightStep, StartFlight, NASAFails, WebFails, Fetched, StoreInRedis,
         FallBackOnMemory, FallBackOnRedis, RefillLast, Deliver, Goto, TypeOK
  <2> QED BY <1>1, <1>2, <2>1, <2>2
<1>3. ASSUME NEW f \in Requests, StartFlight(f) \/ NASAFails(f) \/ WebFails(f)
      PROVE  OnItsWay(d)'
  <2>1. /\ UNCHANGED <<mem, kv, answer>>
        /\ \A g \in Requests : fres'[g] = fres[g] \/ fres'[g].date = None
    BY <1>3 DEF StartFlight, NASAFails, WebFails, Finish, Error, TypeOK
  <2>2. Heard(d)
    BY <1>0, <2>1 DEF Heard
  <2> QED BY <1>2, <1>3, <2>2 DEF FlightStep, StartFlight, NASAFails, WebFails, EnsureImage
<1>4. ASSUME NEW f \in Requests, NEW u \in {"nasa", "web"}, Fetched(f, u)
      PROVE  OnItsWay(d)'
  <2>1. key[f] \in Dates
    BY <1>4 DEF Fetched, FlightsInv, Running
  <2>2. /\ UNCHANGED <<key, kv, answer>> /\ fpc'[f] = "store" /\ fres'[f].date = key[f]
        /\ \A e \in Dates \ {key[f]} : mem'[e] = mem[e]
        /\ \A g \in Requests \ {f} : fres'[g] = fres[g]
    BY <1>4, <2>1 DEF Fetched, CacheSet, Goto, Got, TypeOK
  <2>3. CASE d = key[f]
    BY <2>2, <2>3 DEF OnItsWay
  <2>4. CASE d # key[f]
    <3>1. Heard(d)
      BY <1>0, <2>2, <2>4 DEF Heard
    <3> QED BY <1>2, <1>4, <3>1 DEF FlightStep, Fetched, EnsureImage
  <2> QED BY <2>3, <2>4
<1>5. ASSUME NEW f \in Requests, StoreInRedis(f) \/ StoreAgain(f)
      PROVE  OnItsWay(d)'
  <2>1. fres[f].date = key[f]
    BY <1>5 DEF StoreInRedis, StoreAgain, ResultsInv, ResultOK
  <2>2. /\ UNCHANGED <<key, mem, answer, fres>>
        /\ kv' = kv \/ kv' = [kv EXCEPT ![key[f]] = key[f]]
    BY <1>5 DEF StoreInRedis, StoreAgain, KVSet
  <2>3. Heard(d)
    BY <1>0, <2>1, <2>2 DEF Heard, TypeOK
  <2>4. CASE StoreInRedis(f)
    BY <1>2, <2>3, <2>4 DEF FlightStep, StoreInRedis, EnsureImage
  <2>5. CASE StoreAgain(f)
    BY <1>1, <2>3, <2>5 DEF StoreAgain
  <2> QED BY <1>5, <2>4, <2>5
<1>6. ASSUME NEW f \in Requests, EnsureImage(f)
      PROVE  OnItsWay(d)'
  <2>1. /\ UNCHANGED <<key, mem, kv, answer, fres>>
        /\ downloads' = downloads \cup ({key[f]} \cap ImageDates)
        /\ \A g \in Requests \ {f} : fpc'[g] = fpc[g]
    BY <1>6 DEF EnsureImage, Goto, TypeOK
  <2>2. OnItsWay(d)
    BY <2>1 DEF Heard, ImagesInv
  <2> QED BY <2>1, <2>2 DEF OnItsWay
<1>7. ASSUME NEW f \in Requests, FallBackOnMemory(f)
      PROVE  OnItsWay(d)'
  <2>1. \A e \in Cached : mem[e].date = e /\ e \in Dates /\ mem[e] # None
    BY DEF Cached, CachesInv, CachesNotPoisoned
  <2>2. /\ UNCHANGED <<mem, kv, answer>> /\ \A g \in Requests \ {f} : fres'[g] = fres[g]
        /\ fres'[f] = fres[f] \/ \E e \in Cached : fres'[f].date = e
    BY <1>7, <2>1 DEF FallBackOnMemory, Finish, Got, TypeOK
  <2>3. Heard(d)
    BY <2>1, <2>2 DEF Heard
  <2> QED BY <1>2, <1>7, <2>3 DEF FlightStep, FallBackOnMemory, EnsureImage
<1>8. ASSUME NEW f \in Requests, FallBackOnRedis(f)
      PROVE  OnItsWay(d)'
  <2>1. /\ UNCHANGED <<mem, kv, answer>> /\ \A g \in Requests \ {f} : fres'[g] = fres[g]
        /\ \/ fres'[f] = fres[f] \/ fres'[f].date = None
           \/ kvLast \in Dates /\ kv[kvLast] # None /\ fres'[f].date = kv[kvLast]
    BY <1>8 DEF FallBackOnRedis, Finish, Got, Error, TypeOK
  <2>2. Heard(d)
    BY <1>0, <2>1 DEF Heard, CachesInv, CachesNotPoisoned
  <2> QED BY <1>2, <1>8, <2>2 DEF FlightStep, FallBackOnRedis, EnsureImage
<1>9. ASSUME NEW f \in Requests, RefillLast(f)
      PROVE  OnItsWay(d)'
  <2>1. /\ UNCHANGED <<kv, answer, fres>>
        /\ \A e \in Dates : e # fres[f].date => mem'[e] = mem[e]
    BY <1>9 DEF RefillLast, CacheSet, TypeOK
  <2>2. Heard(d)
    BY <1>0, <2>1 DEF Heard
  <2> QED BY <1>2, <1>9, <2>2 DEF FlightStep, RefillLast, EnsureImage
<1>10. ASSUME NEW f \in Requests, Deliver(f)
       PROVE  OnItsWay(d)'
  <2>1. Heard(d)
    BY <1>10 DEF Deliver, Heard
  <2> QED BY <1>2, <1>10, <2>1 DEF FlightStep, Deliver, EnsureImage
<1>11. ASSUME NEW r \in Requests, BeginCall(r)
       PROVE  OnItsWay(d)'
  <2>1. OnItsWay(d)
    BY <1>11 DEF BeginCall, Heard, ImagesInv
  <2>2. /\ UNCHANGED <<downloads, fpc>> /\ fpc[r] = "none"
        /\ \A s \in Requests \ {r} : key'[s] = key[s]
    BY <1>11 DEF BeginCall, FlightsInv, TypeOK
  <2> QED BY <2>1, <2>2 DEF OnItsWay
<1>12. ASSUME NEW r \in Requests, LookInMemory(r)
       PROVE  OnItsWay(d)'
  <2>1. key[r] \in Dates
    BY <1>12 DEF LookInMemory, CallersInv
  <2>2. /\ UNCHANGED <<mem, kv, fres>> /\ \A s \in Requests \ {r} : answer'[s] = answer[s]
        /\ \/ answer'[r] = answer[r]
           \/ mem[key[r]] # None /\ answer'[r].date = mem[key[r]].date
    BY <1>12 DEF LookInMemory, Return, Got, TypeOK
  <2>3. Heard(d)
    BY <2>1, <2>2 DEF Heard, CachesInv, CachesNotPoisoned
  <2> QED BY <1>1, <1>12, <2>3 DEF LookInMemory
<1>13. ASSUME NEW r \in Requests, LookInRedis(r)
       PROVE  OnItsWay(d)'
  <2>1. key[r] \in Dates
    BY <1>13 DEF LookInRedis, CallersInv
  <2>2. /\ UNCHANGED <<mem, kv, fres>> /\ \A s \in Requests \ {r} : answer'[s] = answer[s]
        /\ \/ answer'[r] = answer[r]
           \/ kv[key[r]] # None /\ answer'[r].date = kv[key[r]]
    BY <1>13 DEF LookInRedis, Got, TypeOK
  <2>3. Heard(d)
    BY <2>1, <2>2 DEF Heard, CachesInv, CachesNotPoisoned
  <2> QED BY <1>1, <1>13, <2>3 DEF LookInRedis
<1>14. ASSUME NEW r \in Requests, Refill(r)
       PROVE  OnItsWay(d)'
  <2>0. pc[r] = "refill"
    BY <1>14 DEF Refill
  <2>1. answer[r].date = key[r]
    <3>1. answer[r] = Got("redis", key[r])
      BY <2>0 DEF CallersInv
    <3> QED BY <3>1 DEF Got
  <2>2. /\ UNCHANGED <<kv, answer, fres>>
        /\ \A e \in Dates : e # key[r] => mem'[e] = mem[e]
    BY <1>14 DEF Refill, CacheSet, TypeOK
  <2>3. Heard(d)
    BY <1>0, <2>1, <2>2 DEF Heard
  <2> QED BY <1>1, <1>14, <2>3 DEF Refill
<1>15. ASSUME NEW r \in Requests, Join(r)
       PROVE  OnItsWay(d)'
  <2>1. Heard(d)
    BY <1>15 DEF Join, Heard
  <2>2. \A f \in Requests : fpc[f] \in {"store", "ensure"} => fpc'[f] \in {"store", "ensure"}
    BY <1>15 DEF Join, FlightsInv, TypeOK
  <2> QED BY <1>1, <1>15, <2>1, <2>2 DEF Join
<1>16. ASSUME NEW r \in Requests, RejectInvalid(r) \/ ReturnCanceled(r)
       PROVE  OnItsWay(d)'
  <2>1. /\ UNCHANGED <<mem, kv, fres>>
        /\ \A s \in Requests : answer'[s] = answer[s] \/ answer'[s].date = None
    BY <1>16 DEF RejectInvalid, ReturnCanceled, Return, Error, TypeOK
  <2>2. Heard(d)
    BY <1>0, <2>1 DEF Heard
  <2> QED BY <1>1, <1>16, <2>2 DEF RejectInvalid, ReturnCanceled
<1>17. ASSUME NEW r \in Requests, Receive(r)
       PROVE  OnItsWay(d)'
  <2>1. joined[r] \in Requests
    BY <1>17 DEF Receive, CallersInv
  <2>2. /\ UNCHANGED <<mem, kv, fres>> /\ \A s \in Requests \ {r} : answer'[s] = answer[s]
        /\ answer'[r] = fres[joined[r]]
    BY <1>17 DEF Receive, Return, TypeOK
  <2>3. Heard(d)
    BY <2>1, <2>2 DEF Heard
  <2> QED BY <1>1, <1>17, <2>3 DEF Receive
<1>18. ASSUME NEW e \in Dates, ForgetInMemory(e) \/ ExpireInRedis(e)
       PROVE  OnItsWay(d)'
  <2>1. /\ UNCHANGED <<answer, fres>>
        /\ mem'[d] = mem[d] \/ mem'[d] = None
        /\ kv'[d] = kv[d] \/ kv'[d] = None
    BY <1>0, <1>18 DEF ForgetInMemory, ExpireInRedis, TypeOK
  <2>2. Heard(d)
    BY <2>1 DEF Heard
  <2> QED BY <1>1, <1>18, <2>2 DEF ForgetInMemory, ExpireInRedis
<1>19. ASSUME UNCHANGED <<mem, kv, answer, fres, key, downloads, fpc>>
       PROVE  OnItsWay(d)'
  <2>1. Heard(d)
    BY <1>19 DEF Heard
  <2> QED BY <1>1, <1>19, <2>1
<1>20. CASE NextDay \/ (\E r \in Requests : Cancel(r)) \/ UNCHANGED vars
  BY <1>19, <1>20 DEF NextDay, Cancel, vars
<1> QED
  BY <1>3, <1>4, <1>5, <1>6, <1>7, <1>8, <1>9, <1>10, <1>11, <1>12, <1>13, <1>14, <1>15,
     <1>16, <1>17, <1>18, <1>20 DEF Next, CallerStep, FlightStep

-----------------------------------------------------------------------------
(* The steps of a flight preserve OutcomesInv.                              *)
LEMMA FlightOutcome ==
  ASSUME IndInv, NEW f \in Requests, FlightStep(f)
  PROVE  OutcomesInv'
<1> USE Constants DEF Out, IndInv, days, flightVars, storeVars, callVars
<1>1. /\ day' = day /\ day \in Int /\ ahead \subseteq ahead'
      /\ \A g \in Requests \ {f} : fpc'[g] = fpc[g] /\ fres'[g] = fres[g]
  BY FlightFrame DEF TypeOK
<1>2. OutcomeOK(f)'
  <2>1. OutcomeOK(f) /\ ResultOK(f)
    BY DEF OutcomesInv, ResultsInv
  <2>2. \A e \in Errors : Error(e).source \notin Found /\ Error(e).source # ""
    BY DEF Error, Errors, Found
  <2>3. ASSUME NEW e \in Errors, Finish(f, Error(e)) PROVE OutcomeOK(f)'
    <3>1. fres'[f] = Error(e)
      BY <2>3 DEF Finish, TypeOK
    <3> QED
      BY <2>2, <3>1 DEF OutcomeOK
  <2>4. ASSUME fres' = fres, fpc'[f] = "return" => fres[f].source # "",
               fpc'[f] = "finished" => fpc[f] = "return"
        PROVE  OutcomeOK(f)'
    BY <1>1, <2>1, <2>4 DEF OutcomeOK
  <2>5. ASSUME NEW s \in Found, NEW d \in Dates, Out(d)', fres'[f] = Got(s, d)
        PROVE  OutcomeOK(f)'
    <3>1. fres'[f].date = d /\ fres'[f].source # ""
      <4>1. Got(s, d).date = d /\ Got(s, d).source = s
        BY DEF Got
      <4>2. s # ""
        BY DEF Found
      <4> QED
        BY <2>5, <4>1, <4>2
    <3> QED
      BY <1>1, <2>5, <3>1 DEF OutcomeOK
  <2>6. CASE StartFlight(f) \/ NASAFails(f) \/ WebFails(f)
    <3>1. \/ \E e \in Errors : Finish(f, Error(e))
          \/ fres' = fres /\ fpc'[f] \in {"nasa", "web", "fallback"}
      BY <2>6 DEF StartFlight, NASAFails, WebFails, Goto, Errors, TypeOK
    <3> QED
      BY <2>3, <2>4, <3>1
  <2>7. CASE Fetched(f, "nasa") \/ Fetched(f, "web")
    <3> HIDE DEF Out
    <3>1. key' = key /\ key[f] \in Dates /\ Out(key[f])'
      BY <2>7, FetchedIsOut
    <3>2. PICK s \in {"nasa", "web"} : fres' = [fres EXCEPT ![f] = Got(s, key[f])]
      BY <2>7 DEF Fetched
    <3>3. fres'[f] = Got(s, key[f])
      BY <3>2 DEF TypeOK
    <3>4. PICK d \in Dates : d = key[f] /\ Out(d)'
      BY <3>1 DEF Out
    <3> QED
      BY <2>5, <3>3, <3>4 DEF Found
  <2>8. CASE StoreInRedis(f) \/ EnsureImage(f) \/ RefillLast(f) \/ Deliver(f)
    <3>1. /\ fres' = fres
          /\ fpc'[f] = "return" => fpc[f] \in {"ensure", "kvfill"}
          /\ fpc'[f] = "finished" => fpc[f] = "return"
      BY <2>8 DEF StoreInRedis, EnsureImage, RefillLast, Deliver, Goto, TypeOK
    <3> QED
      BY <2>1, <2>4, <3>1 DEF ResultOK
  <2>9. CASE FallBackOnMemory(f)
    <3>1. CASE UNCHANGED fres /\ Goto(f, "kvlast")
      <4>1. fpc'[f] = "kvlast"
        BY <3>1 DEF Goto, TypeOK
      <4> QED
        BY <2>4, <3>1, <4>1
    <3>2. ASSUME NEW d \in Cached, Finish(f, Got("memory-fallback", mem[d].date))
          PROVE  OutcomeOK(f)'
      <4>1. d \in Dates /\ mem[d].date = d /\ Out(d)'
        BY <1>1 DEF Cached, CachesInv, CachesNotPoisoned, OnlyWhatIsOut
      <4>2. fres'[f] = Got("memory-fallback", d)
        BY <3>2, <4>1 DEF Finish, TypeOK
      <4> QED
        BY <2>5, <4>1, <4>2 DEF Found
    <3> QED
      BY <2>9, <3>1, <3>2 DEF FallBackOnMemory
  <2>10. CASE FallBackOnRedis(f)
    <3>1. CASE Finish(f, Error("failed"))
      BY <2>3, <3>1 DEF Errors
    <3>2. CASE /\ kvLast # None /\ kv[kvLast] # None
               /\ fres' = [fres EXCEPT ![f] = Got("redis-fallback", kv[kvLast])]
      <4>1. PICK d \in Dates : d = kvLast /\ kv[d] = d /\ Out(d)'
        BY <1>1, <3>2 DEF TypeOK, CachesInv, CachesNotPoisoned, OnlyWhatIsOut
      <4>2. fres'[f] = Got("redis-fallback", d)
        BY <3>2, <4>1 DEF TypeOK
      <4> QED
        BY <2>5, <4>1, <4>2 DEF Found
    <3> QED
      BY <2>10, <3>1, <3>2 DEF FallBackOnRedis
  <2> QED
    BY <2>6, <2>7, <2>8, <2>9, <2>10 DEF FlightStep
<1> QED
  BY <1>1, <1>2 DEF OutcomesInv, OutcomeOK

(* So do the others, which leave the flights alone or begin one.            *)
LEMMA OutcomesStep == IndInv /\ [Next]_vars => OutcomesInv'
<1> SUFFICES ASSUME IndInv, [Next]_vars
             PROVE  OutcomesInv'
  OBVIOUS
<1> USE Constants DEF Out, days, flightVars, storeVars, callVars
<1>1. ASSUME day' \in {day, day + 1}, ahead' = ahead, fres' = fres,
             \A f \in Requests : fpc'[f] = fpc[f] \/ fpc'[f] = "start"
      PROVE  OutcomesInv'
  <2>1. ASSUME NEW f \in Requests
        PROVE  OutcomeOK(f)'
    <3>1. OutcomeOK(f) /\ fres[f] \in Answer /\ day \in Int
      BY DEF OutcomesInv, IndInv, TypeOK
    <3>2. fres[f].source \in Found => fres[f].date \in Int /\ Out(fres[f].date)'
      <4>1. fres[f].source \in Found => fres[f].date \in Int /\ Out(fres[f].date)
        BY <3>1, AnswerDates DEF OutcomeOK
      <4> QED
        BY <1>1, <3>1, <4>1
    <3>3. fpc'[f] \in {"return", "finished"} => fres[f].source # ""
      BY <1>1, <3>1 DEF OutcomeOK
    <3> QED
      BY <1>1, <3>2, <3>3 DEF OutcomeOK
  <2> QED
    BY <2>1 DEF OutcomesInv
<1>2. ASSUME NEW r \in Requests,
             \/ BeginCall(r) \/ RejectInvalid(r) \/ Cancel(r) \/ LookInMemory(r)
             \/ LookInRedis(r) \/ Refill(r) \/ ReturnCanceled(r) \/ Receive(r)
      PROVE  OutcomesInv'
  BY <1>1, <1>2 DEF BeginCall, RejectInvalid, Cancel, LookInMemory, LookInRedis, Refill,
                    ReturnCanceled, Receive
<1>3. ASSUME NEW r \in Requests, Join(r)
      PROVE  OutcomesInv'
  BY <1>1, <1>3 DEF Join, IndInv, TypeOK
<1>4. CASE NextDay
  BY <1>1, <1>4 DEF NextDay
<1>5. ASSUME NEW d \in Dates, ForgetInMemory(d) \/ ExpireInRedis(d)
      PROVE  OutcomesInv'
  BY <1>1, <1>5 DEF ForgetInMemory, ExpireInRedis
<1>6. ASSUME NEW f \in Requests, StoreAgain(f)
      PROVE  OutcomesInv'
  BY <1>1, <1>6 DEF StoreAgain
<1>7. CASE UNCHANGED vars
  BY <1>1, <1>7 DEF vars
<1> QED
  BY <1>2, <1>3, <1>4, <1>5, <1>6, <1>7, FlightOutcome DEF Next, CallerStep

-----------------------------------------------------------------------------
(* IndInv is inductive.                                                     *)
LEMMA InitInv == Init => IndInv
<1> SUFFICES ASSUME Init PROVE IndInv
  OBVIOUS
<1>1. TypeOK
  <2>1. NoAnswer \in Answer
    BY DEF Answer
  <2>2. ahead \subseteq Dates /\ downloads \subseteq Dates
    BY Constants DEF Init
  <2> QED BY <2>1, <2>2 DEF Init, TypeOK
<1>2. CallersInv /\ FlightsInv /\ GroupInv
  BY DEF Init, CallersInv, FlightsInv, GroupInv, Running
<1>3. ResultsInv
  BY DEF Init, ResultsInv, ResultOK, NoAnswer
<1>4. CachesInv
  <2>1. day \in Dates /\ Dates \subseteq Int
    BY Constants DEF Init
  <2> QED
    BY <2>1 DEF Init, CachesInv, CachesNotPoisoned, TodayExpires, OnlyWhatIsOut, Out
<1>5. AnswersInv
  BY DEF Init, AnswersInv, SubstituteOnlyByJoining, CanceledHasACause
<1>6. OutcomesInv
  <2>1. NoAnswer.source = "" /\ "" \notin Found
    BY DEF NoAnswer, Found
  <2>2. ASSUME NEW f \in Requests
        PROVE  fres[f].source = "" /\ fpc[f] = "none"
    BY <2>1 DEF Init
  <2> QED
    BY <2>1, <2>2 DEF OutcomesInv, OutcomeOK
<1>7. ImagesInv
  <2>1. NoAnswer.date = None
    BY DEF NoAnswer
  <2> QED
    BY <2>1, Constants DEF Init, ImagesInv, Heard, OnItsWay
<1> QED BY <1>1, <1>2, <1>3, <1>4, <1>5, <1>6, <1>7 DEF IndInv

(* Every reachable state of Fetch satisfies IndInv.                         *)
THEOREM Inductive == Spec => []IndInv
<1>1. Init => IndInv
  BY InitInv
<1>2. IndInv /\ [Next]_vars => IndInv'
  BY TypeStep, CallersStep, FlightsStep, ResultsStep, OutcomesStep, CachesStep, AnswersStep,
     ImagesStep
  DEF IndInv
<1> QED BY <1>1, <1>2, PTL DEF Spec

(* The types, with the promise that a source of data comes with a record.   *)
THEOREM TypeCorrect == Spec => []TypeOK
<1>1. IndInv => TypeOK
  BY DEF IndInv
<1> QED BY <1>1, Inductive, PTL

(* Both caches file every record under the date it carries, although the    *)
(* fallback answers a date with the record of another.                     *)
THEOREM Unpoisoned == Spec => []CachesNotPoisoned
<1>1. IndInv => CachesNotPoisoned
  BY DEF IndInv, CachesInv
<1> QED BY <1>1, Inductive, PTL

(* The record of the current day has a TTL in memory, unless it was got      *)
(* before the day came.                                                    *)
THEOREM TodayIsTemporary == Spec => []TodayExpires
<1>1. IndInv => TodayExpires
  BY DEF IndInv, CachesInv
<1> QED BY <1>1, Inductive, PTL

(* At most one flight asks the upstreams for a date, however calls join,    *)
(* leave and come back.                                                    *)
THEOREM UpstreamsAskedOnce == Spec => []OneFlightPerDate
<1>1. IndInv => OneFlightPerDate
  BY DEF IndInv, FlightsInv, OneFlightPerDate
<1> QED BY <1>1, Inductive, PTL

(* A call that names a date is given another only by joining a flight that  *)
(* names none: the one hole in the promise of README.md.                   *)
THEOREM SubstitutesExplained == Spec => []SubstituteOnlyByJoining
<1>1. IndInv => SubstituteOnlyByJoining
  BY DEF IndInv, AnswersInv
<1> QED BY <1>1, Inductive, PTL

(* Whoever is told "canceled" left, or shared the flight of one who left.   *)
THEOREM CancellationsExplained == Spec => []CanceledHasACause
<1>1. IndInv => CanceledHasACause
  BY DEF IndInv, AnswersInv
<1> QED BY <1>1, Inductive, PTL

(* Whoever is sent a record, its image is on the way.                        *)
THEOREM ImagesRequested == Spec => []ImagesFollow
<1>1. IndInv => ImagesFollow
  BY DEF IndInv, ImagesInv, Heard, ImagesFollow
<1> QED BY <1>1, Inductive, PTL

-----------------------------------------------------------------------------
(* What callers see of the calls, and of the answers.                       *)
Calls == [r \in Requests |-> Call(r)]
Told == [r \in Requests |-> IF pc[r] = "done" THEN answer[r] ELSE NoAnswer]

(* A call that has something left to do is pending, for a date.             *)
LEMMA Pending ==
  ASSUME IndInv, NEW r \in Requests, pc[r] \notin {"idle", "done"}
  PROVE  Calls[r] = "pending" /\ key[r] \in Dates /\ r \in Callers!Sharers(r)
  BY DEF IndInv, CallersInv, Calls, Call, Callers!Sharers

(* A step of a call that has neither begun nor ended does not show.         *)
LEMMA StillPending ==
  ASSUME IndInv, NEW r \in Requests, pc[r] \notin {"idle", "done"},
         pc'[r] \notin {"idle", "done"},
         \A s \in Requests \ {r} : pc'[s] = pc[s] /\ answer'[s] = answer[s]
  PROVE  Calls' = Calls /\ Told' = Told
<1>1. \A s \in Requests : Call(s)' = Call(s)
  BY DEF Call
<1>2. \A s \in Requests : (IF pc[s] = "done" THEN answer[s] ELSE NoAnswer)'
                           = IF pc[s] = "done" THEN answer[s] ELSE NoAnswer
  BY DEF NoAnswer
<1> QED
  BY <1>1, <1>2 DEF Calls, Told

(* A call that returns is answered with what the service allows.            *)
LEMMA Returned ==
  ASSUME IndInv, NEW r \in Requests, pc[r] \notin {"idle", "done"}, pc'[r] = "done",
         \A s \in Requests \ {r} : pc'[s] = pc[s] /\ answer'[s] = answer[s],
         UNCHANGED <<day, ahead, asked, key, canceled>>,
         answer'[r] \in Callers!Records(r) \cup Callers!Substitutes(r)
                          \cup Callers!Errors(r)
  PROVE  Callers!Reply(r)
<1>1. Calls' = [Calls EXCEPT ![r] = "done"]
  BY DEF Calls, Call
<1>2. Told' = [Told EXCEPT ![r] = answer'[r]]
  BY DEF Told, NoAnswer
<1>3. Calls[r] = "pending"
  BY Pending
<1> QED
  BY <1>1, <1>2, <1>3 DEF Callers!Reply, Calls, Told

(* The record of the date itself, once it is out, may be answered.          *)
LEMMA RecordAllowed ==
  ASSUME NEW r \in Requests, key[r] \in Dates, Out(key[r]),
         NEW s \in {"memory", "redis", "nasa", "web"}
  PROVE  Got(s, key[r]) \in Callers!Records(r)
  BY DEF Got, Callers!Records, Callers!Out, Out

(* A cancellation may be answered when one of those who share is gone.      *)
LEMMA CancellationAllowed ==
  ASSUME NEW r \in Requests, NEW s \in Callers!Sharers(r), s \in canceled
  PROVE  Error("canceled") \in Callers!Errors(r)
  BY DEF Error, Callers!Errors

(* What a flight delivers may be answered to every call that waits for it.  *)
LEMMA ResultAllowed ==
  ASSUME IndInv, NEW r \in Requests, pc[r] = "waiting",
         fpc[joined[r]] = "finished"
  PROVE  fres[joined[r]] \in Callers!Records(r) \cup Callers!Substitutes(r)
                               \cup Callers!Errors(r)
<1>1. PICK f \in Requests : f = joined[r] /\ key[f] = key[r]
  BY DEF IndInv, CallersInv
<1>2. key[r] \in Dates
  BY Pending
<1>3. ResultOK(f) /\ OutcomeOK(f) /\ fres[f] \in Answer /\ fpc[f] = "finished"
  BY <1>1 DEF IndInv, ResultsInv, OutcomesInv, TypeOK
<1>4. f \in Callers!Sharers(r)
  BY <1>1 DEF Callers!Sharers
<1>5. CASE fres[f].source \in {"nasa", "web"}
  <2>1. fres[f].date = key[r] /\ Out(key[r])
    BY <1>1, <1>3, <1>5 DEF ResultOK, OutcomeOK, Found
  <2>2. fres[f] = Got(fres[f].source, key[r])
    BY <1>3, <1>5, <2>1 DEF Answer, Got, NoAnswer, Errors
  <2> QED
    BY <1>1, <1>2, <1>5, <2>1, <2>2, RecordAllowed
<1>6. CASE fres[f].source \in {"memory-fallback", "redis-fallback"}
  <2>1. asked[f] = None /\ fres[f].date \in Dates /\ Out(fres[f].date)
    BY <1>3, <1>6, AnswerDates DEF ResultOK, OutcomeOK, Found
  <2>2. fres[f] = [source |-> fres[f].source, date |-> fres[f].date]
    BY <1>3, <1>6 DEF Answer, NoAnswer, Errors
  <2>3. fres[f] \in Callers!Substitutes(r)
    BY <1>4, <1>6, <2>1, <2>2 DEF Callers!Substitutes, Callers!Out, Out
  <2> QED
    BY <1>1, <2>3
<1>7. CASE fres[f].source \in {"failed", "canceled"}
  <2>1. fres[f] = Error(fres[f].source)
    <3>1. fres[f].date = None
      BY <1>3, <1>7, AnswerDates DEF Found
    <3>2. fres[f] = [source |-> fres[f].source, date |-> fres[f].date]
      BY <1>3, <1>7 DEF Answer, NoAnswer, Found
    <3> QED
      BY <3>1, <3>2 DEF Error
  <2>2. CASE fres[f].source = "failed"
    BY <1>1, <2>1, <2>2 DEF Error, Callers!Errors
  <2>3. CASE fres[f].source = "canceled"
    <3>1. f \in canceled
      BY <1>3, <2>3 DEF ResultOK
    <3> QED
      BY <1>1, <1>4, <2>1, <2>3, <3>1, CancellationAllowed
  <2> QED
    BY <1>7, <2>2, <2>3
<1> QED
  <2>1. fres[f].source \in Found \cup Errors \cup {""}
    BY <1>3, AnswerDates
  <2> QED
    BY <1>3, <1>5, <1>6, <1>7, <2>1 DEF Found, Errors, ResultOK, OutcomeOK

(* A step of a call is a reply, or does not show.                           *)
LEMMA CallerAsService ==
  ASSUME IndInv, NEW r \in Requests, CallerStep(r)
  PROVE  Callers!Reply(r) \/ UNCHANGED Callers!vars
<1>1. /\ UNCHANGED <<day, ahead, asked, key, canceled>>
      /\ pc[r] \in {"memory", "redis", "refill", "join", "waiting"}
      /\ \A s \in Requests \ {r} : pc'[s] = pc[s] /\ answer'[s] = answer[s]
  BY DEF CallerStep, LookInMemory, LookInRedis, Refill, Join, ReturnCanceled, Receive,
         Return, IndInv, TypeOK, days
<1>2. key[r] \in Dates /\ r \in Callers!Sharers(r)
  BY <1>1, Pending
<1>3. ASSUME pc'[r] \notin {"idle", "done"}
      PROVE  UNCHANGED Callers!vars
  BY <1>1, <1>3, StillPending DEF Callers!vars, Calls, Told
<1>4. ASSUME pc'[r] = "done",
             answer'[r] \in Callers!Records(r) \cup Callers!Substitutes(r)
                              \cup Callers!Errors(r)
      PROVE  Callers!Reply(r)
  BY <1>1, <1>4, Returned
<1>5. CASE LookInMemory(r)
  <2>1. CASE mem[key[r]] = None
    <3>1. pc'[r] = "redis"
      BY <1>5, <2>1 DEF LookInMemory, IndInv, TypeOK
    <3> QED
      BY <1>3, <3>1
  <2>2. CASE mem[key[r]] # None
    <3>1. mem[key[r]].date = key[r] /\ Out(key[r])
      BY <1>2, <2>2 DEF IndInv, CachesInv, CachesNotPoisoned, OnlyWhatIsOut
    <3>2. pc'[r] = "done" /\ answer'[r] = Got("memory", key[r])
      BY <1>5, <2>2, <3>1 DEF LookInMemory, Return, IndInv, TypeOK
    <3> QED
      BY <1>2, <1>4, <3>1, <3>2, RecordAllowed
  <2> QED
    BY <2>1, <2>2
<1>6. CASE LookInRedis(r) \/ Join(r)
  <2>1. pc'[r] \in {"refill", "join", "waiting"}
    BY <1>6 DEF LookInRedis, Join, IndInv, TypeOK
  <2> QED
    BY <1>3, <2>1
<1>7. CASE Refill(r)
  <2>1. answer[r] = Got("redis", key[r]) /\ Out(key[r])
    BY <1>7 DEF Refill, IndInv, CallersInv
  <2>2. pc'[r] = "done" /\ answer' = answer
    BY <1>7 DEF Refill, IndInv, TypeOK
  <2> QED
    BY <1>2, <1>4, <2>1, <2>2, RecordAllowed
<1>8. CASE ReturnCanceled(r)
  <2>1. r \in canceled /\ pc'[r] = "done" /\ answer'[r] = Error("canceled")
    BY <1>8 DEF ReturnCanceled, Return, IndInv, TypeOK
  <2> QED
    BY <1>2, <1>4, <2>1, CancellationAllowed
<1>9. CASE Receive(r)
  <2>1. /\ pc[r] = "waiting" /\ fpc[joined[r]] = "finished"
        /\ pc'[r] = "done" /\ answer'[r] = fres[joined[r]]
    BY <1>9 DEF Receive, Return, IndInv, TypeOK
  <2> QED
    BY <1>4, <2>1, ResultAllowed
<1> QED
  BY <1>5, <1>6, <1>7, <1>8, <1>9 DEF CallerStep

(* A call that begins, is refused or is left does so for the service too.   *)
LEMMA ClientAsService ==
  ASSUME IndInv, NEW r \in Requests, BeginCall(r) \/ RejectInvalid(r) \/ Cancel(r)
  PROVE  Callers!Begin(r) \/ Callers!Refuse(r) \/ Callers!Leave(r)
<1>1. CASE BeginCall(r)
  <2>1. /\ pc[r] = "idle" /\ pc' = [pc EXCEPT ![r] = "memory"] /\ answer' = answer
        /\ pc'[r] = "memory" /\ \A s \in Requests \ {r} : pc'[s] = pc[s]
    BY <1>1 DEF BeginCall, IndInv, TypeOK
  <2>2. Calls[r] = "idle" /\ Calls' = [Calls EXCEPT ![r] = "pending"]
    BY <2>1 DEF Calls, Call
  <2>3. Told' = Told
    BY <2>1 DEF Told, NoAnswer
  <2> QED
    BY <1>1, <2>2, <2>3 DEF BeginCall, Callers!Begin, Calls, Told, days
<1>2. CASE RejectInvalid(r)
  <2>1. /\ pc[r] = "idle" /\ pc'[r] = "done" /\ answer'[r] = Error("invalid")
        /\ \A s \in Requests \ {r} : pc'[s] = pc[s] /\ answer'[s] = answer[s]
    BY <1>2 DEF RejectInvalid, Return, IndInv, TypeOK
  <2>2. Calls[r] = "idle" /\ Calls' = [Calls EXCEPT ![r] = "done"]
    BY <2>1 DEF Calls, Call
  <2>3. Told' = [Told EXCEPT ![r] = Error("invalid")]
    BY <2>1 DEF Told, NoAnswer
  <2> QED
    BY <1>2, <2>2, <2>3 DEF RejectInvalid, Callers!Refuse, Calls, Told, Error, days
<1>3. CASE Cancel(r)
  <2>1. pc[r] \notin {"idle", "done"} /\ UNCHANGED <<pc, answer>>
    BY <1>3 DEF Cancel, callVars
  <2>2. Calls[r] = "pending" /\ UNCHANGED <<Calls, Told>>
    BY <2>1, Pending DEF Calls, Call, Told, NoAnswer
  <2> QED
    BY <1>3, <2>2 DEF Cancel, callVars, days, Callers!Leave, Calls, Told
<1> QED
  BY <1>1, <1>2, <1>3

(* Fetch begins where the service does.                                     *)
LEMMA InitAsService == Init => Callers!Init
  BY DEF Init, Callers!Init, Callers!Nothing, NoAnswer, Call

(* Every step is one of the service, or does not show to callers.           *)
LEMMA NextAsService ==
  IndInv /\ [Next]_vars => [Callers!Next]_(Callers!vars)
<1> SUFFICES ASSUME IndInv, [Next]_vars
             PROVE  Callers!Next \/ UNCHANGED Callers!vars
  OBVIOUS
<1>1. ASSUME UNCHANGED <<pc, answer>>
      PROVE  UNCHANGED <<Calls, Told>>
  BY <1>1 DEF Calls, Call, Told, NoAnswer
<1>2. ASSUME UNCHANGED <<day, ahead, asked, key, canceled, pc, answer>>
      PROVE  UNCHANGED Callers!vars
  BY <1>1, <1>2 DEF Callers!vars, Calls, Told
<1>3. ASSUME NEW f \in Requests, FlightStep(f)
      PROVE  Callers!Publish \/ UNCHANGED Callers!vars
  <2>1. UNCHANGED <<day, asked, key, canceled, pc, answer>>
    BY <1>3, FlightFrame DEF IndInv, callVars
  <2>2. CASE ahead' = ahead
    BY <1>2, <2>1, <2>2
  <2>3. CASE Fetched(f, "nasa") \/ Fetched(f, "web")
    <3>1. key[f] \in Dates
      BY <2>3 DEF Fetched, IndInv, FlightsInv, Running
    <3>2. CASE key[f] > day
      <4>1. ahead' = ahead \cup {key[f]}
        BY <2>3, <3>2 DEF Fetched
      <4> QED
        BY <1>1, <2>1, <3>1, <4>1 DEF Callers!Publish, Calls, Told
    <3>3. CASE ~(key[f] > day)
      <4>1. ahead' = ahead
        BY <2>3, <3>3 DEF Fetched
      <4> QED
        BY <2>2, <4>1
    <3> QED
      BY <3>2, <3>3
  <2>4. CASE ~(Fetched(f, "nasa") \/ Fetched(f, "web"))
    <3>1. ahead' = ahead
      BY <1>3, <2>4 DEF FlightStep, StartFlight, NASAFails, WebFails, StoreInRedis, EnsureImage,
         FallBackOnMemory, FallBackOnRedis, RefillLast, Deliver, days
    <3> QED
      BY <2>2, <3>1
  <2> QED
    BY <2>3, <2>4
<1>4. ASSUME NextDay
      PROVE  Callers!NextDay
  BY <1>1, <1>4 DEF NextDay, callVars, Callers!NextDay, Calls, Told
<1>5. ASSUME NEW d \in Dates, ForgetInMemory(d) \/ ExpireInRedis(d)
      PROVE  UNCHANGED Callers!vars
  BY <1>2, <1>5 DEF ForgetInMemory, ExpireInRedis, callVars, days
<1>6. ASSUME NEW f \in Requests, StoreAgain(f)
      PROVE  UNCHANGED Callers!vars
  BY <1>2, <1>6 DEF StoreAgain, callVars, days
<1>7. ASSUME UNCHANGED vars
      PROVE  UNCHANGED Callers!vars
  BY <1>2, <1>7 DEF vars, callVars, days
<1> QED
  BY <1>3, <1>4, <1>5, <1>6, <1>7, CallerAsService, ClientAsService DEF Next, Callers!Next

(* Fetch implements Service: with any number of calls that share flights,   *)
(* however caches forget, upstreams fail and callers leave, each call is    *)
(* answered once and as the service allows.                                *)
THEOREM Implements == Spec => ImplementsService
  BY InitAsService, NextAsService, Inductive, PTL
  DEF Spec, ImplementsService, Callers!Spec
=============================================================================
