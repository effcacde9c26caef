------------------------------- MODULE Service -------------------------------
(***************************************************************************)
(* What fetch.Service promises to those who call GetAPOD.  A call is for   *)
(* one date, that of the day when it names none, and is answered once:     *)
(* with the record of its date, with a record of another day, or with an   *)
(* error.  Caches, upstreams and flights do not show, but that calls for a *)
(* date share what they get does: if one of them names no date, all may be *)
(* given another day's record, and if one is gone, all may be canceled.    *)
(***************************************************************************)
EXTENDS Integers

CONSTANTS Requests, Dates, None

VARIABLES
  day,
  ahead,       \* days whose record was published before they came
  call,        \* each call: "idle", "pending" or "done"
  asked, key,  \* the date it names or None, and the date it is for
  gone,        \* the calls nobody waits for any more
  answer       \* what it was answered

vars == <<day, ahead, call, asked, key, gone, answer>>

Nothing == [source |-> "", date |-> None]

Init ==
  /\ day \in Dates
  /\ ahead \subseteq Dates
  /\ call = [r \in Requests |-> "idle"]
  /\ asked = [r \in Requests |-> None]
  /\ key = [r \in Requests |-> None]
  /\ gone = {}
  /\ answer = [r \in Requests |-> Nothing]

\* The calls for the date of r, itself among them.
Sharers(r) == {s \in Requests : key[s] = key[r]}

\* Nobody is told of a day that is not out.
Out(d) == d <= day \/ d \in ahead

Records(r) ==
  [source : {"memory", "redis", "nasa", "web"}, date : {d \in Dates : d = key[r] /\ Out(d)}]

Substitutes(r) ==
  [source : {"memory-fallback", "redis-fallback"},
   date : {d \in Dates : Out(d) /\ \E s \in Sharers(r) : asked[s] = None}]

Errors(r) ==
  [source : {"failed"}, date : {None}]
    \cup [source : {e \in {"canceled"} : Sharers(r) \cap gone # {}}, date : {None}]

Begin(r) ==
  /\ call[r] = "idle"
  /\ call' = [call EXCEPT ![r] = "pending"]
  /\ \E a \in Dates \cup {None} :
       /\ asked' = [asked EXCEPT ![r] = a]
       /\ key' = [key EXCEPT ![r] = IF a = None THEN day ELSE a]
  /\ UNCHANGED <<day, ahead, gone, answer>>

Refuse(r) ==
  /\ call[r] = "idle"
  /\ call' = [call EXCEPT ![r] = "done"]
  /\ answer' = [answer EXCEPT ![r] = [source |-> "invalid", date |-> None]]
  /\ UNCHANGED <<day, ahead, asked, key, gone>>

Reply(r) ==
  /\ call[r] = "pending"
  /\ call' = [call EXCEPT ![r] = "done"]
  /\ \E a \in Records(r) \cup Substitutes(r) \cup Errors(r) :
       answer' = [answer EXCEPT ![r] = a]
  /\ UNCHANGED <<day, ahead, asked, key, gone>>

Leave(r) ==
  /\ call[r] = "pending"
  /\ gone' = gone \cup {r}
  /\ UNCHANGED <<day, ahead, call, asked, key, answer>>

NextDay ==
  /\ day' = day + 1
  /\ UNCHANGED <<ahead, call, asked, key, gone, answer>>

Publish ==
  /\ \E d \in Dates : ahead' = ahead \cup {d}
  /\ UNCHANGED <<day, call, asked, key, gone, answer>>

Next ==
  \/ \E r \in Requests : Begin(r) \/ Refuse(r) \/ Reply(r) \/ Leave(r)
  \/ NextDay \/ Publish

Spec == Init /\ [][Next]_vars
=============================================================================
