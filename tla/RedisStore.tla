------------------------------ MODULE RedisStore ------------------------------
(***************************************************************************)
(* store.RedisStore: Redis behind a circuit breaker.                       *)
(*                                                                         *)
(* A call is admitted under the mutex, talks to Redis without it and       *)
(* reports the outcome under the mutex again: calls admitted before the    *)
(* circuit opened go on while it is open, and report afterwards.  Redis is *)
(* another process: it may execute a command whose answer is lost, execute *)
(* it again when the client retries, or execute it after the caller gave   *)
(* up.  GetLast is two commands, each admitted and reported on its own.    *)
(*                                                                         *)
(* openUntil is modelled by the number of ticks that are left of the       *)
(* window, a record by its date.                                           *)
(***************************************************************************)
EXTENDS Integers, FiniteSets

CONSTANTS Callers,     \* goroutines that use the store
          Dates,
          FailMax,     \* failures in a row that open the circuit
          OpenWindow,  \* how long it stays open, in ticks
          None

ASSUME RedisAssumption ==
  /\ FailMax \in Nat \ {0} /\ OpenWindow \in Nat \ {0}
  /\ None \notin Dates

VARIABLES
  enabled,    \* Redis answered the ping of NewRedisStore
  failCount,
  open,       \* ticks until openUntil
  up,         \* Redis can be reached, and answers in time
  held,       \* the dates whose record Redis holds
  lastDate,   \* "apod:last_date"
  late,       \* the dates of transactions given up that Redis may still execute
  pc, op, date,  \* each caller's call: its progress, its kind, its date
  early,      \* history: the callers that were admitted before the last opening
  streak,     \* history: failures since the last success or opening
  expired     \* history: the dates whose record expired since it was written

breakerVars == <<failCount, open, early, streak>>
redisVars   == <<held, lastDate, expired>>
callVars    == <<pc, op, date>>
vars == <<enabled, up, late, breakerVars, redisVars, callVars>>

Ops == {"get", "set", "get_last", "ready"}

Init ==
  /\ enabled \in BOOLEAN
  /\ failCount = 0
  /\ open = 0
  /\ up \in BOOLEAN
  /\ enabled => up
  /\ held \in SUBSET Dates
  /\ lastDate \in held \cup {None}
  /\ lastDate = None => held = {}
  /\ late = {}
  /\ pc = [c \in Callers |-> "idle"]
  /\ op = [c \in Callers |-> None]
  /\ date = [c \in Callers |-> None]
  /\ early = {}
  /\ streak = 0
  /\ expired = {}

Return(c) ==
  /\ pc' = [pc EXCEPT ![c] = "idle"]
  /\ op' = [op EXCEPT ![c] = None]
  /\ date' = [date EXCEPT ![c] = None]

-----------------------------------------------------------------------------
(* The circuit breaker.                                                     *)

allowAccess == enabled /\ open = 0

AtRedis == {c \in Callers : pc[c] \in {"sent", "executed"}}

\* Mutated form: a success closes the circuit but leaves the count.
onSuccessKeepsCount ==
  /\ open' = 0
  /\ streak' = 0
  /\ UNCHANGED <<failCount, early>>

\* A success closes the circuit, also when the call was admitted before it opened.
onSuccess ==
  /\ failCount' = 0
  /\ open' = 0
  /\ streak' = 0
  /\ UNCHANGED early

\* Mutated form: the count goes on when the circuit opens.
onFailureWithoutReset ==
  /\ failCount' = failCount + 1
  /\ IF failCount + 1 < FailMax
     THEN streak' = streak + 1 /\ UNCHANGED <<open, early>>
     ELSE streak' = 0 /\ open' = OpenWindow /\ early' = AtRedis

onFailure ==
  IF failCount + 1 < FailMax
  THEN /\ failCount' = failCount + 1
       /\ streak' = streak + 1
       /\ UNCHANGED <<open, early>>
  ELSE /\ failCount' = 0
       /\ open' = OpenWindow
       /\ streak' = 0
       /\ early' = AtRedis

-----------------------------------------------------------------------------
(* Get, Set, GetLast and Ready.                                             *)

\* Mutated form: a refused call keeps the circuit open for another window.
CallExtendsWindow(c) ==
  /\ pc[c] = "idle"
  /\ IF allowAccess
     THEN /\ pc' = [pc EXCEPT ![c] = "sent"]
          /\ \E o \in Ops, d \in Dates :
               /\ op' = [op EXCEPT ![c] = o]
               /\ date' = [date EXCEPT ![c] = IF o \in {"get", "set"} THEN d ELSE None]
          /\ early' = early \ {c}
          /\ UNCHANGED open
     ELSE /\ open' = IF enabled THEN OpenWindow ELSE 0
          /\ UNCHANGED <<callVars, early>>
  /\ UNCHANGED <<enabled, up, late, failCount, streak, redisVars>>

\* A call that is not admitted returns at once and finds, or stores, nothing.
Call(c) ==
  /\ pc[c] = "idle"
  /\ IF allowAccess
     THEN /\ pc' = [pc EXCEPT ![c] = "sent"]
          /\ \E o \in Ops, d \in Dates :
               /\ op' = [op EXCEPT ![c] = o]
               /\ date' = [date EXCEPT ![c] = IF o \in {"get", "set"} THEN d ELSE None]
          /\ early' = early \ {c}
     ELSE UNCHANGED <<callVars, early>>
  /\ UNCHANGED <<enabled, up, late, failCount, open, streak, redisVars>>

\* Mutated form: a pipeline without a transaction may stop after one command.
WriteInParts(d) ==
  /\ \/ held' = held \cup {d} /\ expired' = expired \ {d}
     \/ UNCHANGED <<held, expired>>
  /\ lastDate' = d

\* The transaction of Set: the record, with a TTL, and "last date", without.
Write(d) ==
  /\ held' = held \cup {d}
  /\ expired' = expired \ {d}
  /\ lastDate' = d

\* Redis executes the command.  GetLast's first command reads "last date".
Execute(c) ==
  /\ pc[c] = "sent" /\ up
  /\ pc' = [pc EXCEPT ![c] = "executed"]
  /\ IF op[c] = "set" THEN Write(date[c]) ELSE UNCHANGED redisVars
  /\ date' = IF op[c] = "get_last" THEN [date EXCEPT ![c] = lastDate] ELSE date
  /\ UNCHANGED <<enabled, up, late, breakerVars, op>>

\* The answer arrives, "no such key" among them; Ready reports to nobody.
Succeed(c) ==
  /\ pc[c] = "executed" /\ up
  /\ IF op[c] = "ready" THEN UNCHANGED breakerVars ELSE onSuccess
  /\ IF op[c] = "get_last" /\ date[c] # None
     THEN pc' = [pc EXCEPT ![c] = "last"] /\ UNCHANGED <<op, date>>
     ELSE Return(c)
  /\ UNCHANGED <<enabled, up, late, redisVars>>

\* Mutated form: the second command of GetLast goes out without another look.
GetOfLastUnchecked(c) ==
  /\ pc[c] = "last"
  /\ pc' = [pc EXCEPT ![c] = "sent"]
  /\ op' = [op EXCEPT ![c] = "get"]
  /\ early' = early \ {c}
  /\ UNCHANGED <<enabled, up, late, failCount, open, streak, redisVars, date>>

\* GetLast goes on as a Get of the date it read, which may be refused.
GetOfLast(c) ==
  /\ pc[c] = "last"
  /\ IF allowAccess
     THEN /\ pc' = [pc EXCEPT ![c] = "sent"]
          /\ op' = [op EXCEPT ![c] = "get"]
          /\ early' = early \ {c}
          /\ UNCHANGED date
     ELSE Return(c) /\ UNCHANGED early
  /\ UNCHANGED <<enabled, up, late, failCount, open, streak, redisVars>>

\* The client library sends the command again.
Resend(c) ==
  /\ pc[c] = "executed" /\ ~up
  /\ pc' = [pc EXCEPT ![c] = "sent"]
  /\ UNCHANGED <<enabled, up, late, breakerVars, redisVars, op, date>>

\* The 2 s are over, or the library has given up.  A transaction that was sent
\* may have arrived.
Fail(c) ==
  /\ c \in AtRedis /\ ~up
  /\ IF op[c] = "ready" THEN UNCHANGED breakerVars ELSE onFailure
  /\ \/ UNCHANGED late
     \/ pc[c] = "sent" /\ op[c] = "set" /\ late' = late \cup {date[c]}
  /\ Return(c)
  /\ UNCHANGED <<enabled, up, redisVars>>

-----------------------------------------------------------------------------
(* Redis and the clock.                                                     *)
ExecuteLate(d) ==
  /\ d \in late /\ up
  /\ Write(d)
  /\ late' = late \ {d}
  /\ UNCHANGED <<enabled, up, breakerVars, callVars>>

Expire(d) ==
  /\ d \in held
  /\ held' = held \ {d}
  /\ expired' = expired \cup {d}
  /\ UNCHANGED <<enabled, up, late, lastDate, breakerVars, callVars>>

GoDownOrUp ==
  /\ up' = ~up
  /\ UNCHANGED <<enabled, late, breakerVars, redisVars, callVars>>

Tick ==
  /\ open > 0
  /\ open' = open - 1
  /\ UNCHANGED <<enabled, up, late, failCount, early, streak, redisVars, callVars>>

CallStep(c) == Execute(c) \/ Succeed(c) \/ GetOfLast(c) \/ Fail(c)

Next ==
  \/ \E c \in Callers : Call(c) \/ CallStep(c) \/ Resend(c)
  \/ \E d \in Dates : ExecuteLate(d) \/ Expire(d)
  \/ GoDownOrUp \/ Tick

Spec == Init /\ [][Next]_vars

(* Time passes and calls go on; nobody need call, and Redis may stay away.  *)
FairSpec == Spec /\ WF_vars(Tick) /\ \A c \in Callers : WF_vars(CallStep(c))

-----------------------------------------------------------------------------
(* Types; failCount stays below the number that opens the circuit.          *)
TypeOK ==
  /\ enabled \in BOOLEAN /\ up \in BOOLEAN
  /\ failCount \in 0..(FailMax - 1)
  /\ open \in 0..OpenWindow
  /\ held \subseteq Dates /\ expired \subseteq Dates /\ late \subseteq Dates
  /\ lastDate \in Dates \cup {None}
  /\ pc \in [Callers -> {"idle", "sent", "executed", "last"}]
  /\ op \in [Callers -> Ops \cup {None}]
  /\ date \in [Callers -> Dates \cup {None}]
  /\ early \subseteq Callers
  /\ streak \in Nat
  /\ \A c \in Callers : pc[c] # "idle" /\ op[c] \in {"get", "set"} => date[c] \in Dates

(* The circuit opens, or is kept open longer, only after FailMax failures   *)
(* with no success in between, from whichever calls they come and however  *)
(* late the calls that were admitted before an opening report.             *)
OpensOnStreak ==
  [][open' > open => streak + 1 >= FailMax]_vars

(* While the circuit is open the only calls at Redis are those that were    *)
(* admitted before it opened; GetLast does not slip its second command in. *)
NobodyAdmittedWhileOpen == open > 0 => AtRedis \subseteq early

(* "last date" names a record that Redis holds, or held until it expired:   *)
(* whatever transactions are repeated or executed late, it never names a   *)
(* record that was not written.                                            *)
LastDateHasRecord == lastDate \in held \cup expired \cup {None}

(* When Redis comes back for good, the circuit closes for good, however     *)
(* many calls are tried meanwhile.                                         *)
Recovers == <>[]up => <>[](open = 0)
=============================================================================
