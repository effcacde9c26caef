--------------------------- MODULE RedisStoreProofs ---------------------------
(* Proofs about RedisStore, for any set of callers and dates and any size   *)
(* of the circuit breaker.                                                 *)
EXTENDS RedisStore, TLAPS

(* A call knows what it does, and GetLast goes on only with a date.         *)
CallsInv ==
  /\ pc \in [Callers -> {"idle", "sent", "executed", "last"}]
  /\ op \in [Callers -> Ops \cup {None}]
  /\ date \in [Callers -> Dates \cup {None}]
  /\ \A c \in Callers :
       /\ pc[c] # "idle" => op[c] \in Ops
       /\ pc[c] # "idle" /\ op[c] \in {"get", "set"} => date[c] \in Dates
       /\ pc[c] = "last" => date[c] \in Dates

(* failCount counts the failures since the last success or opening.         *)
StreakInv == streak = failCount

IndInv ==
  /\ TypeOK /\ CallsInv /\ StreakInv
  /\ NobodyAdmittedWhileOpen /\ LastDateHasRecord

-----------------------------------------------------------------------------
(* What the outcome of a call does to the breaker: the counters stay in     *)
(* their range and equal, and an opening takes FailMax failures.           *)
LEMMA SuccessKeeps ==
  ASSUME TypeOK, onSuccess
  PROVE  /\ failCount' \in 0..(FailMax - 1) /\ streak' = failCount'
         /\ open' = 0 /\ streak' \in Nat /\ early' = early
  BY RedisAssumption DEF onSuccess, TypeOK

(* The same for a failure, which may open the circuit.                      *)
LEMMA FailureKeeps ==
  ASSUME TypeOK, StreakInv, onFailure
  PROVE  /\ failCount' \in 0..(FailMax - 1) /\ streak' = failCount'
         /\ open' \in 0..OpenWindow /\ streak' \in Nat
         /\ \/ open' = open /\ early' = early
            \/ streak + 1 >= FailMax /\ early' = AtRedis
  BY RedisAssumption DEF onFailure, TypeOK, StreakInv

(* Every step but a report, an opening or the clock leaves the counters.    *)
LEMMA BreakerStep ==
  ASSUME IndInv, [Next]_vars
  PROVE  /\ failCount' \in 0..(FailMax - 1) /\ streak' = failCount'
         /\ open' \in 0..OpenWindow /\ streak' \in Nat
         /\ open' > open => streak + 1 >= FailMax
<1> USE DEF IndInv, StreakInv
<1>1. open \in Nat /\ OpenWindow \in Nat /\ open <= OpenWindow
  BY RedisAssumption DEF TypeOK
<1>2. CASE UNCHANGED <<failCount, open, streak>>
  BY <1>1, <1>2 DEF TypeOK
<1>3. ASSUME NEW c \in Callers, Succeed(c)
      PROVE  UNCHANGED <<failCount, open, streak>> \/ onSuccess
  BY <1>3 DEF Succeed, breakerVars
<1>4. ASSUME NEW c \in Callers, Fail(c)
      PROVE  UNCHANGED <<failCount, open, streak>> \/ onFailure
  BY <1>4 DEF Fail, breakerVars
<1>5. CASE onSuccess
  BY <1>1, <1>5, SuccessKeeps DEF TypeOK
<1>6. CASE onFailure
  BY <1>1, <1>6, FailureKeeps DEF TypeOK
<1>7. CASE Tick
  BY <1>1, <1>7 DEF Tick, TypeOK
<1>8. ASSUME NEW c \in Callers,
             Call(c) \/ Execute(c) \/ GetOfLast(c) \/ Resend(c)
      PROVE  UNCHANGED <<failCount, open, streak>>
  BY <1>8 DEF Call, Execute, GetOfLast, Resend, breakerVars
<1>9. ASSUME GoDownOrUp \/ (\E d \in Dates : ExecuteLate(d) \/ Expire(d)) \/ UNCHANGED vars
      PROVE  UNCHANGED <<failCount, open, streak>>
  BY <1>9 DEF GoDownOrUp, ExecuteLate, Expire, vars, breakerVars
<1> QED
  BY <1>2, <1>3, <1>4, <1>5, <1>6, <1>7, <1>8, <1>9 DEF Next, CallStep
-----------------------------------------------------------------------------
(* A call ends, or Redis answers it, without another one noticing.          *)
LEMMA CallsStep ==
  ASSUME IndInv, [Next]_vars
  PROVE  CallsInv'
<1> USE DEF IndInv
<1>1. CASE UNCHANGED callVars
  BY <1>1 DEF callVars, TypeOK, CallsInv
<1>2. ASSUME NEW c \in Callers, Return(c)
      PROVE  CallsInv'
  BY <1>2 DEF Return, TypeOK, CallsInv
<1>3. ASSUME NEW c \in Callers, Call(c), ~UNCHANGED callVars
      PROVE  CallsInv'
  <2>1. PICK o \in Ops, d \in Dates :
          /\ op' = [op EXCEPT ![c] = o]
          /\ date' = [date EXCEPT ![c] = IF o \in {"get", "set"} THEN d ELSE None]
    BY <1>3 DEF Call
  <2>2. pc' = [pc EXCEPT ![c] = "sent"]
    BY <1>3 DEF Call
  <2> QED
    BY <2>1, <2>2 DEF TypeOK, CallsInv
<1>4. ASSUME NEW c \in Callers, Execute(c)
      PROVE  CallsInv'
  BY <1>4 DEF Execute, TypeOK, CallsInv
<1>5. ASSUME NEW c \in Callers, Succeed(c)
      PROVE  CallsInv'
  BY <1>2, <1>5 DEF Succeed, TypeOK, CallsInv
<1>6. ASSUME NEW c \in Callers, GetOfLast(c)
      PROVE  CallsInv'
  BY <1>2, <1>6 DEF GetOfLast, TypeOK, CallsInv, Ops
<1>7. ASSUME NEW c \in Callers, Resend(c)
      PROVE  CallsInv'
  BY <1>7 DEF Resend, TypeOK, CallsInv
<1>8. ASSUME NEW c \in Callers, Fail(c)
      PROVE  Return(c)
  BY <1>8 DEF Fail
<1>9. ASSUME \/ GoDownOrUp \/ Tick \/ UNCHANGED vars
             \/ \E d \in Dates : ExecuteLate(d) \/ Expire(d)
      PROVE  UNCHANGED callVars
  BY <1>9 DEF GoDownOrUp, Tick, ExecuteLate, Expire, vars
<1> QED
  BY <1>1, <1>2, <1>3, <1>4, <1>5, <1>6, <1>7, <1>8, <1>9 DEF Next, CallStep
-----------------------------------------------------------------------------
(* A date that was written stays among those that are held or expired.      *)
LEMMA RecordsStep ==
  ASSUME IndInv, [Next]_vars
  PROVE  /\ held' \subseteq Dates /\ expired' \subseteq Dates
         /\ late' \subseteq Dates /\ lastDate' \in Dates \cup {None}
         /\ LastDateHasRecord'
<1> USE DEF IndInv, LastDateHasRecord
<1>1. CASE UNCHANGED <<redisVars, late>>
  BY <1>1 DEF redisVars, TypeOK
<1>2. ASSUME NEW c \in Callers, Execute(c), op[c] = "set"
      PROVE  /\ late' = late
             /\ date[c] \in Dates
             /\ Write(date[c])
  BY <1>2 DEF Execute, CallsInv
<1>3. ASSUME NEW d \in Dates, Write(d), late' \subseteq late
      PROVE  /\ held' \subseteq Dates /\ expired' \subseteq Dates
             /\ late' \subseteq Dates /\ lastDate' \in Dates \cup {None}
             /\ LastDateHasRecord'
  BY <1>3 DEF Write, TypeOK
<1>4. ASSUME NEW c \in Callers, Fail(c)
      PROVE  UNCHANGED redisVars /\ late' \subseteq Dates
  BY <1>4 DEF Fail, AtRedis, TypeOK, CallsInv
<1>5. ASSUME NEW d \in Dates, ExecuteLate(d)
      PROVE  Write(d) /\ late' \subseteq late
  BY <1>5 DEF ExecuteLate
<1>6. ASSUME NEW d \in Dates, Expire(d)
      PROVE  /\ held' \subseteq Dates /\ expired' \subseteq Dates
             /\ late' \subseteq Dates /\ lastDate' \in Dates \cup {None}
             /\ LastDateHasRecord'
  BY <1>6 DEF Expire, TypeOK
<1>7. ASSUME NEW c \in Callers,
             \/ Call(c) \/ Succeed(c) \/ GetOfLast(c) \/ Resend(c)
             \/ Execute(c) /\ op[c] # "set"
      PROVE  UNCHANGED <<redisVars, late>>
  BY <1>7 DEF Call, Succeed, GetOfLast, Resend, Execute
<1>8. ASSUME GoDownOrUp \/ Tick \/ UNCHANGED vars
      PROVE  UNCHANGED <<redisVars, late>>
  BY <1>8 DEF GoDownOrUp, Tick, vars
<1> QED
  <2>1. ASSUME NEW c \in Callers, Fail(c)
        PROVE  LastDateHasRecord' /\ held' \subseteq Dates /\ expired' \subseteq Dates
                 /\ late' \subseteq Dates /\ lastDate' \in Dates \cup {None}
    BY <1>4, <2>1 DEF redisVars, TypeOK
  <2> QED
    BY <1>1, <1>2, <1>3, <1>5, <1>6, <1>7, <1>8, <2>1 DEF Next, CallStep

(* Who is at Redis while the circuit is open was there when it opened:      *)
(* admission needs a closed circuit, and an opening notes who is there.     *)
LEMMA AdmissionStep ==
  ASSUME IndInv, [Next]_vars
  PROVE  early' \subseteq Callers /\ NobodyAdmittedWhileOpen'
<1> USE DEF IndInv, NobodyAdmittedWhileOpen
<1>1. early \subseteq Callers /\ open \in Nat /\ pc \in [Callers -> {"idle", "sent", "executed", "last"}]
  BY RedisAssumption DEF TypeOK
<1>2. ASSUME NEW c \in Callers, Call(c) \/ GetOfLast(c)
      PROVE  early' \subseteq Callers /\ NobodyAdmittedWhileOpen'
  BY <1>1, <1>2 DEF Call, GetOfLast, Return, allowAccess, AtRedis, callVars
<1>3. ASSUME NEW c \in Callers, Succeed(c)
      PROVE  early' \subseteq Callers /\ NobodyAdmittedWhileOpen'
  <2>1. AtRedis' \subseteq AtRedis
    BY <1>1, <1>3 DEF Succeed, Return, AtRedis
  <2>2. early' = early /\ (open' = open \/ open' = 0)
    BY <1>3 DEF Succeed, onSuccess, breakerVars
  <2> QED
    BY <1>1, <2>1, <2>2
<1>4. ASSUME NEW c \in Callers, Fail(c)
      PROVE  early' \subseteq Callers /\ NobodyAdmittedWhileOpen'
  <2>1. AtRedis' \subseteq AtRedis
    BY <1>1, <1>4 DEF Fail, Return, AtRedis
  <2>2. (early' = early /\ open' = open) \/ early' = AtRedis
    BY <1>4 DEF Fail, onFailure, breakerVars
  <2> QED
    BY <1>1, <2>1, <2>2 DEF AtRedis
<1>5. ASSUME NEW c \in Callers, Execute(c) \/ Resend(c)
      PROVE  AtRedis' \subseteq AtRedis /\ early' = early /\ open' = open
  BY <1>1, <1>5 DEF Execute, Resend, AtRedis, breakerVars
<1>6. ASSUME \/ GoDownOrUp \/ UNCHANGED vars
             \/ \E d \in Dates : ExecuteLate(d) \/ Expire(d)
      PROVE  AtRedis' \subseteq AtRedis /\ early' = early /\ open' = open
  BY <1>6 DEF GoDownOrUp, ExecuteLate, Expire, AtRedis, vars, callVars, breakerVars
<1>7. CASE Tick
  BY <1>1, <1>7 DEF Tick, AtRedis, callVars
<1> QED
  BY <1>1, <1>2, <1>3, <1>4, <1>5, <1>6, <1>7 DEF Next, CallStep
-----------------------------------------------------------------------------
(* The invariant holds at the start.                                        *)
LEMMA InitInv == Init => IndInv
  BY RedisAssumption DEF Init, IndInv, TypeOK, CallsInv, StreakInv,
     NobodyAdmittedWhileOpen, LastDateHasRecord

(* Every step keeps it.                                                     *)
LEMMA NextInv == IndInv /\ [Next]_vars => IndInv'
<1> SUFFICES ASSUME IndInv, [Next]_vars PROVE IndInv'
  OBVIOUS
<1>1. enabled' \in BOOLEAN /\ up' \in BOOLEAN
  BY DEF IndInv, TypeOK, Next, CallStep, Call, Execute, Succeed, GetOfLast, Fail,
     Resend, ExecuteLate, Expire, GoDownOrUp, Tick, vars
<1>2. TypeOK'
  BY <1>1, BreakerStep, CallsStep, RecordsStep, AdmissionStep DEF TypeOK, CallsInv
<1> QED
  BY <1>2, BreakerStep, CallsStep, RecordsStep, AdmissionStep DEF IndInv, StreakInv

(* The invariant of the breaker and of its calls.                           *)
THEOREM Inductive == Spec => []IndInv
  BY InitInv, NextInv, PTL DEF Spec

(* Type correctness; failCount never reaches the number that opens the     *)
(* circuit, so it is always reset in time.                                 *)
THEOREM TypeCorrect == Spec => []TypeOK
  BY Inductive, PTL DEF IndInv

(* allowAccess and onFailure leave no gap: nobody is at Redis while the     *)
(* circuit is open but those who were there when it opened.                *)
THEOREM NobodySlipsIn == Spec => []NobodyAdmittedWhileOpen
  BY Inductive, PTL DEF IndInv

(* The transaction of Set: "last date" never names a record that was not    *)
(* written.                                                                *)
THEOREM LastDateWritten == Spec => []LastDateHasRecord
  BY Inductive, PTL DEF IndInv

(* onFailure opens the circuit, or keeps it open, only after FailMax        *)
(* failures in a row.                                                      *)
THEOREM OpeningsEarned == Spec => OpensOnStreak
<1>1. IndInv /\ [Next]_vars => [open' > open => streak + 1 >= FailMax]_vars
  BY BreakerStep
<1> QED
  BY <1>1, Inductive, PTL DEF Spec, OpensOnStreak
=============================================================================
