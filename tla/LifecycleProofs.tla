--------------------------- MODULE LifecycleProofs ---------------------------
(* Proofs about Lifecycle, for any number of requests, any length of the    *)
(* day and any delays: today's record is asked for on the day, and only    *)
(* the deadline of Shutdown cuts off a request.                            *)
EXTENDS Lifecycle, TLAPS

\* The pause before the first attempt is told from the others by its number.
FirstAttemptPauses == job["startup"].attempt = -1 => job["startup"].at = "pausing"

\* A prefetch that had its turn on a day nobody started the process on was made.
FiredMeansTried == fired /\ ~begun => tried

IndInv == TypeOK /\ FirstAttemptPauses /\ FiredMeansTried /\ DayTried

-----------------------------------------------------------------------------
(* Whatever exits, the state it leaves is typed.                            *)
LEMMA ExitTypeOK ==
  ASSUME TypeOK, NEW how \in {"returned", "fatal", "killed"}, Exit(how)
  PROVE  TypeOK'
<1>1. cut' \subseteq Handlers \cup Jobs
  BY DEF TypeOK, Exit, Running
<1> QED
  BY <1>1 DEF TypeOK, Exit, Idle, dayVars

(* An attempt is numbered and has a deadline.                               *)
LEMMA AttemptTypeOK ==
  ASSUME TypeOK, NEW j \in Jobs, NEW n \in Nat, Attempt(j, n), fired' \in BOOLEAN
  PROVE  TypeOK'
  BY LifecycleAssumption DEF TypeOK, Attempt

(* The initial state satisfies the invariant.                               *)
LEMMA InitInd == Init => IndInv
<1> SUFFICES ASSUME Init
             PROVE  IndInv
  OBVIOUS
<1>1. job \in [Jobs -> [at : {"idle", "pausing", "asking"}, left : Nat, attempt : Nat \cup {-1}]]
  BY DEF Init, Idle
<1>2. TypeOK
  BY <1>1 DEF Init, TypeOK
<1>3. FirstAttemptPauses
  BY DEF Init, FirstAttemptPauses, Idle, Jobs
<1>4. FiredMeansTried
  BY DEF Init, FiredMeansTried
<1>5. DayTried
  BY DEF Init, DayTried, Up
<1> QED
  BY <1>2, <1>3, <1>4, <1>5 DEF IndInv

(* Every step preserves the types.                                          *)
LEMMA TypeStep == TypeOK /\ [Next]_vars => TypeOK'
<1> SUFFICES ASSUME TypeOK, [Next]_vars
             PROVE  TypeOK'
  OBVIOUS
<1>1. CASE NewApp
  <2>1. job' \in [Jobs -> [at : {"idle", "pausing", "asking"}, left : Nat,
                           attempt : Nat \cup {-1}]]
    BY <1>1, LifecycleAssumption DEF NewApp, StartupJobs, Idle
  <2>2. fired' \in BOOLEAN
    <3>1. (slot >= PrefetchAt) \in BOOLEAN /\ (slot > PrefetchAt) \in BOOLEAN
      BY LifecycleAssumption DEF TypeOK
    <3> QED
      BY <1>1, <3>1, Zenon DEF NewApp
  <2> QED
    BY <1>1, <2>1, <2>2 DEF TypeOK, NewApp
<1>2. CASE NewAppFails \/ ListenAndServeFails \/ ShutdownEnds \/ Kill
  BY <1>2, ExitTypeOK
     DEF NewAppFails, ListenAndServeFails, ShutdownEnds, ShutdownSucceeds, ShutdownFails, Kill
<1>3. CASE Listen \/ Notify \/ Terminate \/ Restart
  BY <1>3, LifecycleAssumption DEF TypeOK, Listen, Notify, Terminate, Restart, dayVars
<1>4. CASE JobStep
  <2>1. CASE FirePrefetch
    BY <2>1, AttemptTypeOK DEF FirePrefetch, Jobs
  <2>2. ASSUME NEW j \in Jobs, Retry(j)
        PROVE  TypeOK'
    <3>1. job[j].attempt + 1 \in Nat
      BY DEF TypeOK
    <3>2. fired' \in BOOLEAN
      BY <2>2 DEF TypeOK, Retry
    <3> QED
      BY <2>2, <3>1, <3>2, AttemptTypeOK DEF Retry
  <2>3. ASSUME NEW j \in Jobs, AttemptEnds(j)
        PROVE  TypeOK'
    BY <2>3, LifecycleAssumption DEF TypeOK, AttemptEnds, Idle, dayVars
  <2> QED
    BY <1>4, <2>1, <2>2, <2>3 DEF JobStep
<1>5. CASE Tick
  <2>1. \A n \in Nat : OneLess(n) \in Nat
    BY DEF OneLess
  <2>2. left' \in Nat
    BY <1>5, <2>1 DEF TypeOK, Tick
  <2>3. \A j \in Jobs : [job[j] EXCEPT !.left = OneLess(@)]
                          \in [at : {"idle", "pausing", "asking"}, left : Nat,
                               attempt : Nat \cup {-1}]
    BY <2>1 DEF TypeOK
  <2>4. job' \in [Jobs -> [at : {"idle", "pausing", "asking"}, left : Nat,
                           attempt : Nat \cup {-1}]]
    BY <1>5, <2>3 DEF Tick
  <2>5. slot' \in 0..DaySlots - 1
    BY <1>5, LifecycleAssumption DEF TypeOK, Tick
  <2>6. fired' \in BOOLEAN /\ tried' \in BOOLEAN /\ begun' \in BOOLEAN
    BY <1>5, Zenon DEF TypeOK, Tick, dayVars
  <2> QED
    BY <1>5, <2>2, <2>4, <2>5, <2>6 DEF TypeOK, Tick
<1>6. ASSUME NEW h \in Handlers, Accept(h) \/ Answer(h)
      PROVE  TypeOK'
  BY <1>6 DEF TypeOK, Accept, Answer, dayVars
<1>7. CASE UNCHANGED vars
  BY <1>7 DEF TypeOK, vars, dayVars
<1> QED
  BY <1>1, <1>2, <1>3, <1>4, <1>5, <1>6, <1>7 DEF Next

-----------------------------------------------------------------------------
(* A step that leaves the day, the jobs and whether the process is up alone *)
(* disturbs nothing of what is known of the day.                           *)
LEMMA DayUndisturbed ==
  ASSUME IndInv, TypeOK', UNCHANGED <<slot, job, dayVars>>, Up' => Up
  PROVE  IndInv'
  BY DEF IndInv, FirstAttemptPauses, FiredMeansTried, DayTried, dayVars

(* What has exited need not have asked for anything.                        *)
LEMMA DayAfterExit ==
  ASSUME IndInv, TypeOK', NEW how \in {"returned", "fatal", "killed"}, Exit(how)
  PROVE  IndInv'
  BY DEF IndInv, FirstAttemptPauses, FiredMeansTried, DayTried, Exit, Idle, Up, dayVars, Jobs

(* Once an attempt is made the date of today has been asked for.            *)
LEMMA DayAfterAttempt ==
  ASSUME IndInv, TypeOK', NEW j \in Jobs, NEW n \in Nat, Attempt(j, n)
  PROVE  IndInv'
  BY DEF IndInv, TypeOK, FirstAttemptPauses, FiredMeansTried, DayTried, Attempt

(* The slot of the daily prefetch does not pass before it had its turn, and *)
(* a new day begins before that slot.                                      *)
LEMMA DayAfterTick ==
  ASSUME IndInv, TypeOK', Tick
  PROVE  IndInv'
<1>1. \A j \in Jobs : job'[j].at = job[j].at /\ job'[j].attempt = job[j].attempt
  BY DEF IndInv, TypeOK, Tick
<1>2. FirstAttemptPauses'
  BY <1>1 DEF IndInv, FirstAttemptPauses, Jobs
<1>3. \/ slot' = slot + 1 /\ fired' = fired /\ tried' = tried /\ begun' = begun
      \/ slot' = 0 /\ fired' = FALSE /\ begun' = FALSE
  BY DEF Tick, dayVars
<1>4. FiredMeansTried'
  BY <1>3, Zenon DEF IndInv, FiredMeansTried
<1>5. DayTried'
  <2>1. CASE slot' = slot + 1 /\ fired' = fired /\ tried' = tried /\ begun' = begun
    <3> SUFFICES ASSUME Up', job'["startup"].attempt # -1, begun' \/ slot' > PrefetchAt
                 PROVE  tried'
      BY Zenon DEF DayTried
    <3>1. Up /\ job["startup"].attempt # -1
      BY <1>1 DEF Tick, Up, Jobs
    <3>2. CASE begun \/ slot > PrefetchAt
      BY <2>1, <3>1, <3>2, Zenon DEF IndInv, DayTried
    <3>3. CASE ~begun /\ ~(slot > PrefetchAt)
      <4>1. slot' > PrefetchAt
        BY <2>1, <3>3, Zenon
      <4>2. slot = PrefetchAt
        BY <2>1, <3>3, <4>1, LifecycleAssumption DEF IndInv, TypeOK
      <4>3. fired
        BY <3>1, <4>2 DEF Tick, Due
      <4> QED
        BY <2>1, <3>3, <4>3, Zenon DEF IndInv, FiredMeansTried
    <3> QED
      BY <3>2, <3>3, Zenon
  <2>2. CASE slot' = 0 /\ fired' = FALSE /\ begun' = FALSE
    <3>1. ~(slot' > PrefetchAt)
      BY <2>2, LifecycleAssumption
    <3> QED
      BY <2>2, <3>1, Zenon DEF DayTried
  <2> QED
    BY <1>3, <2>1, <2>2, Zenon
<1> QED
  BY <1>2, <1>4, <1>5 DEF IndInv

(* Every step preserves the invariant.                                      *)
LEMMA IndStep == IndInv /\ [Next]_vars => IndInv'
<1> SUFFICES ASSUME IndInv, [Next]_vars
             PROVE  IndInv'
  OBVIOUS
<1>0. TypeOK /\ TypeOK'
  BY TypeStep DEF IndInv
<1>1. CASE NewApp
  BY <1>0, <1>1
     DEF IndInv, FirstAttemptPauses, FiredMeansTried, DayTried, NewApp, StartupJobs, Jobs
<1>2. CASE NewAppFails \/ ListenAndServeFails \/ ShutdownEnds \/ Kill
  BY <1>0, <1>2, DayAfterExit
     DEF NewAppFails, ListenAndServeFails, ShutdownEnds, ShutdownSucceeds, ShutdownFails, Kill
<1>3. CASE Listen \/ Notify \/ Terminate \/ Restart
  BY <1>0, <1>3, DayUndisturbed DEF Listen, Notify, Terminate, Restart, Up, dayVars
<1>4. CASE JobStep
  <2>1. CASE FirePrefetch
    BY <1>0, <2>1, DayAfterAttempt DEF FirePrefetch, Jobs
  <2>2. ASSUME NEW j \in Jobs, Retry(j)
        PROVE  IndInv'
    <3>1. job[j].attempt + 1 \in Nat
      BY <1>0 DEF TypeOK
    <3> QED
      BY <1>0, <2>2, <3>1, DayAfterAttempt DEF Retry
  <2>3. ASSUME NEW j \in Jobs, AttemptEnds(j)
        PROVE  IndInv'
    <3>1. /\ job'["startup"].attempt = -1 => job["startup"].attempt = -1
          /\ job'["startup"].attempt # -1 => job["startup"].attempt # -1
          /\ job'["startup"].attempt = -1 => job'["startup"].at = "pausing"
      BY <1>0, <2>3 DEF IndInv, TypeOK, FirstAttemptPauses, AttemptEnds, Idle, Jobs
    <3> QED
      BY <1>0, <2>3, <3>1
         DEF IndInv, FirstAttemptPauses, FiredMeansTried, DayTried, AttemptEnds, Up, dayVars
  <2> QED
    BY <1>4, <2>1, <2>2, <2>3 DEF JobStep
<1>5. CASE Tick
  BY <1>0, <1>5, DayAfterTick
<1>6. ASSUME NEW h \in Handlers, Accept(h) \/ Answer(h)
      PROVE  IndInv'
  BY <1>0, <1>6, DayUndisturbed DEF Accept, Answer, Up
<1>7. CASE UNCHANGED vars
  BY <1>0, <1>7, DayUndisturbed DEF vars, Up
<1> QED
  BY <1>1, <1>2, <1>3, <1>4, <1>5, <1>6, <1>7 DEF Next

(* The process keeps its types.                                             *)
THEOREM SpecTypeOK == Spec => []TypeOK
<1>1. IndInv => TypeOK
  BY DEF IndInv
<1> QED
  BY <1>1, InitInd, IndStep, PTL DEF Spec

(* DayTried: however the process is started, killed and restarted, and      *)
(* wherever in the day, it has asked for today's record once its pause at  *)
(* start-up or the slot of the daily prefetch is over.                     *)
THEOREM SpecDayTried == Spec => []DayTried
<1>1. IndInv => DayTried
  BY DEF IndInv
<1> QED
  BY <1>1, InitInd, IndStep, PTL DEF Spec

-----------------------------------------------------------------------------
(* GracefulToRequests: no error of the listener, no answer and no other end *)
(* of Run cuts off a request while Shutdown may still wait for it.         *)
THEOREM SpecGracefulToRequests == Spec => GracefulToRequests
<1>1. [Next]_vars =>
        [main = "draining" /\ main' \in {"returned", "fatal"} /\ busy # {} => left = 0]_vars
  <2> SUFFICES ASSUME Next, main = "draining", main' \in {"returned", "fatal"}, busy # {}
               PROVE  left = 0
    OBVIOUS
  <2>1. ~(NewApp \/ NewAppFails \/ Notify \/ ListenAndServeFails \/ Terminate \/ Restart)
    BY DEF NewApp, NewAppFails, Notify, ListenAndServeFails, Terminate, Restart, Down
  <2>2. ~(Listen \/ JobStep \/ Tick \/ \E h \in Handlers : Accept(h) \/ Answer(h))
    BY DEF Listen, JobStep, FirePrefetch, Retry, Attempt, AttemptEnds, Tick, Accept, Answer
  <2>3. ~Kill
    BY DEF Kill, Exit
  <2>4. CASE ShutdownEnds
    BY <2>4 DEF ShutdownEnds, ShutdownSucceeds, ShutdownFails
  <2> QED
    BY <2>1, <2>2, <2>3, <2>4 DEF Next
<1> QED
  BY <1>1, PTL DEF Spec, GracefulToRequests
-----------------------------------------------------------------------------
Round == AttemptTime + RetryPause   \* an attempt and the pause after it

\* How long ago the schedule was last due.
Elapsed == IF slot >= PrefetchAt THEN slot - PrefetchAt ELSE slot + DaySlots - PrefetchAt

\* What is left of the attempt, and of the pause after it.
Ahead(at, left_) == IF at = "pausing" THEN left_ ELSE left_ + RetryPause

(* A daily prefetch that goes on has had its turn, and keeps to its timetable: *)
(* what is behind it and ahead of it are the rounds of its attempts.           *)
PrefetchInv ==
  job["prefetch"].at # "idle" =>
    /\ job["prefetch"].attempt \in 0..MaxRetries
    /\ Elapsed = 0 => fired
    /\ Elapsed + Ahead(job["prefetch"].at, job["prefetch"].left)
         <= (job["prefetch"].attempt + 1) * Round
    /\ job["prefetch"].at = "pausing" => job["prefetch"].attempt < MaxRetries

(* The rounds of all attempts fit in a day.                                 *)
LEMMA RoundsFit ==
  /\ Round \in Nat \ {0}
  /\ \A n \in 0..MaxRetries :
       /\ (n + 1) * Round \in Nat
       /\ (n + 1) * Round < DaySlots
       /\ (n + 1 + 1) * Round = (n + 1) * Round + Round
<1>1. Round \in Nat \ {0} /\ (MaxRetries + 1) * Round < DaySlots
  BY LifecycleAssumption DEF Round
<1> HIDE DEF Round
<1>2. ASSUME NEW n \in 0..MaxRetries
      PROVE  /\ (n + 1) * Round \in Nat
             /\ (n + 1) * Round < DaySlots
             /\ (n + 1 + 1) * Round = (n + 1) * Round + Round
  <2>1. PICK k \in Nat : MaxRetries = n + k
    <3>1. MaxRetries - n \in Nat /\ MaxRetries = n + (MaxRetries - n)
      BY <1>2, LifecycleAssumption
    <3> QED
      BY <3>1
  <2>2. n \in Nat
    BY LifecycleAssumption
  <2>3. (MaxRetries + 1) * Round = (n + 1) * Round + k * Round
    BY <1>1, <2>1, <2>2
  <2>4. k * Round \in Nat /\ (n + 1) * Round \in Nat
    BY <1>1, <2>1, <2>2
  <2>5. (n + 1 + 1) * Round = (n + 1) * Round + Round
    BY <1>1, <2>2
  <2> QED
    BY <1>1, <2>3, <2>4, <2>5, LifecycleAssumption
<1> QED
  BY <1>1, <1>2

(* The timetable begins when the schedule fires.                            *)
LEMMA PrefetchFires ==
  ASSUME TypeOK, FirePrefetch
  PROVE  PrefetchInv'
<1>1. /\ job'["prefetch"] = [at |-> "asking", left |-> AttemptTime, attempt |-> 0]
      /\ fired' /\ slot' = PrefetchAt
  BY DEF FirePrefetch, Attempt, TypeOK, Jobs
<1>2. Elapsed' = 0
  BY <1>1, LifecycleAssumption DEF Elapsed
<1>3. Elapsed' + Ahead("asking", AttemptTime) = Round
  BY <1>2, LifecycleAssumption DEF Ahead, Round
<1>4. (0 + 1) * Round = Round /\ Round \in Nat
  BY RoundsFit
<1> QED
  BY <1>1, <1>3, <1>4, LifecycleAssumption DEF PrefetchInv

(* An attempt after a pause begins its round in time.                       *)
LEMMA PrefetchRetries ==
  ASSUME TypeOK, PrefetchInv, Retry("prefetch")
  PROVE  PrefetchInv'
<1> DEFINE n == job["prefetch"].attempt
<1>1. n \in 0..MaxRetries /\ n < MaxRetries /\ (Elapsed = 0 => fired)
      /\ Elapsed + 0 <= (n + 1) * Round
  BY DEF PrefetchInv, Retry, Ahead
<1>2. job'["prefetch"] = [at |-> "asking", left |-> AttemptTime, attempt |-> n + 1]
  BY DEF Retry, Attempt, TypeOK, Jobs
<1>3. Elapsed' = Elapsed /\ fired' = fired /\ Elapsed \in Int
  BY LifecycleAssumption DEF Retry, Attempt, Elapsed, TypeOK
<1> HIDE DEF n
<1>4. n + 1 \in 0..MaxRetries
  BY <1>1, LifecycleAssumption
<1>5. Elapsed' + Ahead("asking", AttemptTime) <= (n + 1 + 1) * Round
  <2>1. Ahead("asking", AttemptTime) = Round
    BY DEF Ahead, Round
  <2> QED
    BY <1>1, <1>3, <2>1, RoundsFit
<1> QED
  BY <1>1, <1>2, <1>3, <1>4, <1>5 DEF PrefetchInv

(* An attempt that fails leaves its whole pause to come, or is the last.    *)
LEMMA PrefetchPauses ==
  ASSUME TypeOK, PrefetchInv, AttemptEnds("prefetch")
  PROVE  PrefetchInv'
<1> DEFINE n == job["prefetch"].attempt
           l == job["prefetch"].left
<1>1. /\ n \in 0..MaxRetries /\ (Elapsed = 0 => fired)
      /\ Elapsed + (l + RetryPause) <= (n + 1) * Round
  BY DEF PrefetchInv, AttemptEnds, Ahead
<1>2. Elapsed' = Elapsed /\ fired' = fired /\ Elapsed \in Int /\ l \in Nat
  BY LifecycleAssumption DEF AttemptEnds, Elapsed, TypeOK, dayVars, Jobs
<1>3. CASE job' = [job EXCEPT !["prefetch"] = Idle]
  BY <1>3 DEF PrefetchInv, Idle, TypeOK, Jobs
<1>4. CASE /\ n < MaxRetries
           /\ job' = [job EXCEPT !["prefetch"].at = "pausing", !["prefetch"].left = RetryPause]
  <2>1. /\ job'["prefetch"].at = "pausing" /\ job'["prefetch"].left = RetryPause
        /\ job'["prefetch"].attempt = n
    BY <1>4 DEF TypeOK, Jobs
  <2> HIDE DEF n, l
  <2>2. Elapsed' + Ahead("pausing", RetryPause) <= (n + 1) * Round
    <3>1. Ahead("pausing", RetryPause) = RetryPause
      BY DEF Ahead
    <3> QED
      BY <1>1, <1>2, <3>1, RoundsFit, LifecycleAssumption
  <2> QED
    BY <1>1, <1>2, <1>4, <2>1, <2>2 DEF PrefetchInv
<1> QED
  BY <1>3, <1>4 DEF AttemptEnds, Retries

(* A tick takes from what is ahead what it adds to what is behind, and the  *)
(* rounds are over before the schedule is due again.                       *)
LEMMA PrefetchTicks ==
  ASSUME TypeOK, PrefetchInv, Tick
  PROVE  PrefetchInv'
<1> DEFINE n  == job["prefetch"].attempt
           at == job["prefetch"].at
           l  == job["prefetch"].left
<1>1. /\ job'["prefetch"].at = at /\ job'["prefetch"].attempt = n
      /\ job'["prefetch"].left = OneLess(l)
      /\ l \in Nat
  BY DEF Tick, TypeOK, Jobs
<1>2. SUFFICES ASSUME at # "idle"
               PROVE  PrefetchInv'
  BY <1>1 DEF PrefetchInv
<1>3. l > 0 /\ OneLess(l) = l - 1
  <2>1. l # 0
    BY <1>2 DEF Tick, Due, Running, Jobs
  <2> QED
    BY <1>1, <2>1 DEF OneLess
<1>4. /\ n \in 0..MaxRetries /\ Elapsed + Ahead(at, l) <= (n + 1) * Round
      /\ at = "pausing" => n < MaxRetries
  BY <1>2 DEF PrefetchInv
<1> HIDE DEF n, at, l
<1>5. Elapsed \in Nat
  BY LifecycleAssumption DEF Elapsed, TypeOK
<1>6. Ahead(at, OneLess(l)) = Ahead(at, l) - 1 /\ Ahead(at, l) \in Nat \ {0}
  BY <1>1, <1>3, LifecycleAssumption DEF Ahead
<1>7. Elapsed + 1 < DaySlots
  BY <1>4, <1>5, <1>6, RoundsFit, LifecycleAssumption
<1>8. Elapsed' = Elapsed + 1
  BY <1>7, LifecycleAssumption DEF Elapsed, TypeOK, Tick
<1>9. Elapsed' + Ahead(at, OneLess(l)) <= (n + 1) * Round /\ Elapsed' # 0
  BY <1>4, <1>5, <1>6, <1>8, RoundsFit
<1> QED
  BY <1>1, <1>4, <1>9 DEF PrefetchInv

(* Every step keeps the daily prefetch to its timetable.                    *)
LEMMA PrefetchStep == TypeOK /\ PrefetchInv /\ [Next]_vars => PrefetchInv'
<1> SUFFICES ASSUME TypeOK, PrefetchInv, [Next]_vars
             PROVE  PrefetchInv'
  OBVIOUS
<1>1. ASSUME job'["prefetch"].at = "idle"
      PROVE  PrefetchInv'
  BY <1>1 DEF PrefetchInv
<1>2. ASSUME slot' = slot, fired' = fired, job'["prefetch"] = job["prefetch"]
      PROVE  PrefetchInv'
  BY <1>2 DEF PrefetchInv, Elapsed
<1>3. CASE NewApp
  BY <1>1, <1>3 DEF NewApp, StartupJobs, Idle, Jobs
<1>4. CASE NewAppFails \/ ListenAndServeFails \/ ShutdownEnds \/ Kill
  BY <1>1, <1>4
     DEF NewAppFails, ListenAndServeFails, ShutdownEnds, ShutdownSucceeds, ShutdownFails, Kill,
         Exit, Idle, Jobs
<1>5. CASE Listen \/ Notify \/ Terminate \/ Restart \/ UNCHANGED vars
  BY <1>2, <1>5 DEF Listen, Notify, Terminate, Restart, vars, dayVars
<1>6. CASE JobStep
  <2>1. CASE FirePrefetch
    BY <2>1, PrefetchFires
  <2>2. CASE Retry("prefetch")
    BY <2>2, PrefetchRetries
  <2>3. CASE AttemptEnds("prefetch")
    BY <2>3, PrefetchPauses
  <2>4. CASE Retry("startup") \/ AttemptEnds("startup")
    BY <1>2, <2>4 DEF Retry, Attempt, AttemptEnds, TypeOK, Jobs, dayVars
  <2> QED
    BY <1>6, <2>1, <2>2, <2>3, <2>4 DEF JobStep, Jobs
<1>7. CASE Tick
  BY <1>7, PrefetchTicks
<1>8. ASSUME NEW h \in Handlers, Accept(h) \/ Answer(h)
      PROVE  PrefetchInv'
  BY <1>2, <1>8 DEF Accept, Answer, dayVars
<1> QED
  BY <1>3, <1>4, <1>5, <1>6, <1>7, <1>8 DEF Next

(* PrefetchesDoNotOverlap: for every schedule whose attempts and pauses fit *)
(* in a day, with any number of retries and at any time of the day.        *)
THEOREM SpecPrefetchesDoNotOverlap == Spec => []PrefetchesDoNotOverlap
<1>1. Init => PrefetchInv
  BY DEF Init, PrefetchInv, Idle, Jobs
<1>2. TypeOK /\ PrefetchInv => PrefetchesDoNotOverlap
  <2>1. slot = PrefetchAt => Elapsed = 0
    BY LifecycleAssumption DEF Elapsed
  <2> QED
    BY <2>1 DEF PrefetchInv, PrefetchesDoNotOverlap
<1> QED
  BY <1>1, <1>2, SpecTypeOK, PrefetchStep, PTL DEF Spec

-----------------------------------------------------------------------------
(* The listener is open only where it was opened, and the deadline of       *)
(* Shutdown is running only while main waits in it.                        *)
ListenerInv ==
  /\ listening => main \in {"launching", "serving"}
  /\ main = "draining" => left <= ShutdownTime

(* Every step keeps the listener and the deadline where they belong.        *)
LEMMA ListenerStep == TypeOK /\ ListenerInv /\ [Next]_vars => ListenerInv'
<1> SUFFICES ASSUME TypeOK, ListenerInv, [Next]_vars
             PROVE  ListenerInv'
  OBVIOUS
<1>1. CASE NewAppFails \/ ListenAndServeFails \/ ShutdownEnds \/ Kill
  BY <1>1
     DEF NewAppFails, ListenAndServeFails, ShutdownEnds, ShutdownSucceeds, ShutdownFails, Kill,
         Exit, ListenerInv
<1>2. CASE NewApp \/ Listen \/ Notify \/ Terminate \/ Restart
  BY <1>2, LifecycleAssumption DEF NewApp, Listen, Notify, Terminate, Restart, Down, ListenerInv
<1>3. CASE Tick
  <2>1. left' \in Nat /\ left' <= left
    BY <1>3 DEF Tick, OneLess, TypeOK
  <2> QED
    BY <1>3, <2>1, LifecycleAssumption DEF Tick, TypeOK, ListenerInv
<1>4. ASSUME UNCHANGED <<main, listening, left>>
      PROVE  ListenerInv'
  BY <1>4 DEF ListenerInv
<1>5. ASSUME \/ JobStep \/ UNCHANGED vars
             \/ \E h \in Handlers : Accept(h) \/ Answer(h)
      PROVE  UNCHANGED <<main, listening, left>>
  BY <1>5 DEF JobStep, FirePrefetch, Retry, Attempt, AttemptEnds, Accept, Answer, vars
<1> QED
  BY <1>1, <1>2, <1>3, <1>4, <1>5 DEF Next

(* The listener is closed from the signal on: while main waits in Shutdown  *)
(* no request is added to those it waits for, and every slot that passes   *)
(* is taken off the deadline, which was ShutdownTime.  With the deadline   *)
(* over, ShutdownFails may end the process: the safety half of             *)
(* SignalEndsProcess.                                                      *)
DrainingEnds ==
  [][main = "draining" /\ main' = "draining" =>
       busy' \subseteq busy /\ left' <= left /\ (slot' # slot => left' < left)]_vars

(* DrainingEnds, for the model of Server.Run with any deadline.             *)
THEOREM SpecDrainingEnds == Spec => DrainingEnds /\ [](main = "draining" => left <= ShutdownTime)
<1>1. TypeOK /\ ListenerInv /\ [Next]_vars =>
        [main = "draining" /\ main' = "draining" =>
           busy' \subseteq busy /\ left' <= left /\ (slot' # slot => left' < left)]_vars
  <2> SUFFICES ASSUME TypeOK, ListenerInv, Next, main = "draining", main' = "draining"
               PROVE  busy' \subseteq busy /\ left' <= left /\ (slot' # slot => left' < left)
    OBVIOUS
  <2>1. ~(NewApp \/ NewAppFails \/ Listen \/ Notify \/ ListenAndServeFails \/ Terminate
            \/ ShutdownEnds \/ Kill \/ Restart)
    BY DEF NewApp, NewAppFails, Listen, Notify, ListenAndServeFails, Terminate, ShutdownEnds,
       ShutdownSucceeds, ShutdownFails, Kill, Exit, Restart, Down
  <2>2. ASSUME NEW h \in Handlers
        PROVE  ~Accept(h)
    BY DEF Accept, ListenerInv
  <2>3. CASE Tick
    <3>1. left # 0 /\ left \in Nat
      BY <2>3 DEF Tick, Due, TypeOK
    <3> QED
      BY <2>3, <3>1 DEF Tick, OneLess
  <2>4. CASE JobStep
    <3>1. UNCHANGED <<slot, left, busy>>
      BY <2>4 DEF JobStep, FirePrefetch, Retry, Attempt, AttemptEnds
    <3> QED
      BY <3>1 DEF TypeOK
  <2>5. ASSUME NEW h \in Handlers, Answer(h)
        PROVE  busy' \subseteq busy /\ left' <= left /\ (slot' # slot => left' < left)
    BY <2>5 DEF Answer, TypeOK
  <2> QED
    BY <2>1, <2>2, <2>3, <2>4, <2>5 DEF Next
<1>2. Init => ListenerInv
  BY DEF Init, ListenerInv
<1>3. ListenerInv => (main = "draining" => left <= ShutdownTime)
  BY DEF ListenerInv
<1> QED
  BY <1>1, <1>2, <1>3, SpecTypeOK, ListenerStep, PTL DEF Spec, DrainingEnds
=============================================================================
