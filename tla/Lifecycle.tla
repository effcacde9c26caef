------------------------------ MODULE Lifecycle ------------------------------
(***************************************************************************)
(* The process from NewApp, which starts the prefetch jobs, through        *)
(* Server.Run to its exit, and its restarts.                               *)
(*                                                                         *)
(* Time is the slot of the day in New York, which goes round, and          *)
(* countdowns.  It waits for what is due: timers are prompt compared with  *)
(* a slot.  An attempt of a prefetch is a call of GetAPOD with a deadline. *)
(***************************************************************************)
EXTENDS Integers

CONSTANTS Handlers,      \* requests that may be handled at the same time
          DaySlots,      \* slots in a day
          PrefetchAt,    \* the slot of the daily prefetch: 00:30
          StartupDelay,  \* before the prefetch at start-up: 3 s
          MaxRetries,    \* of the daily prefetch: 3
          RetryPause,    \* between attempts: 5 min
          AttemptTime,   \* deadline of an attempt: 20 s
          ShutdownTime   \* deadline of Shutdown: 10 s

\* A daily prefetch is over before the next.
ASSUME LifecycleAssumption ==
  /\ DaySlots \in Nat /\ PrefetchAt \in 0..DaySlots - 1
  /\ MaxRetries \in Nat /\ RetryPause \in Nat \ {0} /\ StartupDelay \in Nat \ {0}
  /\ AttemptTime \in Nat \ {0} /\ ShutdownTime \in Nat \ {0}
  /\ (MaxRetries + 1) * (AttemptTime + RetryPause) < DaySlots

VARIABLES
  slot,       \* of the day
  main,       \* where main is; once the process has exited, how it did
  listening,  \* the listener of the HTTP server is open
  left,       \* of the deadline of Shutdown
  busy,       \* requests that are being handled
  job,        \* job -> [at, left, attempt]
  fired,      \* the daily prefetch has had its turn today
  tried,      \* history: GetAPOD was called today for today's date
  begun,      \* history: the process was started today
  cut         \* history: what the last exit cut off

dayVars == <<fired, tried, begun>>
vars == <<slot, main, listening, left, busy, job, dayVars, cut>>

Jobs == {"startup", "prefetch"}
Idle == [at |-> "idle", left |-> 0, attempt |-> 0]
Running == {j \in Jobs : job[j].at # "idle"}
Down == main \in {"returned", "fatal", "killed"}
Up == main \in {"launching", "serving", "draining"}

Init ==
  /\ slot \in 0..DaySlots - 1 /\ main = "starting"
  /\ listening = FALSE /\ left = 0 /\ busy = {} /\ job = [j \in Jobs |-> Idle]
  /\ fired = FALSE /\ tried = FALSE /\ begun = FALSE /\ cut = {}

-----------------------------------------------------------------------------
\* main returns, or somebody calls os.Exit: what is running is cut off.
Exit(how) ==
  /\ main' = how
  /\ cut' = busy \cup Running
  /\ busy' = {} /\ job' = [j \in Jobs |-> Idle] /\ listening' = FALSE /\ left' = 0
  /\ UNCHANGED <<slot, dayVars>>

\* Mutated form: the date of today is asked for when the schedule says so.
StartNothing == [j \in Jobs |-> Idle]

\* The prefetch at start-up begins with a pause and is not tried again.
StartupJobs == [j \in Jobs |-> IF j = "startup" THEN [at |-> "pausing", left |-> StartupDelay,
                                                     attempt |-> -1] ELSE Idle]

(* NewApp starts the schedule, for which the slot it is started in may or   *)
(* may not have passed, and the goroutine of the prefetch at start-up.      *)
NewApp ==
  /\ main = "starting"
  /\ main' = "launching"
  /\ job' = StartupJobs
  /\ \/ fired' = (slot >= PrefetchAt)
     \/ fired' = (slot > PrefetchAt)
  /\ begun' = TRUE
  /\ UNCHANGED <<slot, listening, left, busy, tried, cut>>

\* The configuration is refused.
NewAppFails == main = "starting" /\ Exit("fatal")

\* The goroutine of Run binds the address; main asks for signals.
Listen ==
  /\ main \in {"launching", "serving"} /\ ~listening
  /\ listening' = TRUE
  /\ UNCHANGED <<slot, main, left, busy, job, dayVars, cut>>

Notify ==
  /\ main = "launching"
  /\ main' = "serving"
  /\ UNCHANGED <<slot, listening, left, busy, job, dayVars, cut>>

\* Mutated form: ErrServerClosed, which Shutdown causes, is an error like any other.
FailOnAnyError == main \in {"launching", "serving", "draining"} /\ Exit("fatal")

\* ListenAndServe fails, before or after it listens, and the goroutine exits.
ListenAndServeFails == main \in {"launching", "serving"} /\ Exit("fatal")

Accept(h) ==
  /\ listening /\ h \notin busy
  /\ busy' = busy \cup {h}
  /\ UNCHANGED <<slot, main, listening, left, job, dayVars, cut>>

Answer(h) ==
  /\ h \in busy
  /\ busy' = busy \ {h}
  /\ UNCHANGED <<slot, main, listening, left, job, dayVars, cut>>

\* A signal that main has asked for: Shutdown closes the listener.
Terminate ==
  /\ main = "serving"
  /\ main' = "draining" /\ listening' = FALSE /\ left' = ShutdownTime
  /\ UNCHANGED <<slot, busy, job, dayVars, cut>>

(* All requests are answered: Run returns, the deferred cronStop stops the   *)
(* schedule and waits for no job, and main returns.                        *)
ShutdownSucceeds == main = "draining" /\ busy = {} /\ Exit("returned")

\* Mutated form: the context of Shutdown has no deadline.
WaitForEver == main = "draining" /\ left = 0 /\ busy = {} /\ Exit("fatal")

\* Not in time: Run returns the error, and logger.Fatal exits at once.
ShutdownFails == main = "draining" /\ left = 0 /\ Exit("fatal")

\* A signal main has not asked for yet, or one that cannot be caught.
Kill == ~Down /\ Exit("killed")

Restart ==
  /\ Down
  /\ main' = "starting"
  /\ UNCHANGED <<slot, listening, left, busy, job, dayVars, cut>>

-----------------------------------------------------------------------------
(* prefetchWithRetry: every attempt asks for the date of its day.           *)
Attempt(j, n) ==
  /\ job' = [job EXCEPT ![j] = [at |-> "asking", left |-> AttemptTime, attempt |-> n]]
  /\ tried' = TRUE
  /\ UNCHANGED <<slot, main, listening, left, busy, begun, cut>>

FirePrefetch ==
  /\ Up /\ slot = PrefetchAt /\ ~fired
  /\ fired' = TRUE
  /\ Attempt("prefetch", 0)

\* Mutated form: the attempts are not counted.
RetryAgain(j) ==
  /\ job[j].at = "pausing" /\ job[j].left = 0
  /\ Attempt(j, job[j].attempt)
  /\ UNCHANGED fired

Retry(j) ==
  /\ job[j].at = "pausing" /\ job[j].left = 0
  /\ Attempt(j, job[j].attempt + 1)
  /\ UNCHANGED fired

Retries(j) == IF j = "prefetch" THEN MaxRetries ELSE 0

AttemptEnds(j) ==
  /\ job[j].at = "asking"
  /\ \/ job' = [job EXCEPT ![j] = Idle]
     \/ /\ job[j].attempt < Retries(j)
        /\ job' = [job EXCEPT ![j].at = "pausing", ![j].left = RetryPause]
  /\ UNCHANGED <<slot, main, listening, left, busy, dayVars, cut>>

JobStep == FirePrefetch \/ \E j \in Jobs : Retry(j) \/ AttemptEnds(j)

Due ==
  \/ \E j \in Running : job[j].left = 0
  \/ Up /\ slot = PrefetchAt /\ ~fired
  \/ main = "draining" /\ left = 0

OneLess(n) == IF n > 0 THEN n - 1 ELSE 0

Tick ==
  /\ ~Due
  /\ left' = OneLess(left)
  /\ job' = [j \in Jobs |-> [job[j] EXCEPT !.left = OneLess(@)]]
  /\ \/ /\ slot + 1 < DaySlots
        /\ slot' = slot + 1
        /\ UNCHANGED dayVars
     \/ /\ slot + 1 = DaySlots
        /\ slot' = 0 /\ fired' = FALSE /\ tried' = FALSE /\ begun' = FALSE
  /\ UNCHANGED <<main, listening, busy, cut>>

ShutdownEnds == ShutdownSucceeds \/ ShutdownFails

Next ==
  \/ NewApp \/ NewAppFails \/ Listen \/ Notify \/ ListenAndServeFails \/ Terminate \/ ShutdownEnds
  \/ Kill \/ Restart \/ JobStep \/ Tick
  \/ \E h \in Handlers : Accept(h) \/ Answer(h)

Spec == Init /\ [][Next]_vars

(* Goroutines that can go on do, and time passes.  Nothing obliges a        *)
(* handler to end: its client may read slowly, and the server has no       *)
(* timeout of its own.                                                     *)
FairSpec == Spec /\ WF_vars(ShutdownEnds) /\ WF_vars(JobStep) /\ WF_vars(Tick)

-----------------------------------------------------------------------------
TypeOK ==
  /\ slot \in 0..DaySlots - 1
  /\ main \in {"starting", "launching", "serving", "draining", "returned", "fatal", "killed"}
  /\ listening \in BOOLEAN /\ left \in Nat /\ busy \subseteq Handlers
  /\ job \in [Jobs -> [at : {"idle", "pausing", "asking"}, left : Nat, attempt : Nat \cup {-1}]]
  /\ fired \in BOOLEAN /\ tried \in BOOLEAN /\ begun \in BOOLEAN
  /\ cut \subseteq Handlers \cup Jobs

(* Whenever the process is started and however often it is restarted, today's *)
(* record is asked for on the day: by the prefetch at start-up once its     *)
(* pause is over, or by the daily one on a day the process has lived to.    *)
DayTried ==
  Up /\ job["startup"].attempt # -1 /\ (begun \/ slot > PrefetchAt) => tried

(* When the schedule fires the prefetch of the day before is over, with all *)
(* its retries, although midnight, a signal or a restart may have come in   *)
(* between: the schedule itself would start a second one beside it.        *)
PrefetchesDoNotOverlap ==
  slot = PrefetchAt /\ ~fired => job["prefetch"].at = "idle"

(* From the signal on the program ends with a request unanswered only when  *)
(* Shutdown's deadline has passed.                                         *)
GracefulToRequests ==
  [][main = "draining" /\ main' \in {"returned", "fatal"} /\ busy # {} => left = 0]_vars

(* The process exits after a signal, even when a request is never answered. *)
SignalEndsProcess == main = "draining" ~> Down

(* What README.md says of the shutdown: the scheduled jobs exit smoothly    *)
(* too.  When main returns, the daily prefetch is not cut off.             *)
JobsExitSmoothly == main = "returned" => "prefetch" \notin cut
=============================================================================
