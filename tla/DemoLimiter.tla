----------------------------- MODULE DemoLimiter -----------------------------
(***************************************************************************)
(* cron.DemoIPLimiter and the middleware that charges it.                  *)
(*                                                                         *)
(* A request without a key is charged to its IP before it is handled and   *)
(* refunded afterwards unless it is answered 200.  The limiter keeps, for  *)
(* each IP, a count and the beginning of its window.  Allow, Rollback and  *)
(* the hourly cleanup read the clock first and take the mutex later, so    *)
(* each is two steps here; what they do under the mutex is one step.       *)
(*                                                                         *)
(* A refund names an IP, not a window: the refund of a request that was    *)
(* charged to a window that has ended since is taken off the next one.     *)
(***************************************************************************)
EXTENDS Integers, FiniteSets

CONSTANTS Requests,  \* requests without a key that get past the other middleware
          Ips,       \* client addresses, as RealIP gives them
          Limit,     \* DEMO_KEY_LIMIT_PER_24H
          Window,    \* the 24 h window, in ticks of the clock
          PurgeAt,   \* Allow purges when there are more records than this: 1024
          Lag,       \* bound: a request goes on within Lag ticks of reading the clock
          LastTick,  \* bound: the clock stops here
          None

ASSUME LimiterAssumption ==
  /\ IsFiniteSet(Requests)
  /\ Limit \in Nat \ {0} /\ Window \in Nat \ {0}
  /\ PurgeAt \in Nat /\ Lag \in Nat /\ LastTick \in Nat
  /\ None \notin Ips /\ None \notin [count : Nat, bgn : Nat]
  /\ None \notin [held : SUBSET Requests, late : Nat, bgn : Nat]

VARIABLES
  clock,
  records,   \* IP -> [count, bgn] or None
  pc,        \* where each request is
  ip,        \* the IP of each request
  now,       \* the clock as each request last read it
  sweep,     \* the clock as the cleanup read it, None between sweeps
  window,    \* history: how many windows an IP has begun
  charged,   \* history: the window each request was charged to
  crossed    \* history: the window a refund was taken off though it was
             \* charged to an earlier one

requestVars == <<pc, ip, now>>
historyVars == <<window, charged, crossed>>
vars == <<clock, records, requestVars, sweep, historyVars>>

Record == [count : 1..Limit, bgn : 0..LastTick]

Init ==
  /\ clock = 0
  /\ records = [i \in Ips |-> None]
  /\ pc = [r \in Requests |-> "idle"]
  /\ ip = [r \in Requests |-> None]
  /\ now = [r \in Requests |-> 0]
  /\ sweep = None
  /\ window = [i \in Ips |-> 0]
  /\ charged = [r \in Requests |-> 0]
  /\ crossed = [r \in Requests |-> 0]

Goto(r, label) == pc' = [pc EXCEPT ![r] = label]

Over(rec, time) == time - rec.bgn >= Window

Known == {i \in Ips : records[i] # None}

(* Cleanup and the purge drop the records whose window is over.             *)
\* Mutated form: a window counts as over a tick before its end.
SweptATickEarly(time) ==
  [i \in Ips |-> IF i \in Known /\ Over(records[i], time + 1) THEN None ELSE records[i]]

Swept(time) ==
  [i \in Ips |-> IF i \in Known /\ Over(records[i], time) THEN None ELSE records[i]]

-----------------------------------------------------------------------------
\* DemoIPLimiter.Allow reads the clock ...
Arrive(r) ==
  /\ pc[r] = "idle"
  /\ \E i \in Ips : ip' = [ip EXCEPT ![r] = i]
  /\ now' = [now EXCEPT ![r] = clock]
  /\ Goto(r, "allow")
  /\ UNCHANGED <<clock, records, sweep, historyVars>>

(* ... and under the mutex purges a table that has grown large, and then    *)
(* begins a window, counts the request in the current one or denies it.    *)
BeginWindow(r, i, table) ==
  /\ records' = [table EXCEPT ![i] = [count |-> 1, bgn |-> now[r]]]
  /\ window' = [window EXCEPT ![i] = @ + 1]
  /\ charged' = [charged EXCEPT ![r] = window[i] + 1]
  /\ Goto(r, "handling")

\* Mutated form: the request is let through at the limit, and one above it.
CountOneTooMany(r, i, table) ==
  /\ table[i].count <= Limit
  /\ records' = [table EXCEPT ![i].count = @ + 1]
  /\ charged' = [charged EXCEPT ![r] = window[i]]
  /\ Goto(r, "handling")
  /\ UNCHANGED window

CountRequest(r, i, table) ==
  /\ table[i].count < Limit
  /\ records' = [table EXCEPT ![i].count = @ + 1]
  /\ charged' = [charged EXCEPT ![r] = window[i]]
  /\ Goto(r, "handling")
  /\ UNCHANGED window

\* Mutated form: a denied request is counted down like a failed one.
DenyFromOneBelow(r, i, table) ==
  /\ table[i].count >= Limit - 1
  /\ records' = table
  /\ Goto(r, "denied")
  /\ UNCHANGED <<window, charged>>

Deny(r, i, table) ==
  /\ table[i].count >= Limit
  /\ records' = table
  /\ Goto(r, "denied")
  /\ UNCHANGED <<window, charged>>

Allow(r) ==
  /\ pc[r] = "allow"
  /\ LET table == IF Cardinality(Known) > PurgeAt THEN Swept(now[r]) ELSE records
         i == ip[r]
     IN  IF table[i] = None THEN BeginWindow(r, i, table)
         ELSE IF Over(table[i], now[r]) THEN BeginWindow(r, i, table)
         ELSE CountRequest(r, i, table) \/ Deny(r, i, table)
  /\ UNCHANGED <<clock, ip, now, sweep, crossed>>

\* The handler answers 200: the request keeps its charge.
Succeed(r) ==
  /\ pc[r] = "handling"
  /\ Goto(r, "ok")
  /\ UNCHANGED <<clock, records, ip, now, sweep, historyVars>>

\* The handler panics: the refund after c.Next is not reached.
Panic(r) ==
  /\ pc[r] = "handling"
  /\ Goto(r, "panicked")
  /\ UNCHANGED <<clock, records, ip, now, sweep, historyVars>>

\* The handler answers anything else: Rollback reads the clock ...
Fail(r) ==
  /\ pc[r] = "handling"
  /\ now' = [now EXCEPT ![r] = clock]
  /\ Goto(r, "refund")
  /\ UNCHANGED <<clock, records, ip, sweep, historyVars>>

(* ... and under the mutex takes one off the IP's record, if there is one.  *)
\* Mutated form: the record counted down is a copy that is not written back.
TakeOneOffCopy(i) ==
  IF records[i].count <= 1 THEN [records EXCEPT ![i] = None] ELSE records

\* Mutated form: the last charge leaves a record that counts nothing.
TakeOneOffToZero(i) ==
  IF records[i].count < 1 THEN [records EXCEPT ![i] = None]
  ELSE [records EXCEPT ![i].count = @ - 1]

TakeOneOff(i) ==
  IF records[i].count <= 1 THEN [records EXCEPT ![i] = None]
  ELSE [records EXCEPT ![i].count = @ - 1]

Rollback(r) ==
  /\ pc[r] = "refund"
  /\ Goto(r, "refunded")
  /\ LET i == ip[r]
     IN  \/ /\ records[i] = None
            /\ UNCHANGED <<records, crossed>>
         \/ /\ records[i] # None
            /\ Over(records[i], now[r])
            /\ records' = [records EXCEPT ![i] = None]
            /\ UNCHANGED crossed
         \/ /\ records[i] # None
            /\ ~Over(records[i], now[r])
            /\ records' = TakeOneOff(i)
            /\ crossed' = IF charged[r] = window[i] THEN crossed
                          ELSE [crossed EXCEPT ![r] = window[i]]
  /\ UNCHANGED <<clock, ip, now, sweep, window, charged>>

-----------------------------------------------------------------------------
\* The hourly cleanup reads the clock ...
StartSweep ==
  /\ sweep = None
  /\ sweep' = clock
  /\ UNCHANGED <<clock, records, requestVars, historyVars>>

\* ... and sweeps the table under the mutex.
Sweep ==
  /\ sweep # None
  /\ records' = Swept(sweep)
  /\ sweep' = None
  /\ UNCHANGED <<clock, requestVars, historyVars>>

\* Requests are short: each of their two halves, up to the refund and up to the
\* mutex, takes Lag ticks at most (the upstreams together have 18 s).
Tick ==
  /\ clock < LastTick
  /\ \A r \in Requests :
       pc[r] \in {"allow", "handling", "refund"} => clock < now[r] + Lag
  /\ clock' = clock + 1
  /\ UNCHANGED <<records, requestVars, sweep, historyVars>>

Next ==
  \/ \E r \in Requests : Arrive(r) \/ Allow(r) \/ Succeed(r) \/ Panic(r) \/ Fail(r)
                           \/ Rollback(r)
  \/ StartSweep \/ Sweep \/ Tick

Spec == Init /\ [][Next]_vars

-----------------------------------------------------------------------------
(* Types; a record that exists counts at least one request and at most the  *)
(* limit.                                                                  *)
TypeOK ==
  /\ clock \in 0..LastTick
  /\ records \in [Ips -> Record \cup {None}]
  /\ pc \in [Requests -> {"idle", "allow", "handling", "refund", "ok", "denied",
                          "panicked", "refunded"}]
  /\ ip \in [Requests -> Ips \cup {None}]
  /\ now \in [Requests -> 0..LastTick]
  /\ sweep \in 0..LastTick \cup {None}
  /\ window \in [Ips -> Nat]
  /\ charged \in [Requests -> Nat]
  /\ crossed \in [Requests -> Nat]

\* The requests that were charged to window w of IP i and not refunded.
Holders(i, w) ==
  {r \in Requests : /\ ip[r] = i /\ charged[r] = w
                    /\ pc[r] \in {"handling", "refund", "ok", "panicked"}}

\* The refunds of earlier windows that were taken off window w.
Crossings(i, w) == {r \in Requests : ip[r] = i /\ crossed[r] = w}

(* However arrivals, refunds and sweeps interleave, no charge is lost and   *)
(* none is kept that was refunded: the count of the current window is the  *)
(* number of its requests that hold a charge, less the refunds that came   *)
(* too late for the window before.                                         *)
ChargesAccounted ==
  \A i \in Known :
    records[i].count =
      Cardinality(Holders(i, window[i])) - Cardinality(Crossings(i, window[i]))

(* In one window at most Limit requests are answered 200, plus one for each *)
(* refund of an earlier window that was taken off this one.                *)
ServedWithinLimit ==
  \A i \in Ips : \A w \in 1..window[i] :
    Cardinality({r \in Holders(i, w) : pc[r] = "ok"})
      <= Limit + Cardinality(Crossings(i, w))

(* A request is denied only while Limit requests of the window hold charges.*)
DeniedOnlyWhenSpent ==
  [][\A r \in Requests :
       pc[r] = "allow" /\ pc'[r] = "denied" =>
         Cardinality(Holders(ip[r], window[ip[r]])) >= Limit]_vars

(* A window that is not over is neither forgotten nor begun anew, by the    *)
(* cleanup, by the purge or by an arrival, but only by a refund.           *)
LiveWindowKept ==
  [][\A i \in Known :
       \/ Over(records[i], clock)
       \/ records'[i] # None /\ records'[i].bgn = records[i].bgn
       \/ \E r \in Requests : ip[r] = i /\ pc[r] = "refund" /\ pc'[r] = "refunded"]_vars

\* What a counter stands for: the requests on the page of its window.
Page(i) ==
  IF records[i] = None THEN None
  ELSE [held |-> Holders(i, window[i]), late |-> Cardinality(Crossings(i, window[i])),
        bgn |-> records[i].bgn]

Accounts == INSTANCE Ledger WITH book <- [i \in Ips |-> Page(i)]

(* The counters do what a ledger of names would: with nothing but a number  *)
(* for an address, and whatever purge and cleanup throw away meanwhile, who *)
(* is let in or denied, and whose charge a refund takes back, is what it    *)
(* would be if every charge were written down.                             *)
ImplementsLedger == Accounts!Spec

(* What README.md says of DEMO_KEY_LIMIT_PER_24H: the number of answers 200 *)
(* to an IP in one window is at most Limit.                                *)
AtMostLimitPer24h ==
  \A i \in Ips : \A w \in 1..window[i] :
    Cardinality({r \in Holders(i, w) : pc[r] = "ok"}) <= Limit
=============================================================================
