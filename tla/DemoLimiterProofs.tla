-------------------------- MODULE DemoLimiterProofs --------------------------
(* Proofs about DemoLimiter, for any number of requests, addresses and any  *)
(* limit and window.  Cardinalities come from FiniteSetTheorems.           *)
EXTENDS DemoLimiter, FiniteSetTheorems, TLAPS

(* What each request has been charged and refunded, and when it read the    *)
(* clock.                                                                  *)
RequestOK(r) ==
  /\ pc[r] # "idle" => ip[r] \in Ips
  /\ pc[r] \in {"idle", "allow"} => charged[r] = 0
  /\ pc[r] # "refunded" => crossed[r] = 0
  /\ now[r] <= clock
  /\ ip[r] \in Ips => charged[r] <= window[ip[r]] /\ crossed[r] <= window[ip[r]]

RequestsInv == \A r \in Requests : RequestOK(r)

(* A record belongs to a window that was begun.                             *)
RecordsInv ==
  /\ \A i \in Known : window[i] >= 1
  /\ sweep # None => sweep <= clock

(* The bound on a window counts every charge, not only the answers 200.     *)
WindowsInv ==
  \A i \in Ips : \A w \in 1..window[i] :
    Cardinality(Holders(i, w)) <= Limit + Cardinality(Crossings(i, w))

IndInv == TypeOK /\ RequestsInv /\ RecordsInv /\ ChargesAccounted /\ WindowsInv

-----------------------------------------------------------------------------
(* Every set of requests is finite.                                         *)
LEMMA FiniteRequests ==
  ASSUME NEW S \in SUBSET Requests
  PROVE  IsFiniteSet(S) /\ Cardinality(S) \in Nat
  BY LimiterAssumption, FS_Subset, FS_CardinalityType

(* When one request moves, the holders of a window gain or lose only it.    *)
LEMMA HoldersOfOthers ==
  ASSUME NEW r \in Requests, NEW i, NEW w,
         \A s \in Requests \ {r} : /\ pc'[s] = pc[s] /\ ip'[s] = ip[s]
                                   /\ charged'[s] = charged[s]
  PROVE  Holders(i, w)' =
           IF r \in Holders(i, w)' THEN Holders(i, w) \cup {r} ELSE Holders(i, w) \ {r}
  BY DEF Holders

(* The same for the crossings.                                              *)
LEMMA CrossingsOfOthers ==
  ASSUME NEW r \in Requests, NEW i, NEW w,
         \A s \in Requests \ {r} : ip'[s] = ip[s] /\ crossed'[s] = crossed[s]
  PROVE  Crossings(i, w)' =
           IF r \in Crossings(i, w)' THEN Crossings(i, w) \cup {r}
                                     ELSE Crossings(i, w) \ {r}
  BY DEF Crossings

(* Adding one request.                                                      *)
LEMMA OneMore ==
  ASSUME NEW S \in SUBSET Requests, NEW r \in Requests, r \notin S
  PROVE  Cardinality(S \cup {r}) = Cardinality(S) + 1
  BY FiniteRequests, FS_AddElement

(* Taking one request away.                                                 *)
LEMMA OneLess ==
  ASSUME NEW S \in SUBSET Requests, NEW r \in Requests, r \in S
  PROVE  Cardinality(S \ {r}) = Cardinality(S) - 1
  BY FiniteRequests, FS_RemoveElement

(* A swept table has the old record or none, and none only for a window     *)
(* that was over.                                                          *)
LEMMA SweptTable ==
  ASSUME NEW t, NEW i \in Ips
  PROVE  \/ Swept(t)[i] = records[i]
         \/ Swept(t)[i] = None /\ records[i] # None /\ Over(records[i], t)
  BY DEF Swept, Known

-----------------------------------------------------------------------------
(* Allow, whatever table it goes on with after the purge.                   *)
LEMMA TableOfAllow ==
  ASSUME TypeOK, RequestsInv, NEW r \in Requests, Allow(r)
  PROVE  \E table \in [Ips -> Record \cup {None}] :
           /\ \A i \in Ips :
                \/ table[i] = records[i]
                \/ table[i] = None /\ records[i] # None /\ Over(records[i], now[r])
           /\ ip[r] \in Ips
           /\ \/ /\ table[ip[r]] = None \/ Over(table[ip[r]], now[r])
                 /\ BeginWindow(r, ip[r], table)
              \/ /\ table[ip[r]] # None /\ ~Over(table[ip[r]], now[r])
                 /\ CountRequest(r, ip[r], table)
              \/ /\ table[ip[r]] # None /\ ~Over(table[ip[r]], now[r])
                 /\ Deny(r, ip[r], table)
<1> DEFINE table == IF Cardinality(Known) > PurgeAt THEN Swept(now[r]) ELSE records
<1>1. table \in [Ips -> Record \cup {None}]
  BY DEF TypeOK, Swept, Known
<1>2. \A i \in Ips : \/ table[i] = records[i]
                     \/ table[i] = None /\ records[i] # None /\ Over(records[i], now[r])
  BY SweptTable
<1>3. ip[r] \in Ips
  BY DEF Allow, RequestsInv, RequestOK
<1>4. \/ table[ip[r]] = None /\ BeginWindow(r, ip[r], table)
      \/ Over(table[ip[r]], now[r]) /\ BeginWindow(r, ip[r], table)
      \/ /\ table[ip[r]] # None /\ ~Over(table[ip[r]], now[r])
         /\ CountRequest(r, ip[r], table) \/ Deny(r, ip[r], table)
  BY DEF Allow
<1> HIDE DEF table
<1> QED BY <1>1, <1>2, <1>3, <1>4

-----------------------------------------------------------------------------
(* A step that moves no charge: counts and sets of the windows stay.        *)
LEMMA NoChargeMoves ==
  ASSUME IndInv,
         \A i \in Ips : \/ records'[i] = records[i]
                        \/ records'[i] = None,
         window' = window,
         \A i \in Ips, w \in Nat \ {0} : /\ Holders(i, w)' = Holders(i, w)
                                         /\ Crossings(i, w)' = Crossings(i, w)
  PROVE  ChargesAccounted' /\ WindowsInv'
<1>1. \A i \in Ips : window[i] \in Nat
  BY DEF IndInv, TypeOK
<1>2. ChargesAccounted'
  <2> SUFFICES ASSUME NEW i \in Known'
               PROVE  (records[i].count = Cardinality(Holders(i, window[i]))
                                            - Cardinality(Crossings(i, window[i])))'
    BY DEF ChargesAccounted
  <2>1. i \in Known /\ records'[i] = records[i]
    BY DEF Known
  <2>2. window[i] \in Nat \ {0} /\ i \in Ips
    BY <1>1, <2>1 DEF IndInv, RecordsInv, Known
  <2> QED BY <2>1, <2>2 DEF IndInv, ChargesAccounted
<1>3. WindowsInv'
  <2> SUFFICES ASSUME NEW i \in Ips, NEW w \in 1..window[i]
               PROVE  (Cardinality(Holders(i, w))
                         <= Limit + Cardinality(Crossings(i, w)))'
    BY DEF WindowsInv
  <2>1. w \in Nat \ {0}
    BY <1>1
  <2> QED BY <2>1 DEF IndInv, WindowsInv
<1> QED BY <1>2, <1>3

(* A request arrives, is answered, or a clock is read.                      *)
LEMMA QuietStep ==
  ASSUME IndInv, NEW r \in Requests, Arrive(r) \/ Succeed(r) \/ Panic(r) \/ Fail(r)
  PROVE  IndInv'
<1> USE LimiterAssumption DEF IndInv, requestVars, historyVars
<1>1. TypeOK'
  BY DEF TypeOK, Arrive, Succeed, Panic, Fail, Goto
<1>2. RequestsInv'
  <2>1. /\ UNCHANGED <<clock, window, charged, crossed>>
        /\ pc'[r] # "idle" /\ pc'[r] # "refunded" /\ pc[r] # "refunded"
        /\ pc'[r] = "allow" => pc[r] = "idle"
        /\ ip'[r] \in Ips
        /\ now'[r] <= clock
        /\ \A s \in Requests \ {r} : /\ pc'[s] = pc[s] /\ ip'[s] = ip[s]
                                     /\ now'[s] = now[s]
    BY DEF TypeOK, RequestsInv, RequestOK, Arrive, Succeed, Panic, Fail, Goto
  <2>2. charged[r] <= window[ip'[r]] /\ crossed[r] <= window[ip'[r]]
    BY <2>1 DEF RequestsInv, RequestOK, TypeOK, Arrive, Succeed, Panic, Fail
  <2> QED BY <2>1, <2>2 DEF RequestsInv, RequestOK
<1>3. RecordsInv'
  BY DEF RecordsInv, Known, Arrive, Succeed, Panic, Fail
<1>4. \A i \in Ips, w \in Nat \ {0} : /\ Holders(i, w)' = Holders(i, w)
                                      /\ Crossings(i, w)' = Crossings(i, w)
  <2>1. \A s \in Requests \ {r} : pc'[s] = pc[s] /\ ip'[s] = ip[s]
    BY DEF TypeOK, Arrive, Succeed, Panic, Fail, Goto
  <2>2. UNCHANGED <<charged, crossed>>
    BY DEF Arrive, Succeed, Panic, Fail
  <2>3. CASE Arrive(r)
    <3>1. charged[r] = 0 /\ crossed[r] = 0
      BY <2>3 DEF Arrive, RequestsInv, RequestOK
    <3> QED BY <2>1, <2>2, <3>1 DEF Holders, Crossings
  <2>4. CASE Succeed(r) \/ Panic(r) \/ Fail(r)
    <3>1. /\ ip' = ip /\ pc[r] = "handling"
          /\ pc'[r] \in {"ok", "panicked", "refund"}
      BY <2>4 DEF TypeOK, Succeed, Panic, Fail, Goto
    <3> QED BY <2>1, <2>2, <3>1 DEF Holders, Crossings
  <2> QED BY <2>3, <2>4
<1>5. ChargesAccounted' /\ WindowsInv'
  <2>1. UNCHANGED <<records, window>>
    BY DEF Arrive, Succeed, Panic, Fail
  <2> QED BY <1>4, <2>1, NoChargeMoves
<1> QED BY <1>1, <1>2, <1>3, <1>5

(* The cleanup and the clock.                                               *)
LEMMA ClockStep ==
  ASSUME IndInv, StartSweep \/ Sweep \/ Tick
  PROVE  IndInv'
<1> USE LimiterAssumption DEF IndInv, requestVars, historyVars
<1>1. UNCHANGED <<pc, ip, now, window, charged, crossed>> /\ clock <= clock'
  BY DEF StartSweep, Sweep, Tick, TypeOK
<1>2. \A i \in Ips : records'[i] = records[i] \/ records'[i] = None
  BY SweptTable DEF StartSweep, Sweep, Tick
<1>3. TypeOK'
  <2>1. records' \in [Ips -> Record \cup {None}]
    BY DEF StartSweep, Sweep, Tick, Swept, Known, TypeOK
  <2>2. clock' \in 0..LastTick /\ sweep' \in 0..LastTick \cup {None}
    BY DEF StartSweep, Sweep, Tick, TypeOK
  <2> QED BY <1>1, <2>1, <2>2 DEF TypeOK
<1>4. RequestsInv'
  <2>1. \A r \in Requests : now[r] <= clock'
    BY <1>1, <1>3 DEF RequestsInv, RequestOK, TypeOK
  <2> QED BY <1>1, <2>1 DEF RequestsInv, RequestOK
<1>5. RecordsInv'
  <2>1. \A i \in Known' : i \in Known
    BY <1>2 DEF Known
  <2>2. sweep' # None => sweep' <= clock'
    BY <1>1, <1>3 DEF StartSweep, Sweep, Tick, RecordsInv, TypeOK
  <2> QED BY <1>1, <2>1, <2>2 DEF RecordsInv
<1>6. ChargesAccounted' /\ WindowsInv'
  <2>1. \A i \in Ips, w \in Nat \ {0} : /\ Holders(i, w)' = Holders(i, w)
                                        /\ Crossings(i, w)' = Crossings(i, w)
    BY <1>1 DEF Holders, Crossings
  <2> QED BY <1>1, <1>2, <2>1, NoChargeMoves
<1> QED BY <1>3, <1>4, <1>5, <1>6

-----------------------------------------------------------------------------
(* Allow: the request begins a window, is counted in one, or is denied.     *)
LEMMA AllowStep ==
  ASSUME IndInv, NEW r \in Requests, Allow(r)
  PROVE  IndInv'
<1> USE LimiterAssumption DEF IndInv
<1>1. PICK table \in [Ips -> Record \cup {None}] :
        /\ \A j \in Ips :
             \/ table[j] = records[j]
             \/ table[j] = None /\ records[j] # None /\ Over(records[j], now[r])
        /\ ip[r] \in Ips
        /\ \/ /\ table[ip[r]] = None \/ Over(table[ip[r]], now[r])
              /\ BeginWindow(r, ip[r], table)
           \/ /\ table[ip[r]] # None /\ ~Over(table[ip[r]], now[r])
              /\ CountRequest(r, ip[r], table)
           \/ /\ table[ip[r]] # None /\ ~Over(table[ip[r]], now[r])
              /\ Deny(r, ip[r], table)
  BY TableOfAllow
<1> PICK i \in Ips : i = ip[r]
  BY <1>1
<1> PICK n \in Nat : n = window[i]
  BY DEF TypeOK
<1>2. /\ UNCHANGED <<clock, ip, now, sweep, crossed>>
      /\ pc[r] = "allow" /\ charged[r] = 0 /\ crossed[r] = 0
      /\ now[r] \in 0..LastTick
  BY DEF Allow, RequestsInv, RequestOK, TypeOK
<1>3. \A j \in Ips : \A w : Crossings(j, w)' = Crossings(j, w)
  BY <1>2 DEF Crossings
<1>4. \A j \in Ips : \A w : r \notin Holders(j, w)
  BY <1>2 DEF Holders
<1>5. CASE BeginWindow(r, i, table)
  <2>1. /\ records'[i] = [count |-> 1, bgn |-> now[r]]
        /\ window'[i] = n + 1 /\ charged'[r] = n + 1
        /\ pc'[r] = "handling"
        /\ \A j \in Ips \ {i} : records'[j] = table[j] /\ window'[j] = window[j]
        /\ \A s \in Requests \ {r} : pc'[s] = pc[s] /\ charged'[s] = charged[s]
    BY <1>2, <1>5 DEF BeginWindow, Goto, TypeOK
  <2>2. TypeOK'
    <3>1. [count |-> 1, bgn |-> now[r]] \in Record
      BY <1>2 DEF Record
    <3> QED BY <1>2, <1>5, <3>1 DEF BeginWindow, Goto, TypeOK
  <2>3. RequestsInv'
    <3>1. RequestOK(r)'
      BY <1>2, <2>1 DEF RequestsInv, RequestOK
    <3>2. ASSUME NEW s \in Requests \ {r} PROVE RequestOK(s)'
      <4>1. \A j \in Ips : window[j] <= window'[j] /\ window[j] \in Nat
        BY <1>2, <2>1 DEF TypeOK
      <4>2. charged[s] \in Nat /\ crossed[s] \in Nat
        BY DEF TypeOK
      <4>3. ip[s] \in Ips =>
              charged[s] <= window'[ip[s]] /\ crossed[s] <= window'[ip[s]]
        BY <2>2, <4>1, <4>2 DEF RequestsInv, RequestOK, TypeOK
      <4> QED BY <1>2, <2>1, <4>3 DEF RequestsInv, RequestOK
    <3> QED BY <3>1, <3>2 DEF RequestsInv
  <2>4. RecordsInv'
    BY <1>1, <1>2, <2>1 DEF RecordsInv, Known
  <2>5. Holders(i, n + 1)' = {r}
    <3>1. \A s \in Requests : ip[s] = i => charged[s] # n + 1
      BY <1>2 DEF RequestsInv, RequestOK, TypeOK
    <3> QED BY <1>2, <2>1, <3>1 DEF Holders
  <2>6. Crossings(i, n + 1)' = {}
    <3>1. \A s \in Requests : ip[s] = i => crossed[s] # n + 1
      BY <1>2 DEF RequestsInv, RequestOK, TypeOK
    <3> QED BY <1>2, <3>1 DEF Crossings
  <2>7. ASSUME NEW j \in Ips, NEW w, <<j, w>> # <<i, n + 1>>
        PROVE  Holders(j, w)' = Holders(j, w)
    BY <1>2, <1>4, <2>1, <2>7 DEF Holders
  <2>8. ChargesAccounted'
    <3> SUFFICES ASSUME NEW j \in Known'
                 PROVE  (records[j].count = Cardinality(Holders(j, window[j]))
                                              - Cardinality(Crossings(j, window[j])))'
      BY DEF ChargesAccounted
    <3>1. CASE j = i
      <4>1. window'[j] = n + 1 /\ records'[j].count = 1
        BY <2>1, <3>1
      <4>2. Cardinality(Holders(j, window[j])') = 1
        BY <2>5, <3>1, <4>1, FS_Singleton
      <4>3. Cardinality(Crossings(j, window[j])') = 0
        BY <2>6, <3>1, <4>1, FS_EmptySet
      <4> QED BY <4>1, <4>2, <4>3
    <3>2. CASE j # i
      <4>1. j \in Ips /\ j \in Known /\ records'[j] = records[j] /\ window'[j] = window[j]
        BY <1>1, <2>1, <3>2 DEF Known
      <4>2. Holders(j, window[j])' = Holders(j, window[j])
        BY <2>7, <3>2, <4>1
      <4> QED BY <1>3, <4>1, <4>2 DEF ChargesAccounted
    <3> QED BY <3>1, <3>2
  <2>9. WindowsInv'
    <3> SUFFICES ASSUME NEW j \in Ips, NEW w \in 1..window'[j]
                 PROVE  Cardinality(Holders(j, w)')
                          <= Limit + Cardinality(Crossings(j, w)')
      BY DEF WindowsInv
    <3>1. CASE j = i /\ w = n + 1
      <4>1. Cardinality(Holders(j, w)') = 1
        BY <2>5, <3>1, FS_Singleton
      <4>2. Cardinality(Crossings(j, w)') = 0
        BY <2>6, <3>1, FS_EmptySet
      <4> QED BY <4>1, <4>2
    <3>2. CASE ~(j = i /\ w = n + 1)
      <4>1. w \in 1..window[j]
        BY <1>2, <2>1, <2>2, <3>2 DEF TypeOK
      <4>2. Holders(j, w)' = Holders(j, w)
        BY <2>7, <3>2
      <4> QED BY <1>3, <4>1, <4>2 DEF WindowsInv
    <3> QED BY <3>1, <3>2
  <2> QED BY <2>2, <2>3, <2>4, <2>8, <2>9
<1>6. CASE /\ table[i] # None /\ ~Over(table[i], now[r])
           /\ CountRequest(r, i, table)
  <2>1. /\ i \in Known /\ table[i] = records[i] /\ records[i] \in Record
        /\ records[i].count \in 1..Limit /\ records[i].count < Limit
    BY <1>1, <1>2, <1>6 DEF Known, CountRequest, TypeOK, Record
  <2>2. /\ records'[i] = [records[i] EXCEPT !.count = @ + 1]
        /\ window' = window /\ charged'[r] = n
        /\ pc'[r] = "handling"
        /\ \A j \in Ips \ {i} : records'[j] = table[j]
        /\ \A s \in Requests \ {r} : pc'[s] = pc[s] /\ charged'[s] = charged[s]
    BY <1>2, <1>6, <2>1 DEF CountRequest, Goto, TypeOK
  <2>3. records'[i].count = records[i].count + 1 /\ records'[i] \in Record
    BY <2>1, <2>2 DEF Record
  <2>4. TypeOK'
    <3>1. records' \in [Ips -> Record \cup {None}]
      BY <1>6, <2>2, <2>3 DEF CountRequest
    <3> QED BY <1>2, <1>6, <3>1 DEF CountRequest, Goto, TypeOK
  <2>5. RequestsInv'
    BY <1>2, <2>2 DEF RequestsInv, RequestOK
  <2>6. RecordsInv'
    BY <1>1, <1>2, <2>1, <2>2 DEF RecordsInv, Known
  <2>7. n >= 1
    BY <2>1 DEF RecordsInv
  <2>8. Holders(i, n)' = Holders(i, n) \cup {r}
    BY <1>2, <2>2 DEF Holders
  <2>9. ASSUME NEW j \in Ips, NEW w, <<j, w>> # <<i, n>>
        PROVE  Holders(j, w)' = Holders(j, w)
    BY <1>2, <1>4, <2>2, <2>9 DEF Holders
  <2>10. Cardinality(Holders(i, n) \cup {r})
           = Cardinality(Holders(i, n)) + 1
    <3>1. Holders(i, n) \in SUBSET Requests
      BY DEF Holders
    <3> QED BY <1>2, <1>4, <3>1, OneMore
  <2>11. /\ Cardinality(Holders(i, n)) \in Nat
         /\ Cardinality(Crossings(i, n)) \in Nat
    <3>1. Holders(i, n) \in SUBSET Requests
      BY DEF Holders
    <3>2. Crossings(i, n) \in SUBSET Requests
      BY DEF Crossings
    <3> QED BY <3>1, <3>2, FiniteRequests
  <2>12. records[i].count = Cardinality(Holders(i, n))
                              - Cardinality(Crossings(i, n))
    BY <2>1 DEF ChargesAccounted
  <2>13. ChargesAccounted'
    <3> SUFFICES ASSUME NEW j \in Known'
                 PROVE  (records[j].count = Cardinality(Holders(j, window[j]))
                                              - Cardinality(Crossings(j, window[j])))'
      BY DEF ChargesAccounted
    <3>1. CASE j = i
      <4>1. window'[j] = n /\ records'[j].count = records[i].count + 1
        BY <2>2, <2>3, <3>1
      <4>2. Cardinality(Holders(j, window[j])') = Cardinality(Holders(i, n)) + 1
        BY <2>8, <2>10, <3>1, <4>1
      <4>3. Cardinality(Crossings(j, window[j])') = Cardinality(Crossings(i, n))
        BY <1>3, <3>1, <4>1
      <4> QED BY <2>11, <2>12, <4>1, <4>2, <4>3
    <3>2. CASE j # i
      <4>1. j \in Ips /\ j \in Known /\ records'[j] = records[j] /\ window'[j] = window[j]
        BY <1>1, <2>2, <3>2 DEF Known
      <4>2. Holders(j, window[j])' = Holders(j, window[j])
        BY <2>9, <3>2, <4>1
      <4> QED BY <1>3, <4>1, <4>2 DEF ChargesAccounted
    <3> QED BY <3>1, <3>2
  <2>14. WindowsInv'
    <3> SUFFICES ASSUME NEW j \in Ips, NEW w \in 1..window[j]
                 PROVE  Cardinality(Holders(j, w)')
                          <= Limit + Cardinality(Crossings(j, w)')
      BY <2>2 DEF WindowsInv
    <3>1. CASE j = i /\ w = n
      <4>1. Cardinality(Holders(j, w)') = Cardinality(Holders(i, n)) + 1
        BY <2>8, <2>10, <3>1
      <4>2. Cardinality(Crossings(j, w)') = Cardinality(Crossings(i, n))
        BY <1>3, <3>1
      <4> QED BY <2>1, <2>11, <2>12, <4>1, <4>2
    <3>2. CASE ~(j = i /\ w = n)
      BY <1>3, <2>9, <3>2 DEF WindowsInv
    <3> QED BY <3>1, <3>2
  <2> QED BY <2>4, <2>5, <2>6, <2>13, <2>14
<1>7. CASE Deny(r, i, table)
  <2>1. /\ records' = table /\ UNCHANGED <<window, charged>>
        /\ pc'[r] = "denied"
        /\ \A s \in Requests \ {r} : pc'[s] = pc[s]
    BY <1>2, <1>7 DEF Deny, Goto, TypeOK
  <2>2. TypeOK'
    BY <1>2, <1>7 DEF Deny, Goto, TypeOK
  <2>3. RequestsInv'
    BY <1>2, <2>1 DEF RequestsInv, RequestOK
  <2>4. RecordsInv'
    BY <1>1, <1>2, <2>1 DEF RecordsInv, Known
  <2>5. \A j \in Ips, w \in Nat \ {0} : /\ Holders(j, w)' = Holders(j, w)
                                        /\ Crossings(j, w)' = Crossings(j, w)
    BY <1>2, <1>3, <2>1 DEF Holders
  <2>6. ChargesAccounted' /\ WindowsInv'
    BY <1>1, <2>1, <2>5, NoChargeMoves
  <2> QED BY <2>2, <2>3, <2>4, <2>6
<1> QED BY <1>1, <1>5, <1>6, <1>7

-----------------------------------------------------------------------------
(* Rollback: the charge goes, and one is taken off the current window, the  *)
(* request's own or a later one.                                           *)
LEMMA RollbackStep ==
  ASSUME IndInv, NEW r \in Requests, Rollback(r)
  PROVE  IndInv'
<1> USE LimiterAssumption DEF IndInv
<1>1. /\ UNCHANGED <<clock, ip, now, sweep, window, charged>>
      /\ pc[r] = "refund" /\ pc'[r] = "refunded" /\ ip[r] \in Ips /\ crossed[r] = 0
      /\ \A s \in Requests \ {r} : pc'[s] = pc[s]
  BY DEF Rollback, Goto, RequestsInv, RequestOK, TypeOK
<1> PICK i \in Ips : i = ip[r]
  BY <1>1
<1> PICK n \in Nat : n = window[i]
  BY DEF TypeOK
<1>2. \/ /\ records'[i] = None /\ UNCHANGED crossed
      \/ /\ i \in Known /\ records' = TakeOneOff(i)
         /\ charged[r] = n /\ UNCHANGED crossed
      \/ /\ i \in Known /\ records' = TakeOneOff(i)
         /\ charged[r] # n /\ crossed' = [crossed EXCEPT ![r] = n]
  BY DEF Rollback, Known, TypeOK
<1>3. /\ records' \in [Ips -> Record \cup {None}]
      /\ \A j \in Ips \ {i} : records'[j] = records[j]
      /\ i \in Known' => /\ i \in Known /\ records' = TakeOneOff(i)
                         /\ records'[i].count = records[i].count - 1
  <2>1. CASE i \notin Known
    BY <2>1 DEF Rollback, Known, TypeOK
  <2>2. CASE records' = [records EXCEPT ![i] = None]
    BY <2>2 DEF Known, TypeOK
  <2>3. CASE /\ i \in Known /\ records[i].count > 1
             /\ records' = [records EXCEPT ![i].count = @ - 1]
    <3>1. records[i] \in Record
      BY <2>3 DEF Known, TypeOK
    <3>2. records[i].count \in 1..Limit
      BY <3>1 DEF Record
    <3>3. [records[i] EXCEPT !.count = @ - 1] \in Record
      BY <2>3, <3>1, <3>2 DEF Record
    <3>4. records'[i].count = records[i].count - 1
      BY <2>3, <3>1 DEF Record, TypeOK
    <3>5. records' = TakeOneOff(i)
      BY <2>3, <3>2 DEF TakeOneOff
    <3> QED BY <2>3, <3>3, <3>4, <3>5 DEF TypeOK
  <2>4. i \in Known => records[i].count \in 1..Limit
    BY DEF Known, TypeOK, Record
  <2> QED BY <2>1, <2>2, <2>3, <2>4 DEF Rollback, TakeOneOff, Known
<1>4. crossed' \in [Requests -> Nat] /\ \A s \in Requests \ {r} : crossed'[s] = crossed[s]
  BY <1>2 DEF TypeOK
<1>5. TypeOK'
  <2>1. pc' = [pc EXCEPT ![r] = "refunded"]
    BY DEF Rollback, Goto
  <2> QED BY <1>1, <1>3, <1>4, <2>1 DEF TypeOK
<1>6. RequestsInv'
  <2>1. crossed'[r] <= window[i]
    BY <1>1, <1>2 DEF TypeOK
  <2> QED BY <1>1, <1>4, <2>1 DEF RequestsInv, RequestOK
<1>7. RecordsInv'
  BY <1>1, <1>3 DEF RecordsInv, Known
<1>8. \A j \in Ips, w \in Nat \ {0} :
        /\ Holders(j, w)' = Holders(j, w) \ {r}
        /\ \/ Crossings(j, w)' = Crossings(j, w)
           \/ /\ Crossings(j, w)' = Crossings(j, w) \cup {r}
              /\ r \notin Crossings(j, w) /\ j = i /\ w = n /\ crossed' # crossed
  <2> SUFFICES ASSUME NEW j \in Ips, NEW w \in Nat \ {0}
               PROVE  /\ Holders(j, w)' = Holders(j, w) \ {r}
                      /\ \/ Crossings(j, w)' = Crossings(j, w)
                         \/ /\ Crossings(j, w)' = Crossings(j, w) \cup {r}
                            /\ r \notin Crossings(j, w) /\ j = i /\ w = n
                            /\ crossed' # crossed
    OBVIOUS
  <2>1. Holders(j, w)' = Holders(j, w) \ {r}
    BY <1>1 DEF Holders
  <2>2. CASE UNCHANGED crossed
    BY <1>1, <2>1, <2>2 DEF Crossings
  <2>3. CASE crossed' = [crossed EXCEPT ![r] = n]
    <3>1. crossed'[r] = n
      BY <2>3 DEF TypeOK
    <3>2. CASE j = i /\ w = n
      BY <1>1, <1>4, <2>1, <3>1, <3>2 DEF Crossings
    <3>3. CASE ~(j = i /\ w = n)
      BY <1>1, <1>4, <2>1, <3>1, <3>3 DEF Crossings
    <3> QED BY <3>2, <3>3
  <2> QED BY <1>2, <2>2, <2>3
<1>9. \A j \in Ips : \A w : Holders(j, w) \in SUBSET Requests /\ Crossings(j, w) \in SUBSET Requests
  BY DEF Holders, Crossings
<1>10. \A j \in Ips, w \in Nat \ {0} :
         /\ Cardinality(Holders(j, w)') <= Cardinality(Holders(j, w))
         /\ Cardinality(Crossings(j, w)) <= Cardinality(Crossings(j, w)')
         /\ Cardinality(Holders(j, w)') \in Nat /\ Cardinality(Holders(j, w)) \in Nat
         /\ Cardinality(Crossings(j, w)') \in Nat /\ Cardinality(Crossings(j, w)) \in Nat
  <2> SUFFICES ASSUME NEW j \in Ips, NEW w \in Nat \ {0}
               PROVE /\ Cardinality(Holders(j, w)') <= Cardinality(Holders(j, w))
                     /\ Cardinality(Crossings(j, w)) <= Cardinality(Crossings(j, w)')
                     /\ Cardinality(Holders(j, w)') \in Nat
                     /\ Cardinality(Holders(j, w)) \in Nat
                     /\ Cardinality(Crossings(j, w)') \in Nat
                     /\ Cardinality(Crossings(j, w)) \in Nat
    OBVIOUS
  <2>1. /\ Holders(j, w)' \in SUBSET Holders(j, w) /\ IsFiniteSet(Holders(j, w))
        /\ Cardinality(Holders(j, w)) \in Nat /\ Cardinality(Holders(j, w)') \in Nat
    BY <1>8, <1>9, FiniteRequests
  <2>2. Crossings(j, w) \in SUBSET Crossings(j, w)' /\ Crossings(j, w)' \in SUBSET Requests
    BY <1>8, <1>9
  <2>3. /\ IsFiniteSet(Crossings(j, w)')
        /\ Cardinality(Crossings(j, w)) \in Nat /\ Cardinality(Crossings(j, w)') \in Nat
    BY <1>9, <2>2, FiniteRequests
  <2>4. Cardinality(Holders(j, w)') <= Cardinality(Holders(j, w))
    BY <2>1, FS_Subset
  <2>5. Cardinality(Crossings(j, w)) <= Cardinality(Crossings(j, w)')
    BY <2>2, <2>3, FS_Subset
  <2> QED BY <2>1, <2>3, <2>4, <2>5
<1>11. WindowsInv'
  <2> SUFFICES ASSUME NEW j \in Ips, NEW w \in 1..window[j]
               PROVE  Cardinality(Holders(j, w)') <= Limit + Cardinality(Crossings(j, w)')
    BY <1>1 DEF WindowsInv
  <2>1. w \in Nat \ {0}
    BY DEF TypeOK
  <2>2. Cardinality(Holders(j, w)) <= Limit + Cardinality(Crossings(j, w))
    BY DEF WindowsInv
  <2> QED BY <1>10, <2>1, <2>2
<1>12. ChargesAccounted'
  <2> SUFFICES ASSUME NEW j \in Known'
               PROVE  records'[j].count = Cardinality(Holders(j, window[j])')
                                            - Cardinality(Crossings(j, window[j])')
    BY DEF ChargesAccounted
  <2>1. j \in Ips /\ j \in Known
    BY <1>3 DEF Known
  <2>2. window[j] \in Nat \ {0} /\ window' = window
    BY <1>1, <2>1 DEF RecordsInv, TypeOK
  <2>3. records[j].count = Cardinality(Holders(j, window[j]))
                             - Cardinality(Crossings(j, window[j]))
    BY <2>1 DEF ChargesAccounted
  <2>4. CASE j # i
    <3> PICK m \in Nat \ {0} : m = window[j]
      BY <2>2
    <3>1. r \notin Holders(j, m)
      BY <2>4 DEF Holders
    <3>2. Holders(j, m)' = Holders(j, m) /\ Crossings(j, m)' = Crossings(j, m)
      BY <1>8, <2>1, <2>4, <3>1
    <3>3. window'[j] = m
      BY <2>2
    <3> QED BY <1>3, <2>1, <2>3, <2>4, <3>2, <3>3
  <2>5. CASE j = i
    <3>1. i \in Known' /\ n \in Nat \ {0} /\ window'[j] = n /\ window[j] = n
      BY <2>2, <2>5
    <3>2. records'[i].count = records[i].count - 1 /\ records'[i] # None
      BY <1>3, <3>1 DEF Known
    <3>3. CASE charged[r] = n /\ UNCHANGED crossed
      <4>1. r \in Holders(i, n) /\ Holders(i, n)' = Holders(i, n) \ {r}
        BY <1>1, <1>8, <3>1, <3>3 DEF Holders
      <4>2. Cardinality(Holders(i, n)') = Cardinality(Holders(i, n)) - 1
        BY <1>9, <4>1, OneLess
      <4>3. Crossings(i, n)' = Crossings(i, n)
        BY <1>8, <3>1, <3>3
      <4> QED BY <1>10, <2>3, <2>5, <3>1, <3>2, <4>2, <4>3
    <3>4. CASE charged[r] # n /\ crossed' = [crossed EXCEPT ![r] = n]
      <4>1. Holders(i, n)' = Holders(i, n)
        <5>1. r \notin Holders(i, n)
          BY <3>4 DEF Holders
        <5> QED BY <1>8, <3>1, <5>1
      <4>2. r \notin Crossings(i, n) /\ r \in Crossings(i, n)'
        BY <1>1, <3>1, <3>4 DEF Crossings, TypeOK
      <4>3. Crossings(i, n)' = Crossings(i, n) \cup {r}
        BY <1>8, <3>1, <4>2
      <4>4. Cardinality(Crossings(i, n)') = Cardinality(Crossings(i, n)) + 1
        BY <1>9, <4>2, <4>3, OneMore
      <4> QED BY <1>10, <2>3, <2>5, <3>1, <3>2, <4>1, <4>4
    <3> QED BY <1>2, <3>2, <3>3, <3>4
  <2> QED BY <2>4, <2>5
<1> QED BY <1>5, <1>6, <1>7, <1>11, <1>12

-----------------------------------------------------------------------------
(* At the start nobody is charged.                                          *)
LEMMA InitInv == Init => IndInv
<1> SUFFICES ASSUME Init PROVE IndInv
  OBVIOUS
<1> USE LimiterAssumption DEF Init
<1>1. TypeOK
  BY DEF TypeOK
<1>2. RequestsInv /\ RecordsInv
  BY DEF RequestsInv, RequestOK, RecordsInv, Known
<1>3. ChargesAccounted /\ WindowsInv
  BY DEF ChargesAccounted, WindowsInv, Known
<1> QED BY <1>1, <1>2, <1>3 DEF IndInv

(* Every reachable state of DemoLimiter satisfies IndInv.                   *)
THEOREM Inductive == Spec => []IndInv
<1>1. IndInv /\ UNCHANGED vars => IndInv'
  BY DEF IndInv, vars, requestVars, historyVars, TypeOK, RequestsInv, RequestOK,
         RecordsInv, ChargesAccounted, WindowsInv, Known, Holders, Crossings
<1>2. IndInv /\ [Next]_vars => IndInv'
  BY <1>1, QuietStep, AllowStep, RollbackStep, ClockStep DEF Next
<1> QED BY <1>2, InitInv, PTL DEF Spec

(* A record counts at least one request and at most the limit.              *)
THEOREM TypeCorrect == Spec => []TypeOK
<1>1. IndInv => TypeOK
  BY DEF IndInv
<1> QED BY <1>1, Inductive, PTL

(* No charge is lost and none is kept that was refunded, for any number of  *)
(* requests and whatever their interleaving.                               *)
THEOREM Accounting == Spec => []ChargesAccounted
<1>1. IndInv => ChargesAccounted
  BY DEF IndInv
<1> QED BY <1>1, Inductive, PTL

(* A window never serves more than the limit plus the refunds of earlier    *)
(* windows that were taken off it.                                         *)
THEOREM LimitKept == Spec => []ServedWithinLimit
<1>1. ASSUME IndInv PROVE ServedWithinLimit
  <2> SUFFICES ASSUME NEW i \in Ips, NEW w \in 1..window[i]
               PROVE  Cardinality({r \in Holders(i, w) : pc[r] = "ok"})
                        <= Limit + Cardinality(Crossings(i, w))
    BY DEF ServedWithinLimit
  <2> DEFINE ok == {r \in Holders(i, w) : pc[r] = "ok"}
  <2>1. /\ ok \in SUBSET Holders(i, w) /\ Holders(i, w) \in SUBSET Requests
        /\ Crossings(i, w) \in SUBSET Requests /\ ok \in SUBSET Requests
    BY DEF Holders, Crossings
  <2>2. /\ Cardinality(ok) \in Nat /\ Cardinality(Holders(i, w)) \in Nat
        /\ Cardinality(Crossings(i, w)) \in Nat /\ IsFiniteSet(Holders(i, w))
    BY <2>1, FiniteRequests
  <2>3. Cardinality(ok) <= Cardinality(Holders(i, w))
    BY <2>1, <2>2, FS_Subset
  <2>4. Cardinality(Holders(i, w)) <= Limit + Cardinality(Crossings(i, w))
    BY <1>1 DEF IndInv, WindowsInv
  <2> HIDE DEF ok
  <2>5. Limit \in Nat
    BY LimiterAssumption
  <2>6. Cardinality(ok) <= Limit + Cardinality(Crossings(i, w))
    BY <2>2, <2>3, <2>4, <2>5
  <2> QED BY <2>6 DEF ok
<1> QED BY <1>1, Inductive, PTL

(* Nobody is denied while fewer than Limit requests of the window hold      *)
(* charges.                                                                *)
THEOREM DenialsJustified == Spec => DeniedOnlyWhenSpent
<1>1. ASSUME IndInv, [Next]_vars, NEW r \in Requests, pc[r] = "allow", pc'[r] = "denied"
      PROVE  Cardinality(Holders(ip[r], window[ip[r]])) >= Limit
  <2>1. Allow(r)
    <3>1. ASSUME NEW s \in Requests \ {r},
                 \/ Arrive(s) \/ Allow(s) \/ Succeed(s) \/ Panic(s) \/ Fail(s)
                 \/ Rollback(s)
          PROVE  pc'[r] = pc[r]
      BY <1>1, <3>1, TableOfAllow DEF Arrive, Allow, Succeed, Panic, Fail, Rollback, Goto,
         BeginWindow, CountRequest, Deny, IndInv, TypeOK
    <3>2. StartSweep \/ Sweep \/ Tick \/ UNCHANGED vars => pc' = pc
      BY DEF StartSweep, Sweep, Tick, vars, requestVars
    <3>3. ~(Arrive(r) \/ Succeed(r) \/ Panic(r) \/ Fail(r) \/ Rollback(r))
      BY <1>1 DEF Arrive, Succeed, Panic, Fail, Rollback
    <3> QED BY <1>1, <3>1, <3>2, <3>3 DEF Next
  <2>2. ip[r] \in Known /\ records[ip[r]].count >= Limit
    <3>1. PICK table \in [Ips -> Record \cup {None}] :
            /\ \A j \in Ips : \/ table[j] = records[j]
                              \/ table[j] = None
            /\ ip[r] \in Ips
            /\ \/ BeginWindow(r, ip[r], table)
               \/ CountRequest(r, ip[r], table)
               \/ table[ip[r]] # None /\ Deny(r, ip[r], table)
      BY <1>1, <2>1, TableOfAllow DEF IndInv
    <3>2. ~BeginWindow(r, ip[r], table) /\ ~CountRequest(r, ip[r], table)
      BY <1>1 DEF BeginWindow, CountRequest, Goto, IndInv, TypeOK
    <3> QED BY <3>1, <3>2 DEF Deny, Known
  <2>3. /\ records[ip[r]].count = Cardinality(Holders(ip[r], window[ip[r]]))
                                    - Cardinality(Crossings(ip[r], window[ip[r]]))
        /\ records[ip[r]].count \in Nat
    BY <1>1, <2>2, LimiterAssumption DEF IndInv, ChargesAccounted, Known, TypeOK, Record
  <2>4. /\ Holders(ip[r], window[ip[r]]) \in SUBSET Requests
        /\ Crossings(ip[r], window[ip[r]]) \in SUBSET Requests
    BY DEF Holders, Crossings
  <2>5. /\ Cardinality(Holders(ip[r], window[ip[r]])) \in Nat
        /\ Cardinality(Crossings(ip[r], window[ip[r]])) \in Nat
    BY <2>4, FiniteRequests
  <2> QED BY <2>2, <2>3, <2>5, LimiterAssumption
<1>2. ASSUME IndInv, [Next]_vars
      PROVE  [\A r \in Requests :
                pc[r] = "allow" /\ pc'[r] = "denied" =>
                  Cardinality(Holders(ip[r], window[ip[r]])) >= Limit]_vars
  BY <1>1, <1>2
<1> QED BY <1>2, Inductive, PTL DEF Spec, DeniedOnlyWhenSpent

(* A window that is not over is given up only to a refund: neither a sweep  *)
(* nor a purge nor an arrival with an old reading of the clock forgets it   *)
(* or begins it anew.                                                      *)
THEOREM WindowsKept == Spec => LiveWindowKept
<1>1. ASSUME IndInv, [Next]_vars, NEW i \in Known, ~Over(records[i], clock),
             ~\E r \in Requests : ip[r] = i /\ pc[r] = "refund" /\ pc'[r] = "refunded"
      PROVE  records'[i] # None /\ records'[i].bgn = records[i].bgn
  <2>1. /\ i \in Ips /\ records[i] # None /\ records[i] \in Record
        /\ records[i].bgn \in Int /\ records[i].count \in Nat /\ clock \in Int
    BY <1>1, LimiterAssumption DEF Known, IndInv, TypeOK, Record
  <2>2. \A t \in Int : t <= clock => ~Over(records[i], t)
    BY <1>1, <2>1, LimiterAssumption DEF Over
  <2>3. CASE records'[i] = records[i]
    BY <2>1, <2>3
  <2>4. ASSUME NEW r \in Requests, Allow(r)
        PROVE  records'[i] # None /\ records'[i].bgn = records[i].bgn
    <3>1. now[r] \in Int /\ now[r] <= clock
      BY <1>1 DEF IndInv, TypeOK, RequestsInv, RequestOK
    <3>2. PICK table \in [Ips -> Record \cup {None}] :
            /\ \A j \in Ips :
                 \/ table[j] = records[j]
                 \/ table[j] = None /\ records[j] # None /\ Over(records[j], now[r])
            /\ ip[r] \in Ips
            /\ \/ /\ table[ip[r]] = None \/ Over(table[ip[r]], now[r])
                  /\ BeginWindow(r, ip[r], table)
               \/ CountRequest(r, ip[r], table)
               \/ Deny(r, ip[r], table)
      BY <1>1, <2>4, TableOfAllow DEF IndInv
    <3>3. table[i] = records[i]
      BY <2>1, <2>2, <3>1, <3>2
    <3>4. CASE BeginWindow(r, ip[r], table) /\ ip[r] # i
      BY <2>1, <3>2, <3>3, <3>4 DEF BeginWindow
    <3>5. CASE BeginWindow(r, ip[r], table) /\ ip[r] = i
      BY <2>1, <2>2, <3>1, <3>2, <3>3, <3>5 DEF BeginWindow, CountRequest, Deny, Goto,
         IndInv, TypeOK, Record
    <3>6. CASE CountRequest(r, ip[r], table)
      <4>1. CASE ip[r] = i
        <5>1. records'[i] = [records[i] EXCEPT !.count = @ + 1]
          BY <2>1, <3>2, <3>3, <3>6, <4>1 DEF CountRequest
        <5>2. records'[i] \in [count : Nat, bgn : Nat]
          BY <2>1, <5>1 DEF Record
        <5>3. records'[i].bgn = records[i].bgn
          BY <2>1, <5>1 DEF Record
        <5> QED BY <5>2, <5>3, LimiterAssumption
      <4>2. CASE ip[r] # i
        BY <2>1, <3>2, <3>3, <3>6, <4>2 DEF CountRequest
      <4> QED BY <4>1, <4>2
    <3>7. CASE Deny(r, ip[r], table)
      BY <2>1, <3>3, <3>7 DEF Deny
    <3> QED BY <3>2, <3>4, <3>5, <3>6, <3>7
  <2>5. ASSUME NEW r \in Requests, Rollback(r) PROVE records'[i] = records[i]
    <3>1. ip[r] # i
      BY <1>1, <2>5 DEF Rollback, Goto, IndInv, TypeOK
    <3>2. \/ records' = records
          \/ records' = [records EXCEPT ![ip[r]] = None]
          \/ records' = [records EXCEPT ![ip[r]].count = @ - 1]
      BY <2>5 DEF Rollback, TakeOneOff
    <3>3. records \in [Ips -> Record \cup {None}]
      BY <1>1 DEF IndInv, TypeOK
    <3> QED BY <2>1, <3>1, <3>2, <3>3
  <2>6. ASSUME NEW r \in Requests, Arrive(r) \/ Succeed(r) \/ Panic(r) \/ Fail(r)
        PROVE  records' = records
    BY <2>6 DEF Arrive, Succeed, Panic, Fail
  <2>7. CASE Sweep
    <3>1. sweep \in Int /\ sweep <= clock
      BY <1>1, <2>7 DEF Sweep, IndInv, RecordsInv, TypeOK
    <3> QED BY <2>1, <2>2, <2>3, <2>7, <3>1, SweptTable DEF Sweep
  <2>8. StartSweep \/ Tick \/ UNCHANGED vars => records' = records
    BY DEF StartSweep, Tick, vars
  <2> QED BY <1>1, <2>3, <2>4, <2>5, <2>6, <2>7, <2>8 DEF Next
<1>2. ASSUME IndInv, [Next]_vars
      PROVE  [\A i \in Known :
                \/ Over(records[i], clock)
                \/ records'[i] # None /\ records'[i].bgn = records[i].bgn
                \/ \E r \in Requests :
                     ip[r] = i /\ pc[r] = "refund" /\ pc'[r] = "refunded"]_vars
  BY <1>1, <1>2
<1> QED BY <1>2, Inductive, PTL DEF Spec, LiveWindowKept

-----------------------------------------------------------------------------
Book == [i \in Ips |-> Page(i)]

(* The ledger counts as the limiter does: an instance has its own copy of  *)
(* the operators its module extends.                                       *)
LEMMA SameCount == \A S : Accounts!Cardinality(S) = Cardinality(S)
  BY DEF Accounts!Cardinality, Cardinality

(* A record and the page it stands for.                                     *)
LEMMA PageOf ==
  ASSUME IndInv, NEW i \in Ips
  PROVE  /\ records[i] = None => Page(i) = None
         /\ records[i] # None =>
              /\ Page(i) = [held |-> Holders(i, window[i]),
                            late |-> Cardinality(Crossings(i, window[i])),
                            bgn |-> records[i].bgn]
              /\ Page(i) \in [held : SUBSET Requests, late : Nat, bgn : Nat]
              /\ Page(i) # None
              /\ Page(i).bgn = records[i].bgn
              /\ Accounts!Balance(Page(i)) = records[i].count
              /\ window[i] \in Nat \ {0}
<1>1. records[i] = None => Page(i) = None
  BY DEF Page
<1>2. ASSUME records[i] # None
      PROVE  /\ Page(i) = [held |-> Holders(i, window[i]),
                           late |-> Cardinality(Crossings(i, window[i])),
                           bgn |-> records[i].bgn]
             /\ Page(i) \in [held : SUBSET Requests, late : Nat, bgn : Nat]
             /\ Page(i) # None
             /\ Page(i).bgn = records[i].bgn
             /\ Accounts!Balance(Page(i)) = records[i].count
             /\ window[i] \in Nat \ {0}
  <2>1. Page(i) = [held |-> Holders(i, window[i]),
                   late |-> Cardinality(Crossings(i, window[i])), bgn |-> records[i].bgn]
    BY <1>2 DEF Page
  <2>2. Crossings(i, window[i]) \in SUBSET Requests /\ Holders(i, window[i]) \in SUBSET Requests
    BY DEF Crossings, Holders
  <2>3. Cardinality(Crossings(i, window[i])) \in Nat
    BY <2>2, FiniteRequests
  <2>4. records[i].bgn \in Nat
    BY <1>2, LimiterAssumption DEF IndInv, TypeOK, Record
  <2>5. Page(i) \in [held : SUBSET Requests, late : Nat, bgn : Nat]
    BY <2>1, <2>2, <2>3, <2>4
  <2>6. i \in Known
    BY <1>2 DEF Known
  <2>7. records[i].count = Cardinality(Holders(i, window[i]))
                             - Cardinality(Crossings(i, window[i]))
    BY <2>6 DEF IndInv, ChargesAccounted
  <2>8. Accounts!Balance(Page(i)) = records[i].count
    <3>1. /\ Page(i).held = Holders(i, window[i])
          /\ Page(i).late = Cardinality(Crossings(i, window[i]))
      BY <2>1
    <3> QED
      BY <2>7, <3>1, SameCount DEF Accounts!Balance
  <2>9. window[i] \in Nat \ {0}
    BY <2>6 DEF IndInv, TypeOK, RecordsInv
  <2> QED
    BY <2>1, <2>5, <2>8, <2>9, LimiterAssumption
<1> QED
  BY <1>1, <1>2

(* A page stays when its window and its requests do.                        *)
LEMMA PageStays ==
  ASSUME IndInv, NEW i \in Ips, records'[i] = records[i], window'[i] = window[i],
         \A w \in Nat \ {0} : /\ Holders(i, w)' = Holders(i, w)
                              /\ Crossings(i, w)' = Crossings(i, w)
  PROVE  Page(i)' = Page(i)
<1>1. CASE records[i] = None
  BY <1>1 DEF Page
<1>2. CASE records[i] # None
  <2>1. window[i] \in Nat \ {0}
    BY <1>2, PageOf
  <2> QED
    BY <2>1 DEF Page
<1> QED
  BY <1>1, <1>2

(* What a purge or a cleanup with an old reading of the clock throws away   *)
(* are pages of windows that are over.                                     *)
LEMMA DroppedPages ==
  ASSUME IndInv, NEW t \in Int, t <= clock, NEW table,
         \A i \in Ips : \/ table[i] = records[i]
                        \/ table[i] = None /\ records[i] # None /\ Over(records[i], t)
  PROVE  \E gone \in SUBSET Accounts!Ended :
           \A i \in Ips :
             /\ i \in gone <=> records[i] # None /\ table[i] = None
             /\ Accounts!Without(gone)[i] = IF table[i] = None THEN None ELSE Page(i)
<1> DEFINE gone == {i \in Ips : records[i] # None /\ table[i] = None}
<1>1. ASSUME NEW i \in gone
      PROVE  i \in Accounts!Ended
  <2>1. Over(records[i], t) /\ records[i].bgn \in Int /\ clock \in Int
    BY LimiterAssumption DEF IndInv, TypeOK, Record
  <2>2. clock - records[i].bgn >= Window
    BY <2>1, LimiterAssumption DEF Over
  <2> QED
    BY <2>2, PageOf DEF Accounts!Ended
<1>2. \A i \in Ips : Accounts!Without(gone)[i] = IF i \in gone THEN None ELSE Page(i)
  BY DEF Accounts!Without
<1>3. \A i \in Ips : table[i] = None /\ i \notin gone => Page(i) = None
  BY PageOf
<1>4. gone \in SUBSET Accounts!Ended
  BY <1>1
<1> QED
  BY <1>2, <1>3, <1>4

(* Arrivals and answers leave the book alone.                               *)
LEMMA QuietLeavesBook ==
  ASSUME IndInv, NEW r \in Requests, Arrive(r) \/ Succeed(r) \/ Panic(r) \/ Fail(r)
  PROVE  Accounts!Arrive(r) \/ Accounts!Answer(r)
<1>1. \A s \in Requests \ {r} : pc'[s] = pc[s] /\ ip'[s] = ip[s]
  BY DEF IndInv, TypeOK, Arrive, Succeed, Panic, Fail, Goto
<1>2. UNCHANGED <<clock, records, window, charged, crossed>>
  BY DEF Arrive, Succeed, Panic, Fail, historyVars
<1>3. \A i \in Ips, w \in Nat \ {0} : /\ Holders(i, w)' = Holders(i, w)
                                      /\ Crossings(i, w)' = Crossings(i, w)
  <2>1. CASE Arrive(r)
    <3>1. charged[r] = 0 /\ crossed[r] = 0
      BY <2>1 DEF Arrive, IndInv, RequestsInv, RequestOK
    <3> QED BY <1>1, <1>2, <3>1 DEF Holders, Crossings
  <2>2. CASE Succeed(r) \/ Panic(r) \/ Fail(r)
    <3>1. ip' = ip /\ pc[r] = "handling" /\ pc'[r] \in {"ok", "panicked", "refund"}
      BY <2>2 DEF IndInv, TypeOK, Succeed, Panic, Fail, Goto
    <3> QED BY <1>1, <1>2, <3>1 DEF Holders, Crossings
  <2> QED BY <2>1, <2>2
<1>4. \A i \in Ips : Page(i)' = Page(i)
  BY <1>2, <1>3, PageStays
<1>5. Book' = Book
  BY <1>4 DEF Book
<1>6. CASE Arrive(r)
  BY <1>5, <1>6 DEF Arrive, Goto, Accounts!Arrive, Accounts!Goto, Book
<1>7. CASE Succeed(r) \/ Panic(r) \/ Fail(r)
  BY <1>5, <1>7 DEF Succeed, Panic, Fail, Goto, Accounts!Answer, Accounts!Goto, Book
<1> QED
  BY <1>6, <1>7

(* A cleanup throws pages away.                                             *)
LEMMA SweepDropsPages ==
  ASSUME IndInv, Sweep
  PROVE  Accounts!Sweep
<1>1. sweep \in Int /\ sweep <= clock
  BY LimiterAssumption DEF Sweep, IndInv, RecordsInv, TypeOK
<1>2. UNCHANGED <<clock, pc, ip, window, charged, crossed>> /\ records' = Swept(sweep)
  BY DEF Sweep, requestVars, historyVars
<1>3. \A i \in Ips : \/ records'[i] = records[i]
                     \/ /\ records'[i] = None /\ records[i] # None
                        /\ Over(records[i], sweep)
  BY <1>2, SweptTable
<1>4. PICK gone \in SUBSET Accounts!Ended :
        \A i \in Ips :
          Accounts!Without(gone)[i] = IF records'[i] = None THEN None ELSE Page(i)
  BY <1>1, <1>3, DroppedPages
<1>5. ASSUME NEW i \in Ips
      PROVE  Page(i)' = Accounts!Without(gone)[i]
  <2>1. CASE records'[i] = None
    BY <1>4, <2>1 DEF Page
  <2>2. CASE records'[i] # None
    <3>1. \A w : Holders(i, w)' = Holders(i, w) /\ Crossings(i, w)' = Crossings(i, w)
      BY <1>2 DEF Holders, Crossings
    <3>2. Page(i)' = Page(i)
      BY <1>2, <1>3, <2>2, <3>1, PageStays
    <3> QED
      BY <1>4, <2>2, <3>2
  <2> QED
    BY <2>1, <2>2
<1>6. Book' = Accounts!Without(gone)
  BY <1>5 DEF Book, Accounts!Without
<1> QED
  BY <1>2, <1>6 DEF Accounts!Sweep, Book

(* Allow lets in and denies whom the book would.                            *)
LEMMA AllowAsBook ==
  ASSUME IndInv, NEW r \in Requests, Allow(r)
  PROVE  Accounts!Allow(r)
<1>0. ip[r] \in Ips
  BY DEF Allow, IndInv, RequestsInv, RequestOK, TypeOK
<1> PICK i \in Ips : i = ip[r]
  BY <1>0
<1>1. PICK table \in [Ips -> Record \cup {None}] :
        /\ \A j \in Ips :
             \/ table[j] = records[j]
             \/ table[j] = None /\ records[j] # None /\ Over(records[j], now[r])
        /\ i \in Ips
        /\ \/ /\ table[i] = None \/ Over(table[i], now[r])
              /\ BeginWindow(r, i, table)
           \/ /\ table[i] # None /\ ~Over(table[i], now[r])
              /\ CountRequest(r, i, table)
           \/ /\ table[i] # None /\ ~Over(table[i], now[r])
              /\ Deny(r, i, table)
  BY TableOfAllow DEF IndInv
<1>2. /\ UNCHANGED <<clock, ip, crossed>> /\ pc[r] = "allow" /\ charged[r] = 0
      /\ now[r] \in Nat /\ now[r] <= clock /\ clock \in Nat
  BY LimiterAssumption DEF Allow, IndInv, RequestsInv, RequestOK, TypeOK
<1>3. \A j \in Ips : window[j] \in Nat
  BY DEF IndInv, TypeOK
<1>4. \A j, w : Crossings(j, w)' = Crossings(j, w) /\ r \notin Holders(j, w)
  BY <1>2 DEF Crossings, Holders
<1>5. i \in Ips
  BY <1>1
<1>6. PICK gone \in SUBSET Accounts!Ended :
        \A j \in Ips :
          /\ j \in gone <=> records[j] # None /\ table[j] = None
          /\ Accounts!Without(gone)[j] = IF table[j] = None THEN None ELSE Page(j)
  BY <1>1, <1>2, DroppedPages
<1>7. ASSUME NEW j \in Ips, j # i, records'[j] = table[j], window'[j] = window[j],
             \A s \in Requests \ {r} : pc'[s] = pc[s] /\ charged'[s] = charged[s]
      PROVE  Page(j)' = Accounts!Without(gone)[j]
  <2>1. CASE table[j] = None
    BY <1>6, <1>7, <2>1 DEF Page
  <2>2. CASE table[j] # None
    <3>1. \A w : Holders(j, w)' = Holders(j, w)
      BY <1>2, <1>7 DEF Holders
    <3>2. Page(j)' = Page(j)
      BY <1>1, <1>4, <1>7, <2>2, <3>1, PageStays
    <3> QED
      BY <1>6, <2>2, <3>2
  <2> QED
    BY <2>1, <2>2
<1>8. CASE BeginWindow(r, i, table) /\ (table[i] = None \/ Over(table[i], now[r]))
  <2> PICK n \in Nat : n = window[i] + 1
    BY <1>3
  <2> DEFINE page == [held |-> {r}, late |-> 0, bgn |-> now[r]]
             over == gone \cup (IF records[i] # None THEN {i} ELSE {})
  <2>1. /\ records'[i] = [count |-> 1, bgn |-> now[r]]
        /\ window'[i] = n /\ charged'[r] = n /\ pc'[r] = "handling"
        /\ \A j \in Ips \ {i} : records'[j] = table[j] /\ window'[j] = window[j]
        /\ \A s \in Requests \ {r} : pc'[s] = pc[s] /\ charged'[s] = charged[s]
    BY <1>5, <1>8 DEF BeginWindow, Goto, IndInv, TypeOK
  <2>2. Holders(i, n)' = {r}
    <3>1. \A s \in Requests : ip[s] = i => charged[s] <= window[i] /\ charged[s] \in Nat
      BY <1>5 DEF IndInv, RequestsInv, RequestOK, TypeOK
    <3>2. \A s \in Requests \ {r} : ip[s] = i => charged'[s] # n
      BY <1>3, <1>5, <2>1, <3>1
    <3> QED
      BY <1>2, <2>1, <3>2 DEF Holders
  <2>3. Crossings(i, n)' = {}
    <3>1. \A s \in Requests : ip[s] = i => crossed[s] <= window[i] /\ crossed[s] \in Nat
      BY <1>5 DEF IndInv, RequestsInv, RequestOK, TypeOK
    <3> QED
      BY <1>2, <1>3, <1>5, <3>1 DEF Crossings
  <2>4. records'[i] # None /\ records'[i].bgn = now[r]
    BY <1>2, <2>1, LimiterAssumption
  <2>5. Page(i)' = page
    BY <2>1, <2>2, <2>3, <2>4, FS_EmptySet DEF Page
  <2>6. over \in SUBSET Accounts!Ended
    <3>1. ASSUME records[i] # None, i \notin gone
          PROVE  i \in Accounts!Ended
      <4>1. Over(records[i], now[r]) /\ records[i].bgn \in Nat
        BY <1>1, <1>5, <1>6, <1>8, <3>1, LimiterAssumption DEF IndInv, TypeOK, Record
      <4>2. clock - records[i].bgn >= Window
        BY <1>2, <4>1, LimiterAssumption DEF Over
      <4> QED
        BY <1>5, <3>1, <4>2, PageOf DEF Accounts!Ended
    <3> QED
      BY <3>1
  <2> HIDE DEF page, over
  <2>7. Accounts!Without(over)[i] = None
    BY <1>5, PageOf DEF Accounts!Without, over
  <2>8. \A j \in Ips \ {i} : Accounts!Without(over)[j] = Accounts!Without(gone)[j]
    BY DEF Accounts!Without, over
  <2>9. \A j \in Ips : Book'[j] = [Accounts!Without(over) EXCEPT ![i] = page][j]
    BY <1>5, <1>7, <2>1, <2>5, <2>8 DEF Book, Accounts!Without
  <2>10. Book' = [Accounts!Without(over) EXCEPT ![i] = page]
    BY <2>9 DEF Book, Accounts!Without
  <2>11. now[r] \in 0..clock
    BY <1>2
  <2>12. pc' = [pc EXCEPT ![r] = "handling"]
    BY <1>8 DEF BeginWindow, Goto
  <2>13. Accounts!ChargeFirst(r)
    BY <2>6, <2>7, <2>10, <2>11, <2>12 DEF Accounts!ChargeFirst, Accounts!Goto, Book, page
  <2> QED
    BY <1>2, <2>13 DEF Accounts!Allow
<1>9. CASE CountRequest(r, i, table) /\ table[i] # None
  <2>1. records[i] = table[i] /\ records[i] # None /\ records[i] \in Record
    BY <1>1, <1>5, <1>9
  <2>2. /\ records'[i] = [records[i] EXCEPT !.count = @ + 1]
        /\ window' = window /\ charged'[r] = window[i] /\ pc'[r] = "handling"
        /\ \A j \in Ips \ {i} : records'[j] = table[j]
        /\ \A s \in Requests \ {r} : pc'[s] = pc[s] /\ charged'[s] = charged[s]
    BY <1>5, <1>9, <2>1 DEF CountRequest, Goto, IndInv, TypeOK
  <2>3. records'[i] # None /\ records'[i].bgn = records[i].bgn
    <3>1. records'[i] \in [count : Nat, bgn : Nat] /\ records'[i].bgn = records[i].bgn
      BY <2>1, <2>2, LimiterAssumption DEF Record
    <3> QED
      BY <3>1, LimiterAssumption
  <2>4. Holders(i, window[i])' = Holders(i, window[i]) \cup {r}
    BY <1>2, <2>2 DEF Holders
  <2>5. Page(i) = [held |-> Holders(i, window[i]),
                   late |-> Cardinality(Crossings(i, window[i])), bgn |-> records[i].bgn]
    BY <1>5, <2>1, PageOf
  <2>6. Page(i)' = [held |-> Holders(i, window[i]) \cup {r},
                    late |-> Cardinality(Crossings(i, window[i])), bgn |-> records[i].bgn]
    BY <1>4, <2>2, <2>3, <2>4 DEF Page
  <2>7. Page(i)' = [Page(i) EXCEPT !.held = @ \cup {r}]
    BY <2>5, <2>6
  <2>8. Accounts!Balance(Page(i)) < Limit /\ Page(i) # None
    BY <1>5, <1>9, <2>1, PageOf DEF CountRequest
  <2>9. Accounts!Without(gone)[i] = Page(i)
    BY <1>5, <1>6, <1>9
  <2>10. \A j \in Ips : Book'[j] = [Accounts!Without(gone) EXCEPT ![i].held = @ \cup {r}][j]
    BY <1>5, <1>7, <2>2, <2>7, <2>9 DEF Book, Accounts!Without
  <2>11. Book' = [Accounts!Without(gone) EXCEPT ![i].held = @ \cup {r}]
    BY <2>10 DEF Book, Accounts!Without
  <2>12. pc' = [pc EXCEPT ![r] = "handling"]
    BY <1>9 DEF CountRequest, Goto
  <2>13. Book[i] = Page(i)
    BY <1>5 DEF Book
  <2>14. Accounts!ChargeAnother(r)
    BY <2>8, <2>9, <2>11, <2>12, <2>13 DEF Accounts!ChargeAnother, Accounts!Goto, Book
  <2> QED
    BY <1>2, <2>14 DEF Accounts!Allow
<1>10. CASE Deny(r, i, table) /\ table[i] # None
  <2>1. records[i] = table[i] /\ records[i] # None
    BY <1>1, <1>5, <1>10
  <2>2. /\ records' = table /\ window' = window /\ charged' = charged
        /\ pc' = [pc EXCEPT ![r] = "denied"]
        /\ \A s \in Requests \ {r} : pc'[s] = pc[s]
        /\ pc'[r] = "denied"
    BY <1>10 DEF Deny, Goto, IndInv, TypeOK
  <2>3. \A j, w : Holders(j, w)' = Holders(j, w)
    BY <1>2, <2>2 DEF Holders
  <2>4. Page(i)' = Page(i)
    BY <1>4, <1>5, <2>1, <2>2, <2>3, PageStays
  <2>5. Accounts!Balance(Page(i)) >= Limit /\ Page(i) # None
    BY <1>5, <1>10, <2>1, PageOf DEF Deny
  <2>6. Accounts!Without(gone)[i] = Page(i)
    BY <1>5, <1>6, <1>10
  <2>7. \A j \in Ips : Book'[j] = Accounts!Without(gone)[j]
    BY <1>7, <2>2, <2>4, <2>6 DEF Book
  <2>8. Book' = Accounts!Without(gone)
    BY <2>7 DEF Book, Accounts!Without
  <2>9. Book[i] = Page(i)
    BY <1>5 DEF Book
  <2>10. Accounts!Deny(r)
    BY <2>2, <2>5, <2>6, <2>8, <2>9 DEF Accounts!Deny, Accounts!Goto, Book
  <2> QED
    BY <1>2, <2>10 DEF Accounts!Allow
<1> QED
  BY <1>1, <1>8, <1>9, <1>10

(* A refund takes off the page what the counter is counted down by.         *)
LEMMA RollbackAsBook ==
  ASSUME IndInv, NEW r \in Requests, Rollback(r)
  PROVE  Accounts!Refund(r)
<1>0. ip[r] \in Ips
  BY DEF Rollback, IndInv, RequestsInv, RequestOK, TypeOK
<1> PICK i \in Ips : i = ip[r]
  BY <1>0
<1>1. /\ UNCHANGED <<clock, ip, window, charged>> /\ pc[r] = "refund"
      /\ pc' = [pc EXCEPT ![r] = "refunded"] /\ pc'[r] = "refunded"
      /\ i \in Ips /\ crossed[r] = 0 /\ now[r] \in Nat /\ now[r] <= clock /\ clock \in Nat
      /\ \A s \in Requests \ {r} : pc'[s] = pc[s]
  BY LimiterAssumption DEF Rollback, Goto, IndInv, RequestsInv, RequestOK, TypeOK
<1>2. \A s \in Requests \ {r} : crossed'[s] = crossed[s]
  BY DEF Rollback, IndInv, TypeOK
<1>3. ASSUME NEW j \in Ips, j # i, records'[j] = records[j]
      PROVE  Page(j)' = Page(j)
  <2>1. \A w : Holders(j, w)' = Holders(j, w) /\ Crossings(j, w)' = Crossings(j, w)
    BY <1>1, <1>2, <1>3 DEF Holders, Crossings
  <2> QED
    BY <1>1, <1>3, <2>1, PageStays
<1>4. CASE records[i] = None /\ UNCHANGED <<records, crossed>>
  <2>1. Page(i)' = None /\ Page(i) = None
    BY <1>4 DEF Page
  <2>2. \A j \in Ips : Page(j)' = Page(j)
    BY <1>3, <1>4, <2>1
  <2>3. Book' = Book /\ Book[i] = None
    BY <1>1, <2>1, <2>2 DEF Book
  <2> QED
    BY <1>1, <2>3 DEF Accounts!Refund, Accounts!Goto, Book
<1>5. CASE /\ records[i] # None /\ Over(records[i], now[r])
           /\ records' = [records EXCEPT ![i] = None]
  <2>1. Page(i)' = None
    BY <1>1, <1>5 DEF Page, IndInv, TypeOK
  <2>2. i \in Accounts!Ended
    <3>1. records[i].bgn \in Nat
      BY <1>1, <1>5, LimiterAssumption DEF IndInv, TypeOK, Record
    <3>2. clock - records[i].bgn >= Window
      BY <1>1, <1>5, <3>1, LimiterAssumption DEF Over
    <3> QED
      BY <1>1, <1>5, <3>2, PageOf DEF Accounts!Ended
  <2>3. \A j \in Ips : j # i => records'[j] = records[j]
    BY <1>5 DEF IndInv, TypeOK
  <2>4. Book' = Accounts!Without({i})
    BY <1>3, <2>1, <2>3 DEF Book, Accounts!Without
  <2> QED
    BY <1>1, <2>2, <2>4 DEF Accounts!Refund, Accounts!Goto, Book
<1>6. CASE /\ records[i] # None /\ records' = TakeOneOff(i)
           /\ crossed' = IF charged[r] = window[i] THEN crossed
                         ELSE [crossed EXCEPT ![r] = window[i]]
  <2> DEFINE H == Holders(i, window[i])
             C == Crossings(i, window[i])
             page == Accounts!Refunded(Page(i), r)
  <2>1. /\ records[i] \in Record /\ records[i].count \in 1..Limit /\ window[i] \in Nat \ {0}
        /\ Page(i) = [held |-> H, late |-> Cardinality(C), bgn |-> records[i].bgn]
        /\ Accounts!Balance(Page(i)) = records[i].count
        /\ Page(i) # None
    BY <1>1, <1>6, PageOf, LimiterAssumption DEF IndInv, TypeOK, Record
  <2>2. r \in H <=> charged[r] = window[i]
    BY <1>1 DEF Holders
  <2>3. Holders(i, window[i])' = H \ {r}
    BY <1>1 DEF Holders
  <2>4. /\ H \in SUBSET Requests /\ C \in SUBSET Requests /\ r \notin C
        /\ Cardinality(H) \in Nat /\ Cardinality(C) \in Nat
    <3>1. H \in SUBSET Requests /\ C \in SUBSET Requests
      BY DEF Holders, Crossings
    <3> QED
      BY <1>1, <2>1, <3>1, FiniteRequests DEF Crossings
  <2>5. Crossings(i, window[i])' = IF charged[r] = window[i] THEN C ELSE C \cup {r}
    <3>1. crossed'[r] = IF charged[r] = window[i] THEN 0 ELSE window[i]
      BY <1>1, <1>6 DEF IndInv, TypeOK
    <3> QED
      BY <1>1, <1>2, <2>1, <3>1 DEF Crossings
  <2>6. Cardinality(Crossings(i, window[i])') =
          IF charged[r] = window[i] THEN Cardinality(C) ELSE Cardinality(C) + 1
    BY <2>4, <2>5, OneMore
  <2>7. Cardinality(H \ {r}) = IF charged[r] = window[i] THEN Cardinality(H) - 1
                               ELSE Cardinality(H)
    <3>1. CASE r \in H
      BY <2>2, <2>4, <3>1, OneLess
    <3>2. CASE r \notin H
      <4>1. H \ {r} = H
        BY <3>2
      <4> QED
        BY <2>2, <3>2, <4>1
    <3> QED
      BY <3>1, <3>2
  <2>8. page = [held |-> Holders(i, window[i])', late |-> Cardinality(Crossings(i, window[i])'),
                bgn |-> records[i].bgn]
    <3>1. Page(i).held = H
      BY <2>1
    <3>0. Page(i) = [held |-> H, late |-> Cardinality(C), bgn |-> records[i].bgn]
      BY <2>1
    <3>2. CASE charged[r] = window[i]
      <4>1. page = [Page(i) EXCEPT !.held = @ \ {r}]
        BY <2>2, <3>1, <3>2 DEF Accounts!Refunded
      <4> HIDE DEF page, H, C
      <4>2. page = [held |-> H \ {r}, late |-> Cardinality(C), bgn |-> records[i].bgn]
        BY <3>0, <4>1
      <4>3. Cardinality(Crossings(i, window[i])') = Cardinality(C)
        BY <2>6, <3>2
      <4> QED
        BY <2>3, <4>2, <4>3
    <3>3. CASE charged[r] # window[i]
      <4>1. page = [Page(i) EXCEPT !.late = @ + 1] /\ H \ {r} = H
        BY <2>2, <3>1, <3>3 DEF Accounts!Refunded
      <4> HIDE DEF page, H, C
      <4>2. page = [held |-> H, late |-> Cardinality(C) + 1, bgn |-> records[i].bgn]
        BY <3>0, <4>1
      <4>3. Cardinality(Crossings(i, window[i])') = Cardinality(C) + 1
        BY <2>6, <3>3
      <4> QED
        BY <2>3, <4>1, <4>2, <4>3
    <3> QED
      BY <3>2, <3>3
  <2>9. Accounts!Balance(page) = records[i].count - 1
    <3>1. Accounts!Balance(Page(i)) = Cardinality(H) - Cardinality(C)
      <4>1. Page(i).held = H /\ Page(i).late = Cardinality(C)
        BY <2>1
      <4> QED
        BY <4>1, SameCount DEF Accounts!Balance
    <3>2. Accounts!Balance(page) = Cardinality(H \ {r}) - Cardinality(Crossings(i, window[i])')
      <4>1. /\ page.held = Holders(i, window[i])'
            /\ page.late = Cardinality(Crossings(i, window[i])')
        BY <2>8
      <4> HIDE DEF page, H
      <4> QED
        BY <2>3, <4>1, SameCount DEF Accounts!Balance
    <3> HIDE DEF page, H, C
    <3> QED
      BY <2>1, <2>4, <2>6, <2>7, <3>1, <3>2
  <2>10. Page(i)' = IF Accounts!Balance(page) = 0 THEN None ELSE page
    <3>1. CASE records[i].count <= 1
      <4>1. records'[i] = None /\ records[i].count = 1
        BY <1>1, <1>6, <2>1, <3>1 DEF TakeOneOff, IndInv, TypeOK
      <4> HIDE DEF page
      <4> QED
        BY <2>9, <4>1 DEF Page
    <3>2. CASE records[i].count > 1
      <4>1. records'[i] = [records[i] EXCEPT !.count = @ - 1]
        BY <1>1, <1>6, <2>1, <3>2 DEF TakeOneOff, IndInv, TypeOK
      <4>2. records'[i] \in [count : Nat, bgn : Nat] /\ records'[i].bgn = records[i].bgn
        BY <2>1, <3>2, <4>1, LimiterAssumption DEF Record
      <4>3. records'[i] # None
        BY <4>2, LimiterAssumption
      <4>4. window'[i] = window[i] /\ ip' = ip
        BY <1>1
      <4>5. Page(i)' = [held |-> Holders(i, window[i])',
                        late |-> Cardinality(Crossings(i, window[i])'),
                        bgn |-> records[i].bgn]
        BY <4>2, <4>3, <4>4 DEF Page
      <4> HIDE DEF page
      <4> QED
        BY <2>1, <2>8, <2>9, <3>2, <4>5
    <3> QED
      BY <2>1, <3>1, <3>2
  <2>11. \A j \in Ips : j # i => records'[j] = records[j]
    BY <1>6 DEF TakeOneOff, IndInv, TypeOK
  <2> HIDE DEF page
  <2>12. Book' = [Book EXCEPT ![i] = IF Accounts!Balance(page) = 0 THEN None ELSE page]
    BY <1>3, <2>10, <2>11 DEF Book
  <2>13. Book[i] = Page(i)
    BY <1>1 DEF Book
  <2> QED
    BY <1>1, <2>1, <2>12, <2>13 DEF Accounts!Refund, Accounts!Goto, Book, page
<1> QED
  BY <1>4, <1>5, <1>6 DEF Rollback

(* No request, no page.                                                     *)
LEMMA InitAsBook == Init => Accounts!Init
  BY DEF Init, Accounts!Init, Page

(* Every step of the limiter is one of the ledger, or does not show in it.  *)
LEMMA NextAsBook == IndInv /\ [Next]_vars => [Accounts!Next]_(Accounts!vars)
<1> SUFFICES ASSUME IndInv, [Next]_vars
             PROVE  Accounts!Next \/ UNCHANGED Accounts!vars
  OBVIOUS
<1>1. ASSUME StartSweep \/ Tick \/ UNCHANGED vars
      PROVE  Book' = Book /\ UNCHANGED <<pc, ip>>
  BY <1>1 DEF StartSweep, Tick, vars, requestVars, historyVars, Book, Page, Holders, Crossings
<1>2. ASSUME StartSweep \/ UNCHANGED vars
      PROVE  UNCHANGED Accounts!vars
  BY <1>1, <1>2 DEF StartSweep, vars, Accounts!vars, Book
<1>3. ASSUME Tick
      PROVE  Accounts!Tick
  BY <1>1, <1>3 DEF Tick, Accounts!Tick, Book
<1> QED
  BY <1>2, <1>3, QuietLeavesBook, SweepDropsPages, AllowAsBook, RollbackAsBook
  DEF Next, Accounts!Next

(* The limiter implements the ledger: a counter for an address, that is     *)
(* forgotten when it is zero or its window is over, decides like a list of *)
(* all who hold a charge.                                                  *)
THEOREM Implements == Spec => ImplementsLedger
  BY InitAsBook, NextAsBook, Inductive, PTL DEF Spec, ImplementsLedger, Accounts!Spec
=============================================================================
