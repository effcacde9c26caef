-------------------------- MODULE MemoryCacheProofs --------------------------
(* Proofs about MemoryCache, for any finite set of dates and any limits:    *)
(* the invariants, what a step may do to an entry, and that the cache       *)
(* implements the contract of Cache.                                       *)
EXTENDS MemoryCache, FiniteSetTheorems, TLAPS

IndInv == TypeOK /\ SizeBounded

-----------------------------------------------------------------------------
(* Arithmetic of evictLocked: whatever the percentage, what is left fits,   *)
(* and nothing goes from a table that fits.                                *)
LEMMA RemoveCountSuffices ==
  ASSUME NEW n \in Nat
  PROVE  /\ RemoveCount(n) \in 0..n
         /\ n - RemoveCount(n) <= MaxItems
         /\ n <= MaxItems => RemoveCount(n) = 0
<1> DEFINE percent == (MaxItems * EvictPct) \div 100
           batch   == IF percent < 1 THEN 1 ELSE percent
<1>1. MaxItems * EvictPct \in Nat
  BY MemoryAssumption
<1>2. percent \in Int
  BY <1>1
<1>3. batch \in Int /\ batch >= 1
  BY <1>2
<1>4. RemoveCount(n) =
        LET overflow == n - MaxItems
            count    == IF overflow < batch THEN batch ELSE overflow
        IN  IF n <= MaxItems THEN 0 ELSE IF count > n THEN n ELSE count
  BY DEF RemoveCount
<1> QED
  <2> HIDE DEF batch
  <2> QED
    BY <1>3, <1>4, MemoryAssumption

(* At least one entry is left.                                              *)
LEMMA RemoveCountLeavesOne ==
  ASSUME NEW n \in Nat, n > MaxItems
  PROVE  RemoveCount(n) < n
<1> DEFINE percent == (MaxItems * EvictPct) \div 100
           batch   == IF percent < 1 THEN 1 ELSE percent
<1>1. MaxItems \in Nat /\ MaxItems >= 1 /\ EvictPct \in 0..100
  BY MemoryAssumption
<1>2. MaxItems * EvictPct \in Nat /\ MaxItems * EvictPct <= 100 * MaxItems
  BY <1>1
<1>3. percent \in Int /\ percent <= MaxItems
  BY <1>1, <1>2
<1>4. batch \in Int /\ batch <= MaxItems
  BY <1>1, <1>3
<1>5. RemoveCount(n) =
        LET overflow == n - MaxItems
            count    == IF overflow < batch THEN batch ELSE overflow
        IN  IF n <= MaxItems THEN 0 ELSE IF count > n THEN n ELSE count
  BY DEF RemoveCount
<1> QED
  <2> HIDE DEF batch
  <2> QED
    BY <1>1, <1>4, <1>5

(* Every set of keys is finite.                                             *)
LEMMA FiniteKeys ==
  ASSUME NEW S \in SUBSET Keys
  PROVE  IsFiniteSet(S) /\ Cardinality(S) \in Nat
  BY MemoryAssumption, FS_Subset, FS_CardinalityType

(* A part of a set of keys is no larger.                                    *)
LEMMA PartIsSmaller ==
  ASSUME NEW S \in SUBSET Keys, NEW T \in SUBSET S
  PROVE  Cardinality(T) <= Cardinality(S)
  BY FiniteKeys, FS_Subset

(* What Without leaves.                                                     *)
LEMMA HeldWithout ==
  ASSUME NEW table, NEW gone
  PROVE  Held(Without(table, gone)) = Held(table) \ gone
  BY DEF Held, Without

(* It is a table.                                                           *)
LEMMA WithoutType ==
  ASSUME NEW table \in [Keys -> Item \cup {None}], NEW gone
  PROVE  Without(table, gone) \in [Keys -> Item \cup {None}]
  BY DEF Without

(* What evictLocked leaves fits, and it takes nothing from what fits.       *)
LEMMA EvictionFits ==
  ASSUME NEW table, NEW gone \in Victims(table)
  PROVE  /\ Cardinality(Held(Without(table, gone))) <= MaxItems
         /\ Cardinality(Held(table)) <= MaxItems => gone = {}
<1>1. Held(table) \subseteq Keys /\ gone \subseteq Held(table)
  BY DEF Held, Victims
<1>2. /\ IsFiniteSet(Held(table)) /\ Cardinality(Held(table)) \in Nat
      /\ IsFiniteSet(gone) /\ Cardinality(gone) \in Nat
  BY <1>1, FiniteKeys
<1>3. Cardinality(gone) = RemoveCount(Cardinality(Held(table)))
  BY DEF Victims
<1>4. Cardinality(Held(table) \ gone) = Cardinality(Held(table)) - Cardinality(gone)
  <2>1. Held(table) \cap gone = gone
    BY <1>1
  <2> QED
    BY <2>1, <1>2, FS_Difference
<1>5. CASE Cardinality(Held(table)) <= MaxItems
  BY <1>2, <1>3, <1>4, <1>5, RemoveCountSuffices, FS_EmptySet, HeldWithout
<1> QED
  BY <1>2, <1>3, <1>4, <1>5, RemoveCountSuffices, HeldWithout
-----------------------------------------------------------------------------
(* Set files an item that is used now.                                      *)
LEMMA NewItemType ==
  ASSUME TypeOK, NEW k \in Keys, NEW v \in Values
  PROVE  NewItem(k, v) \in Item /\ NewItem(k, v).used = clock /\ NewItem(k, v).val = v
  BY MemoryAssumption DEF NewItem, Item, TypeOK

(* An item that is touched stays one, with its value.                       *)
LEMMA TouchedType ==
  ASSUME NEW item \in Item, NEW time \in 0..LastTick
  PROVE  LET touched == [item EXCEPT !.used = time]
         IN  touched \in Item /\ touched.used = time /\ touched.val = item.val
  BY DEF Item

(* None is no item.                                                         *)
LEMMA NoneIsNoItem == None \notin Item
  BY MemoryAssumption DEF Item

(* Every entry that is held is an item.                                     *)
LEMMA HeldItems ==
  ASSUME TypeOK, NEW k \in Held(data)
  PROVE  k \in Keys /\ data[k] \in Item /\ data[k].used <= clock
  BY DEF TypeOK, Held

(* Touch leaves the keys and the values of the table as they are.           *)
LEMMA TouchedTable ==
  ASSUME TypeOK, NEW c \in Callers, Touch(c)
  PROVE  /\ data' \in [Keys -> Item \cup {None}]
         /\ Held(data') = Held(data)
         /\ \A k \in Held(data) : data'[k].used <= clock /\ data'[k].val = data[k].val
<1>1. now[c] \in 0..LastTick /\ now[c] <= clock /\ key[c] \in Keys
  BY DEF Touch, TypeOK
<1>2. CASE data[key[c]] = None
  BY <1>2, HeldItems DEF Touch, TypeOK
<1>3. CASE data[key[c]] # None
  <2>1. data[key[c]] \in Item
    BY <1>1, <1>3 DEF TypeOK
  <2> DEFINE touched == [data[key[c]] EXCEPT !.used = now[c]]
  <2>2. touched \in Item /\ touched.used = now[c] /\ touched.val = data[key[c]].val
    BY <1>1, <2>1, TouchedType
  <2>3. data' = [data EXCEPT ![key[c]] = touched]
    BY <1>3 DEF Touch
  <2> HIDE DEF touched
  <2>4. data' \in [Keys -> Item \cup {None}]
    BY <2>2, <2>3 DEF TypeOK
  <2>5. \A k \in Keys : data'[k] = IF k = key[c] THEN touched ELSE data[k]
    BY <2>3, <1>1 DEF TypeOK
  <2>6. Held(data') = Held(data)
    BY <1>3, <2>2, <2>5, NoneIsNoItem DEF Held
  <2> QED
    BY <1>1, <2>2, <2>4, <2>5, <2>6, HeldItems
<1> QED
  BY <1>2, <1>3

(* Set, with the table before the eviction.                                 *)
LEMMA SetTable ==
  ASSUME TypeOK, NEW k \in Keys, NEW v \in Values, Set(k, v)
  PROVE  \E table \in [Keys -> Item \cup {None}], gone \in SUBSET Keys :
           /\ table = [data EXCEPT ![k] = NewItem(k, v)]
           /\ table[k] = NewItem(k, v)
           /\ \A j \in Keys \ {k} : table[j] = data[j]
           /\ Held(table) = Held(data) \cup {k}
           /\ gone \in Victims(table)
           /\ data' = Without(table, gone)
<1> DEFINE table == [data EXCEPT ![k] = NewItem(k, v)]
<1>1. table \in [Keys -> Item \cup {None}]
  BY NewItemType DEF TypeOK
<1>2. \A j \in Keys : table[j] = IF j = k THEN NewItem(k, v) ELSE data[j]
  BY DEF TypeOK
<1>3. Held(table) = Held(data) \cup {k}
  BY <1>2, NewItemType, NoneIsNoItem DEF Held
<1>4. PICK gone \in Victims(table) : data' = Without(table, gone)
  BY DEF Set
<1>5. gone \in SUBSET Keys
  BY DEF Victims, Held
<1> HIDE DEF table
<1> QED
  BY <1>1, <1>2, <1>3, <1>4, <1>5 DEF table

(* Cleanup, with the table before the eviction, which takes nothing.        *)
LEMMA CleanupTable ==
  ASSUME IndInv, Cleanup
  PROVE  data' = Without(data, ExpiredKeys(clock))
<1> DEFINE table == Without(data, ExpiredKeys(clock))
<1>1. PICK gone \in Victims(table) : data' = Without(table, gone)
  BY DEF Cleanup
<1>2. Held(table) \in SUBSET Held(data) /\ Held(data) \in SUBSET Keys
  BY HeldWithout DEF Held
<1>3. Cardinality(Held(table)) <= Cardinality(Held(data))
  BY <1>2, PartIsSmaller
<1>4. Cardinality(Held(table)) <= MaxItems
  BY <1>2, <1>3, FiniteKeys, MemoryAssumption DEF IndInv, SizeBounded
<1>5. gone = {}
  BY <1>4, EvictionFits
<1> QED
  BY <1>1, <1>5 DEF Without
-----------------------------------------------------------------------------
(* What any step does to the table: it drops keys, touches items, or is Set *)
(* or Cleanup.                                                             *)
LEMMA DropStep ==
  ASSUME IndInv, NEW gone, data' = Without(data, gone), clock' = clock
  PROVE  /\ data' \in [Keys -> Item \cup {None}]
         /\ \A k \in Held(data)' : data'[k].used <= clock'
         /\ SizeBounded'
<1>1. data' \in [Keys -> Item \cup {None}]
  BY WithoutType DEF IndInv, TypeOK
<1>2. Held(data)' = Held(data) \ gone
  BY HeldWithout DEF Held, Without
<1>3. \A k \in Held(data)' : data'[k] = data[k]
  BY <1>2 DEF Without, Held
<1>4. \A k \in Held(data)' : data'[k].used <= clock'
  BY <1>2, <1>3 DEF IndInv, TypeOK
<1>5. Cardinality(Held(data)') <= MaxItems
  <2>1. Held(data)' \in SUBSET Held(data) /\ Held(data) \in SUBSET Keys
    BY <1>2 DEF Held
  <2>2. Cardinality(Held(data)') <= Cardinality(Held(data))
    BY <2>1, PartIsSmaller
  <2>3. Held(data)' \in SUBSET Keys
    BY <2>1
  <2> QED
    BY <2>1, <2>2, <2>3, FiniteKeys, MemoryAssumption DEF IndInv, SizeBounded
<1> QED
  BY <1>1, <1>4, <1>5 DEF SizeBounded

(* Set keeps the limit.                                                     *)
LEMMA SetStep ==
  ASSUME IndInv, NEW k \in Keys, NEW v \in Values, Set(k, v)
  PROVE  /\ data' \in [Keys -> Item \cup {None}]
         /\ \A j \in Held(data)' : data'[j].used <= clock'
         /\ SizeBounded'
<1>1. PICK table \in [Keys -> Item \cup {None}], gone \in SUBSET Keys :
        /\ table[k] = NewItem(k, v)
        /\ \A j \in Keys \ {k} : table[j] = data[j]
        /\ gone \in Victims(table)
        /\ data' = Without(table, gone)
  BY SetTable DEF IndInv
<1>2. data' \in [Keys -> Item \cup {None}]
  BY <1>1, WithoutType
<1>3. Held(data)' = Held(data')
  BY DEF Held
<1>4. SizeBounded'
  BY <1>1, <1>3, EvictionFits DEF SizeBounded
<1>5. clock' = clock
  BY DEF Set
<1>6. ASSUME NEW j \in Held(data)'
      PROVE  data'[j].used <= clock'
  <2>1. j \in Keys /\ data'[j] = table[j] /\ table[j] # None
    BY <1>1, <1>6 DEF Held, Without
  <2>2. CASE j = k
    BY <1>1, <1>5, <2>1, <2>2, NewItemType DEF IndInv, TypeOK
  <2>3. CASE j # k
    BY <1>1, <1>5, <2>1, <2>3 DEF IndInv, TypeOK, Held
  <2> QED
    BY <2>2, <2>3
<1> QED
  BY <1>2, <1>4, <1>6

(* The table keeps its type and its limit in every step.                    *)
LEMMA TableStep ==
  ASSUME IndInv, [Next]_vars
  PROVE  /\ data' \in [Keys -> Item \cup {None}]
         /\ \A k \in Held(data)' : data'[k].used <= clock'
         /\ SizeBounded'
<1>1. CASE UNCHANGED data /\ clock' \in Nat /\ clock' >= clock
  <2>1. Held(data)' = Held(data) /\ data \in [Keys -> Item \cup {None}]
    BY <1>1 DEF Held, IndInv, TypeOK
  <2>2. ASSUME NEW k \in Held(data)
        PROVE  data'[k].used <= clock'
    <3>1. data[k].used \in Int /\ clock \in Int
      BY HeldItems DEF IndInv, TypeOK, Item
    <3> QED
      BY <1>1, <3>1, HeldItems DEF IndInv
  <2> QED
    BY <1>1, <2>1, <2>2 DEF SizeBounded, IndInv
<1>2. ASSUME NEW c \in Callers, Expire(c)
      PROVE  data' = Without(data, {key[c]} \cap ExpiredKeys(now[c])) /\ clock' = clock
  BY <1>2 DEF Expire
<1>3. ASSUME NEW c \in Callers, GetLast(c)
      PROVE  data' = Without(data, ExpiredKeys(now[c])) /\ clock' = clock
  BY <1>3 DEF GetLast
<1>4. CASE Cleanup
  BY <1>4, CleanupTable, DropStep DEF Cleanup
<1>5. ASSUME NEW c \in Callers, Touch(c)
      PROVE  /\ data' \in [Keys -> Item \cup {None}]
             /\ \A k \in Held(data)' : data'[k].used <= clock'
             /\ SizeBounded'
  <2>1. Held(data)' = Held(data)
    BY <1>5, TouchedTable DEF Held, IndInv
  <2> QED
    BY <1>5, <2>1, TouchedTable DEF Touch, SizeBounded, IndInv
<1>6. ASSUME NEW c \in Callers, BeginGet(c) \/ Read(c) \/ BeginGetLast(c)
      PROVE  UNCHANGED data /\ clock' \in Nat /\ clock' >= clock
  BY <1>6 DEF BeginGet, Read, BeginGetLast, IndInv, TypeOK
<1>7. ASSUME Tick \/ UNCHANGED vars
      PROVE  UNCHANGED data /\ clock' \in Nat /\ clock' >= clock
  BY <1>7 DEF Tick, vars, IndInv, TypeOK
<1> QED
  BY <1>1, <1>2, <1>3, <1>4, <1>5, <1>6, <1>7, DropStep, SetStep DEF Next
-----------------------------------------------------------------------------
(* The callers keep their types, and no clock is read in advance.           *)
CallersTyped ==
  /\ pc \in [Callers -> {"idle", "read", "expire", "touch", "last"}]
  /\ key \in [Callers -> Keys \cup {None}]
  /\ now \in [Callers -> 0..LastTick]
  /\ got \in [Callers -> Values \cup {None}]
  /\ clock \in 0..LastTick
  /\ \A c \in Callers : now[c] <= clock /\ (pc[c] \notin {"idle", "last"} => key[c] \in Keys)

(* Every step of a caller, and of the clock.                                *)
LEMMA CallersStep ==
  ASSUME IndInv, [Next]_vars
  PROVE  CallersTyped'
<1> USE MemoryAssumption DEF IndInv
<1>1. CallersTyped
  BY DEF TypeOK, CallersTyped
<1>2. CASE UNCHANGED <<callVars, got, clock>>
  BY <1>1, <1>2 DEF CallersTyped, callVars
<1>3. ASSUME NEW c \in Callers, Return(c), UNCHANGED <<got, clock>>
      PROVE  CallersTyped'
  BY <1>1, <1>3 DEF CallersTyped, Return
<1>4. ASSUME NEW c \in Callers, BeginGet(c) \/ BeginGetLast(c)
      PROVE  CallersTyped'
  BY <1>1, <1>4 DEF CallersTyped, BeginGet, BeginGetLast
<1>5. ASSUME NEW c \in Callers, Read(c)
      PROVE  CallersTyped'
  <2>1. key[c] \in Keys /\ data[key[c]] \in Item \cup {None}
    BY <1>5 DEF Read, TypeOK
  <2>2. data[key[c]] # None => data[key[c]].val \in Values
    BY <2>1 DEF Item
  <2>3. CASE data[key[c]] = None
    BY <1>1, <1>5, <2>3 DEF CallersTyped, Read, Return
  <2>4. CASE data[key[c]] # None
    BY <1>1, <1>5, <2>1, <2>2, <2>4 DEF CallersTyped, Read
  <2> QED
    BY <2>3, <2>4
<1>6. ASSUME NEW c \in Callers, GetLast(c)
      PROVE  CallersTyped'
  <2>1. PICK v \in Values \cup {None} : got' = [got EXCEPT ![c] = v]
    <3>1. ASSUME NEW k \in Held(data) PROVE data[k].val \in Values
      BY <3>1, HeldItems DEF Item
    <3> QED
      BY <1>6, <3>1 DEF GetLast
  <2>2. Return(c) /\ clock' = clock
    BY <1>6 DEF GetLast
  <2> QED
    BY <1>1, <2>1, <2>2 DEF CallersTyped, Return
<1>7. ASSUME NEW c \in Callers, Expire(c) \/ Touch(c)
      PROVE  Return(c) /\ UNCHANGED <<got, clock>>
  BY <1>7 DEF Expire, Touch
<1>8. CASE Tick
  BY <1>1, <1>8 DEF CallersTyped, Tick, callVars
<1>9. ASSUME \/ Cleanup \/ UNCHANGED vars
             \/ \E k \in Keys, v \in Values : Set(k, v)
      PROVE  UNCHANGED <<callVars, got, clock>>
  BY <1>9 DEF Cleanup, Set, vars
<1> QED
  BY <1>2, <1>3, <1>4, <1>5, <1>6, <1>7, <1>8, <1>9 DEF Next

(* The invariant holds at the start.                                        *)
LEMMA InitInv == Init => IndInv
<1> SUFFICES ASSUME Init PROVE IndInv
  OBVIOUS
<1>1. Held(data) = {}
  BY DEF Init, Held
<1>2. Cardinality(Held(data)) = 0
  BY <1>1, FS_EmptySet
<1>3. SizeBounded
  BY <1>2, MemoryAssumption DEF SizeBounded
<1>4. TypeOK
  <2>1. 0 \in 0..LastTick
    BY MemoryAssumption
  <2> QED
    BY <1>1, <2>1 DEF Init, TypeOK
<1> QED
  BY <1>3, <1>4 DEF IndInv

(* Every step keeps it.                                                     *)
LEMMA NextInv == IndInv /\ [Next]_vars => IndInv'
  BY TableStep, CallersStep DEF IndInv, TypeOK, CallersTyped

(* Types and the limit of the table.                                        *)
THEOREM Inductive == Spec => []IndInv
  BY InitInv, NextInv, PTL DEF Spec

(* Type correctness: lookups know their key and clocks are not ahead.       *)
THEOREM TypeCorrect == Spec => []TypeOK
  BY Inductive, PTL DEF IndInv

(* Set and its evictLocked keep the table within maxItems, without Cleanup. *)
THEOREM SizeKept == Spec => []SizeBounded
  BY Inductive, PTL DEF IndInv

-----------------------------------------------------------------------------
(* An entry found expired with a clock read earlier is expired now.         *)
LEMMA ExpiredStays ==
  ASSUME TypeOK, NEW c \in Callers, NEW k \in ExpiredKeys(now[c])
  PROVE  Expired(data[k], clock)
<1>1. now[c] \in Nat /\ clock \in Nat /\ now[c] <= clock
  BY DEF TypeOK
<1>2. k \in Held(data) /\ Expired(data[k], now[c])
  BY DEF ExpiredKeys
<1>3. data[k].expires \in Nat
  BY <1>2, HeldItems, MemoryAssumption DEF Item
<1> QED
  BY <1>1, <1>2, <1>3 DEF Expired

(* What a step takes from the table.                                        *)
LEMMA KeptStep ==
  ASSUME IndInv, [Next]_vars, NEW k \in Held(data), data'[k] = None
  PROVE  \/ Expired(data[k], clock)
         \/ Cardinality(Held(data)) = MaxItems /\ UNCHANGED callVars
<1> USE DEF IndInv
<1>1. k \in Keys /\ data[k] # None
  BY DEF Held
<1>2. ASSUME NEW c \in Callers, Expire(c) \/ GetLast(c)
      PROVE  Expired(data[k], clock)
  <2>1. k \in ExpiredKeys(now[c])
    BY <1>1, <1>2 DEF Expire, GetLast, Without
  <2> QED
    BY <2>1, ExpiredStays
<1>3. ASSUME NEW c \in Callers, Touch(c)
      PROVE  FALSE
  BY <1>3, TouchedTable DEF Held
<1>4. ASSUME NEW j \in Keys, NEW v \in Values, Set(j, v)
      PROVE  Cardinality(Held(data)) = MaxItems /\ UNCHANGED callVars
  <2>1. PICK table \in [Keys -> Item \cup {None}], gone \in SUBSET Keys :
          /\ Held(table) = Held(data) \cup {j}
          /\ gone \in Victims(table)
          /\ data' = Without(table, gone)
    BY <1>4, SetTable
  <2>2. gone # {}
    BY <1>1, <2>1 DEF Without, Held
  <2>3. Held(data) \in SUBSET Keys /\ Held(table) \in SUBSET Keys
    BY DEF Held
  <2>4. ~(Cardinality(Held(table)) <= MaxItems)
    BY <2>1, <2>2, EvictionFits
  <2>5. Cardinality(Held(table)) <= Cardinality(Held(data)) + 1
    BY <2>1, <2>3, FiniteKeys, FS_AddElement
  <2>6. Cardinality(Held(data)) = MaxItems
    BY <2>3, <2>4, <2>5, FiniteKeys, MemoryAssumption DEF SizeBounded
  <2> QED
    BY <1>4, <2>6 DEF Set
<1>5. CASE Cleanup
  <2>1. k \in ExpiredKeys(clock)
    BY <1>1, <1>5, CleanupTable DEF Without
  <2> QED
    BY <2>1 DEF ExpiredKeys
<1>6. ASSUME \/ Tick \/ UNCHANGED vars
             \/ \E c \in Callers : BeginGet(c) \/ Read(c) \/ BeginGetLast(c)
      PROVE  data' = data
  BY <1>6 DEF Tick, BeginGet, Read, BeginGetLast, vars
<1> QED
  BY <1>1, <1>2, <1>3, <1>4, <1>5, <1>6 DEF Next

(* Get, GetLast and Cleanup drop only what has expired, also an entry that  *)
(* came to the key between the two locks of Get; evictLocked drops others   *)
(* only when the table is full.                                            *)
THEOREM LiveEntriesStay == Spec => LiveEntryKept
<1>1. IndInv /\ [Next]_vars =>
        [\A k \in Held(data) :
           data'[k] = None =>
             \/ Expired(data[k], clock)
             \/ Cardinality(Held(data)) = MaxItems /\ UNCHANGED callVars]_vars
  BY KeptStep
<1> QED
  BY <1>1, Inductive, PTL DEF Spec, LiveEntryKept
-----------------------------------------------------------------------------
(* Set does not evict what it has just filed in favour of what was used     *)
(* before: the batch never is the whole table, and lastAccess never ahead.  *)
LEMMA StoredStep ==
  ASSUME IndInv, NEW k \in Keys, NEW v \in Values, Set(k, v), data'[k] = None,
         \A j \in Held(data) \ {k} : data[j].used < clock
  PROVE  FALSE
<1> USE DEF IndInv
<1>1. PICK table \in [Keys -> Item \cup {None}], gone \in SUBSET Keys :
        /\ table[k] = NewItem(k, v)
        /\ \A j \in Keys \ {k} : table[j] = data[j]
        /\ Held(table) = Held(data) \cup {k}
        /\ gone \in Victims(table)
        /\ data' = Without(table, gone)
  BY SetTable
<1>2. k \in gone
  BY <1>1, NewItemType, NoneIsNoItem DEF Without
<1>3. ASSUME NEW j \in Held(table) \ gone
      PROVE  FALSE
  <2>1. j \in Held(data) \ {k} /\ j \in Keys
    BY <1>1, <1>2, <1>3 DEF Held
  <2>2. table[k].used <= table[j].used
    BY <1>1, <1>2, <1>3 DEF Victims
  <2>3. clock \in Int /\ data[j].used \in Int
    BY <2>1, HeldItems DEF TypeOK, Item
  <2> QED
    BY <1>1, <2>1, <2>2, <2>3, NewItemType
<1>4. gone = Held(table)
  BY <1>1, <1>3 DEF Victims
<1>5. PICK n \in Nat : n = Cardinality(Held(table))
  BY FiniteKeys DEF Held
<1>6. RemoveCount(n) = n
  BY <1>1, <1>4, <1>5 DEF Victims
<1>7. n # 0
  BY <1>1, <1>5, FiniteKeys, FS_EmptySet DEF Held
<1> QED
  BY <1>5, <1>6, <1>7, RemoveCountSuffices, RemoveCountLeavesOne, MemoryAssumption

(* What Set has just stored is there when it returns, if all the rest was   *)
(* used earlier.                                                           *)
THEOREM StoredStays == Spec => StoredIsKept
<1>1. IndInv =>
        [\A k \in Keys, v \in Values :
           data'[k] = None /\ (\A j \in Held(data) \ {k} : data[j].used < clock)
             => ~Set(k, v)]_vars
  BY StoredStep
<1> QED
  BY <1>1, Inductive, PTL DEF Spec, StoredIsKept

-----------------------------------------------------------------------------
(* The refinement: the table as its users see it.                           *)
View(table) == [k \in Keys |-> IF table[k] = None THEN None ELSE table[k].val]

(* What each caller is looking up.                                          *)
Lookups ==
  [c \in Callers |-> IF pc[c] = "read" THEN key[c]
                     ELSE IF pc[c] = "last" THEN Last
                     ELSE IF pc[c] = "idle" THEN None ELSE Found]

(* A table shows values, and a key of it is there if its entry is.          *)
LEMMA ViewType ==
  ASSUME NEW table \in [Keys -> Item \cup {None}]
  PROVE  /\ View(table) \in [Keys -> Values \cup {None}]
         /\ \A k \in Keys : View(table)[k] = None <=> table[k] = None
         /\ \A k \in Held(table) : View(table)[k] = table[k].val /\ table[k].val \in Values
  BY MemoryAssumption DEF View, Item, Held

(* Dropping entries is forgetting.                                          *)
LEMMA WithoutForgets ==
  ASSUME NEW table \in [Keys -> Item \cup {None}], NEW gone
  PROVE  /\ View(Without(table, gone)) \in [Keys -> Values \cup {None}]
         /\ \A k \in Keys : View(Without(table, gone))[k] \in {View(table)[k], None}
  BY ViewType, WithoutType DEF View, Without

(* A caller that returns looks nothing up any more.                         *)
LEMMA ReturnCloses ==
  ASSUME TypeOK, NEW c \in Callers, Return(c)
  PROVE  Lookups' = [Lookups EXCEPT ![c] = None]
  BY DEF Lookups, Return, TypeOK

(* BeginGet and BeginGetLast ask.                                           *)
LEMMA BeginAsks ==
  ASSUME TypeOK, NEW c \in Callers, BeginGet(c) \/ BeginGetLast(c)
  PROVE  Contract!Ask(c)
<1>1. PICK q \in Keys \cup {Last} :
        /\ now' = [now EXCEPT ![c] = clock]
        /\ \/ q \in Keys /\ key' = [key EXCEPT ![c] = q] /\ pc' = [pc EXCEPT ![c] = "read"]
           \/ q = Last /\ key' = key /\ pc' = [pc EXCEPT ![c] = "last"]
  BY DEF BeginGet, BeginGetLast
<1>2. Lookups[c] = None
  BY DEF Lookups, BeginGet, BeginGetLast
<1>3. Lookups' = [Lookups EXCEPT ![c] = q]
  BY <1>1 DEF Lookups, TypeOK
<1>4. data' = data /\ got' = got
  BY DEF BeginGet, BeginGetLast
<1> QED
  BY <1>2, <1>3, <1>4 DEF Contract!Ask, Lookups

(* Read answers, with what is filed under the key or with nothing.          *)
LEMMA ReadReplies ==
  ASSUME IndInv, NEW c \in Callers, Read(c)
  PROVE  Contract!Reply(c)
<1>1. key[c] \in Keys /\ pc[c] = "read"
  BY DEF Read, IndInv, TypeOK
<1>2. Lookups[c] = key[c]
  BY <1>1 DEF Lookups
<1>3. PICK q \in {Found, None} : Lookups' = [Lookups EXCEPT ![c] = q]
  <2>1. CASE Return(c)
    BY <2>1, ReturnCloses DEF IndInv
  <2>2. CASE ~Return(c)
    <3>1. key' = key /\ \/ pc' = [pc EXCEPT ![c] = "expire"]
                        \/ pc' = [pc EXCEPT ![c] = "touch"]
      BY <2>2 DEF Read
    <3>2. Lookups' = [Lookups EXCEPT ![c] = Found]
      BY <3>1 DEF Lookups, IndInv, TypeOK
    <3> QED
      BY <3>2
  <2> QED
    BY <2>1, <2>2
<1>4. PICK v \in {View(data)[key[c]], None} : got' = [got EXCEPT ![c] = v]
  BY <1>1 DEF Read, View
<1>5. data' = data
  BY DEF Read
<1> QED
  BY <1>1, <1>2, <1>3, <1>4, <1>5 DEF Contract!Reply, Lookups, View

(* What is left of the table after a step that only drops entries.          *)
LEMMA DroppingLeavesPart ==
  ASSUME TypeOK, NEW gone, data' = Without(data, gone)
  PROVE  Contract!LeavePartOf(View(data))
<1>1. data \in [Keys -> Item \cup {None}]
  BY DEF TypeOK
<1>2. View(data)' = View(Without(data, gone))
  BY DEF View
<1> QED
  BY <1>1, <1>2, WithoutForgets DEF Contract!LeavePartOf, Contract!PartOf, View

(* Expire and Touch end a lookup and store nothing.                         *)
LEMMA EndCloses ==
  ASSUME IndInv, NEW c \in Callers, Expire(c) \/ Touch(c)
  PROVE  Contract!Close(c)
<1>1. Lookups[c] = Found
  BY DEF Lookups, Expire, Touch
<1>2. Lookups' = [Lookups EXCEPT ![c] = None] /\ got' = got
  BY ReturnCloses DEF Expire, Touch, IndInv
<1>3. CASE Expire(c)
  BY <1>1, <1>2, <1>3, DroppingLeavesPart
  DEF Expire, Contract!Close, Lookups, View, IndInv
<1>4. CASE Touch(c)
  <2>1. View(data)' = View(data)
    <3>1. \A k \in Keys : data'[k] = None <=> data[k] = None
      BY <1>4, TouchedTable DEF Held, IndInv
    <3> QED
      BY <1>4, <3>1, TouchedTable DEF View, Held, IndInv
  <2>2. Contract!LeavePartOf(View(data))
    BY <2>1, ViewType DEF Contract!LeavePartOf, Contract!PartOf, View, IndInv, TypeOK
  <2> QED
    BY <1>1, <1>2, <2>2 DEF Contract!Close, Lookups, View
<1> QED
  BY <1>3, <1>4

(* GetLast answers with the newest of what it leaves.                       *)
LEMMA GetLastReplies ==
  ASSUME IndInv, NEW c \in Callers, GetLast(c)
  PROVE  Contract!ReplyLast(c)
<1> DEFINE left == Held(data) \ ExpiredKeys(now[c])
<1>1. Lookups[c] = Last
  BY DEF Lookups, GetLast
<1>2. Lookups' = [Lookups EXCEPT ![c] = None]
  BY ReturnCloses DEF GetLast, IndInv
<1>3. data' = Without(data, ExpiredKeys(now[c]))
  BY DEF GetLast
<1>4. Contract!LeavePartOf(View(data))
  BY <1>3, DroppingLeavesPart DEF IndInv
<1>5. \A k \in Keys : View(data)'[k] = IF k \in left THEN data[k].val ELSE None
  BY <1>3 DEF View, Without, Held
<1>6. \A k \in left : k \in Keys /\ data[k].val # None
  BY ViewType DEF IndInv, TypeOK, Held
<1>7. \/ (\A k \in Keys : View(data)'[k] = None) /\ got' = [got EXCEPT ![c] = None]
      \/ \E k \in Keys : /\ View(data)'[k] # None
                         /\ \A j \in Keys : View(data)'[j] # None => j <= k
                         /\ got' = [got EXCEPT ![c] = View(data)'[k]]
  <2>1. CASE left = {} /\ got' = [got EXCEPT ![c] = None]
    BY <1>5, <2>1
  <2>2. ASSUME NEW k \in left, \A j \in left : j <= k,
               got' = [got EXCEPT ![c] = data[k].val]
        PROVE  \E m \in Keys : /\ View(data)'[m] # None
                               /\ \A j \in Keys : View(data)'[j] # None => j <= m
                               /\ got' = [got EXCEPT ![c] = View(data)'[m]]
    BY <1>5, <1>6, <2>2
  <2> QED
    BY <2>1, <2>2 DEF GetLast
<1> QED
  BY <1>1, <1>2, <1>4, <1>7 DEF Contract!ReplyLast, Lookups, View

(* Set stores and may forget, also what it has stored.                      *)
LEMMA SetStores ==
  ASSUME IndInv, NEW k \in Keys, NEW v \in Values, Set(k, v)
  PROVE  Contract!Store
<1>1. PICK table \in [Keys -> Item \cup {None}], gone \in SUBSET Keys :
        /\ table[k] = NewItem(k, v)
        /\ \A j \in Keys \ {k} : table[j] = data[j]
        /\ data' = Without(table, gone)
  BY SetTable DEF IndInv
<1>2. View(table) = [View(data) EXCEPT ![k] = v]
  <2>1. table[k] # None /\ table[k].val = v
    BY <1>1, NewItemType, NoneIsNoItem DEF IndInv
  <2>2. \A j \in Keys : View(table)[j] = [View(data) EXCEPT ![k] = v][j]
    BY <1>1, <2>1 DEF View
  <2> QED
    BY <2>2 DEF View
<1>3. View(data)' = View(Without(table, gone))
  BY <1>1 DEF View
<1>4. Contract!LeavePartOf([View(data) EXCEPT ![k] = v])
  BY <1>2, <1>3, WithoutForgets DEF Contract!LeavePartOf, Contract!PartOf, View
<1>5. Lookups' = Lookups /\ got' = got
  BY DEF Set, callVars, Lookups
<1> QED
  BY <1>4, <1>5 DEF Contract!Store, Lookups, View

(* Cleanup forgets.                                                         *)
LEMMA CleanupForgets ==
  ASSUME IndInv, Cleanup
  PROVE  Contract!Forget
<1>1. Contract!LeavePartOf(View(data))
  BY CleanupTable, DroppingLeavesPart DEF IndInv
<1>2. Lookups' = Lookups /\ got' = got
  BY DEF Cleanup, callVars, Lookups
<1> QED
  BY <1>1, <1>2 DEF Contract!Forget, Lookups, View

(* The cache begins as the contract does.                                   *)
LEMMA InitImplements == Init => Contract!Init
  BY DEF Init, Contract!Init

(* Every step of the cache is one of the contract, or none.                 *)
LEMMA NextImplements == IndInv /\ [Next]_vars => [Contract!Next]_(Contract!vars)
<1> SUFFICES ASSUME IndInv, [Next]_vars PROVE Contract!Next \/ UNCHANGED Contract!vars
  OBVIOUS
<1>1. ASSUME Tick \/ UNCHANGED vars
      PROVE  UNCHANGED Contract!vars
  BY <1>1 DEF Tick, vars, callVars, Contract!vars
<1> QED
  BY <1>1, BeginAsks, ReadReplies, EndCloses, GetLastReplies, SetStores, CleanupForgets
  DEF Next, Contract!Next, IndInv

(* MemoryCache implements store.Cache: Get finds what was stored last or    *)
(* nothing, GetLast the newest that is left, and only Set stores, although  *)
(* Get takes its lock twice and every call evicts on its way.              *)
THEOREM Implements == Spec => ImplementsCache
  BY InitImplements, NextImplements, Inductive, PTL
  DEF Spec, ImplementsCache, Contract!Spec
=============================================================================
