----------------------------- MODULE MemoryCache -----------------------------
(***************************************************************************)
(* store.MemoryCache: an LRU and TTL cache behind a RWMutex.               *)
(*                                                                         *)
(* Get takes the lock twice: it copies the entry under the read lock, and  *)
(* then either drops an expired entry or refreshes its lastAccess under    *)
(* the write lock, with the clock it read before the first.  In between    *)
(* the entry may be replaced, dropped or evicted.  Set, Cleanup and, once  *)
(* the clock is read, GetLast are atomic.                                  *)
(*                                                                         *)
(* A key is a date, as a number.  The entry of the current day has a TTL,  *)
(* every other is permanent; a new day begins every DayTicks ticks.  Fetch *)
(* files records under their own date, so that GetLast compares keys.      *)
(***************************************************************************)
EXTENDS Integers, FiniteSets

CONSTANTS Keys,      \* the dates, as integers; day d begins at (d - 1) * DayTicks
          Values,    \* versions of a record
          Callers,   \* goroutines that use the cache
          MaxItems,  \* MEMORY_CACHE_MAX_ITEMS
          EvictPct,  \* how much goes at once when it is full, in percent of MaxItems
          TTL,       \* MEMORY_CACHE_TTL_MINUTES, in ticks
          DayTicks,  \* ticks in a day
          LastTick,  \* bound: the clock stops here
          None, Last, Found

ASSUME MemoryAssumption ==
  /\ Keys \subseteq Int /\ IsFiniteSet(Keys)
  /\ MaxItems \in Nat \ {0} /\ EvictPct \in 1..100
  /\ TTL \in Nat \ {0} /\ DayTicks \in Nat \ {0} /\ LastTick \in Nat
  /\ None \notin Values \cup Keys /\ Last \notin Keys \cup {None} /\ Found \notin Keys \cup {None, Last}
  /\ None \notin [val : Values, permanent : BOOLEAN, expires : Nat, used : Nat]

VARIABLES
  clock,
  data,   \* key -> item or None
  pc,     \* where each caller is
  key,    \* the key each caller looks up
  now,    \* the clock as each caller read it
  got     \* what each caller found last

callVars == <<pc, key, now>>
vars == <<clock, data, callVars, got>>

Item == [val : Values, permanent : BOOLEAN, expires : 0..(LastTick + TTL),
         used : 0..LastTick]

Init ==
  /\ clock = 0
  /\ data = [k \in Keys |-> None]
  /\ pc = [c \in Callers |-> "idle"]
  /\ key = [c \in Callers |-> None]
  /\ now = [c \in Callers |-> 0]
  /\ got = [c \in Callers |-> None]

IsToday(k) == k = clock \div DayTicks + 1

Held(table) == {k \in Keys : table[k] # None}

Without(table, gone) == [k \in Keys |-> IF k \in gone THEN None ELSE table[k]]

Expired(item, time) == ~item.permanent /\ time > item.expires

ExpiredKeys(time) == {k \in Held(data) : Expired(data[k], time)}

(* evictLocked: when the table is over its limit, at least a batch of the   *)
(* entries that were used longest ago goes.  Ties are broken either way.   *)
RemoveCount(size) ==
  LET percent  == (MaxItems * EvictPct) \div 100
      batch    == IF percent < 1 THEN 1 ELSE percent
      overflow == size - MaxItems
      count    == IF overflow < batch THEN batch ELSE overflow
  IN  IF size <= MaxItems THEN 0
      ELSE IF count > size THEN size ELSE count

\* Mutated form: the order of the sort is reversed.
VictimsUsedLast(table) ==
  {gone \in SUBSET Held(table) :
     /\ Cardinality(gone) = RemoveCount(Cardinality(Held(table)))
     /\ \A v \in gone, k \in Held(table) \ gone : table[v].used >= table[k].used}

Victims(table) ==
  {gone \in SUBSET Held(table) :
     /\ Cardinality(gone) = RemoveCount(Cardinality(Held(table)))
     /\ \A v \in gone, k \in Held(table) \ gone : table[v].used <= table[k].used}

-----------------------------------------------------------------------------
(* Get.                                                                     *)

Return(c) ==
  /\ pc' = [pc EXCEPT ![c] = "idle"]
  /\ key' = [key EXCEPT ![c] = None]
  /\ now' = [now EXCEPT ![c] = 0]

BeginGet(c) ==
  /\ pc[c] = "idle"
  /\ \E k \in Keys : key' = [key EXCEPT ![c] = k]
  /\ now' = [now EXCEPT ![c] = clock]
  /\ pc' = [pc EXCEPT ![c] = "read"]
  /\ UNCHANGED <<clock, data, got>>

Read(c) ==
  /\ pc[c] = "read"
  /\ LET item == data[key[c]]
     IN  IF item = None
         THEN Return(c) /\ got' = [got EXCEPT ![c] = None]
         ELSE /\ IF Expired(item, now[c])
                 THEN /\ pc' = [pc EXCEPT ![c] = "expire"]
                      /\ got' = [got EXCEPT ![c] = None]
                 ELSE /\ pc' = [pc EXCEPT ![c] = "touch"]
                      /\ got' = [got EXCEPT ![c] = item.val]
              /\ UNCHANGED <<key, now>>
  /\ UNCHANGED <<clock, data>>

\* Mutated form: what was found expired is dropped without another look.
ExpireUnchecked(c) ==
  /\ pc[c] = "expire"
  /\ data' = Without(data, {key[c]})
  /\ Return(c)
  /\ UNCHANGED <<clock, got>>

\* The entry may have been replaced since it was found expired.
Expire(c) ==
  /\ pc[c] = "expire"
  /\ data' = Without(data, {key[c]} \cap ExpiredKeys(now[c]))
  /\ Return(c)
  /\ UNCHANGED <<clock, got>>

\* Mutated form: the copy that was read is written back.
TouchWritesBack(c) ==
  /\ pc[c] = "touch"
  /\ data' = IF data[key[c]] = None THEN data
             ELSE [data EXCEPT ![key[c]].used = now[c], ![key[c]].val = got[c]]
  /\ Return(c)
  /\ UNCHANGED <<clock, got>>

\* lastAccess becomes the clock as it was when the call began.
Touch(c) ==
  /\ pc[c] = "touch"
  /\ data' = IF data[key[c]] = None THEN data
             ELSE [data EXCEPT ![key[c]].used = now[c]]
  /\ Return(c)
  /\ UNCHANGED <<clock, got>>

-----------------------------------------------------------------------------
(* Set: the new entry is filed, and then the table cut to its limit.        *)
NewItem(k, v) ==
  [val |-> v, permanent |-> ~IsToday(k),
   expires |-> IF IsToday(k) THEN clock + TTL ELSE 0, used |-> clock]

\* Mutated form: the eviction is left to Cleanup.
SetWithoutEviction(k, v) ==
  /\ data' = [data EXCEPT ![k] = NewItem(k, v)]
  /\ UNCHANGED <<clock, callVars, got>>

Set(k, v) ==
  /\ LET table == [data EXCEPT ![k] = NewItem(k, v)]
     IN  \E gone \in Victims(table) : data' = Without(table, gone)
  /\ UNCHANGED <<clock, callVars, got>>

(* GetLast reads the clock, then drops what has expired and finds the       *)
(* newest of the rest.                                                     *)
BeginGetLast(c) ==
  /\ pc[c] = "idle"
  /\ now' = [now EXCEPT ![c] = clock]
  /\ pc' = [pc EXCEPT ![c] = "last"]
  /\ UNCHANGED <<clock, data, key, got>>

GetLast(c) ==
  /\ pc[c] = "last"
  /\ LET left == Held(data) \ ExpiredKeys(now[c])
     IN  /\ data' = Without(data, ExpiredKeys(now[c]))
         /\ \/ /\ left = {}
               /\ got' = [got EXCEPT ![c] = None]
            \/ \E k \in left : /\ \A j \in left : j <= k
                               /\ got' = [got EXCEPT ![c] = data[k].val]
  /\ Return(c)
  /\ UNCHANGED clock

Cleanup ==
  /\ LET table == Without(data, ExpiredKeys(clock))
     IN  \E gone \in Victims(table) : data' = Without(table, gone)
  /\ UNCHANGED <<clock, callVars, got>>

Tick ==
  /\ clock < LastTick
  /\ clock' = clock + 1
  /\ UNCHANGED <<data, callVars, got>>

Next ==
  \/ \E c \in Callers : \/ BeginGet(c) \/ Read(c) \/ Expire(c) \/ Touch(c)
                        \/ BeginGetLast(c) \/ GetLast(c)
  \/ \E k \in Keys, v \in Values : Set(k, v)
  \/ Cleanup \/ Tick

Spec == Init /\ [][Next]_vars

-----------------------------------------------------------------------------
(* Types; in particular a caller that goes on to drop or touch an entry     *)
(* knows its key, and lastAccess is never in the future.                   *)
TypeOK ==
  /\ clock \in 0..LastTick
  /\ data \in [Keys -> Item \cup {None}]
  /\ pc \in [Callers -> {"idle", "read", "expire", "touch", "last"}]
  /\ key \in [Callers -> Keys \cup {None}]
  /\ now \in [Callers -> 0..LastTick]
  /\ got \in [Callers -> Values \cup {None}]
  /\ \A c \in Callers : now[c] <= clock /\ (pc[c] \notin {"idle", "last"} => key[c] \in Keys)
  /\ \A k \in Held(data) : data[k].used <= clock

(* The table never grows beyond its limit, whatever calls interleave and    *)
(* however long Cleanup is away.                                           *)
SizeBounded == Cardinality(Held(data)) <= MaxItems

(* An entry that has not expired disappears only to make room: when the     *)
(* table is full, and in no step of a lookup.  A lookup that found an       *)
(* expired entry does not take away the one filed in its place meanwhile.   *)
LiveEntryKept ==
  [][\A k \in Held(data) :
       data'[k] = None =>
         \/ Expired(data[k], clock)
         \/ Cardinality(Held(data)) = MaxItems /\ UNCHANGED callVars]_vars

(* Set never evicts what it has just stored in order to keep what was used  *)
(* before, however small the cache and whatever lookups have written into   *)
(* lastAccess: it takes another entry used at the very same instant.        *)
StoredIsKept ==
  [][\A k \in Keys, v \in Values :
       data'[k] = None /\ (\A j \in Held(data) \ {k} : data[j].used < clock)
         => ~Set(k, v)]_vars

(* The cache is one: the contract of store.Cache.                           *)
Contract == INSTANCE Cache WITH
  contents <- [k \in Keys |-> IF data[k] = None THEN None ELSE data[k].val],
  pending <- [c \in Callers |-> IF pc[c] = "read" THEN key[c]
                                ELSE IF pc[c] = "last" THEN Last
                                ELSE IF pc[c] = "idle" THEN None ELSE Found],
  reply <- got

ImplementsCache == Contract!Spec
=============================================================================
