------------------------------ MODULE ImageCache ------------------------------
(***************************************************************************)
(* image.Service: the directory of downloaded pictures.                    *)
(*                                                                         *)
(* Ensure downloads a picture unless it is there, one flight per date and  *)
(* at most Slots downloads at once, into a temporary file that is renamed  *)
(* when it is complete.  Cleanup lists the directory, removes what is old, *)
(* lists it again and removes what is too much, without a lock: files come *)
(* and go between its listings and its removals.  Pictures of the last     *)
(* HotDays days stay.  A crash leaves temporary files behind, which        *)
(* Cleanup treats like any other file.                                     *)
(***************************************************************************)
EXTENDS Integers, FiniteSets

CONSTANTS Requests,  \* the calls of Ensure, one each
          Cleaners,  \* runs of Cleanup: the one at startup and the daily job
          Exts,      \* extensions a picture may get from its Content-Type
          Slots,     \* capacity of the semaphore
          MaxFiles, MaxAge, HotDays,
          FirstDay, LastDay,  \* bound: the days of the model
          None

Days  == 1..LastDay
Today == FirstDay..LastDay

ASSUME ImageAssumption ==
  /\ FirstDay \in Nat \ {0} /\ LastDay \in Nat /\ FirstDay <= LastDay
  /\ Slots \in Nat \ {0} /\ MaxFiles \in Nat \ {0}
  /\ MaxAge \in Nat \ {0} /\ HotDays \in Nat \ {0}
  /\ IsFiniteSet(Requests) /\ None \notin Requests \cup Exts

VARIABLES
  day,
  files,     \* the directory
  sf,        \* the singleflight group: date -> leader or None
  sem,       \* slots of the semaphore that are taken
  pc, want, joined, ext,  \* each call: progress, date, leader it waits for, extension
  crashed,   \* the calls that a crash cut off
  cpc,       \* each Cleanup: "idle", "age" or "count"
  todo,      \* the paths it is going to remove
  kept,   \* the paths of its second listing
  keptOn   \* history: the day of its second listing

callVars  == <<pc, want, joined, ext>>
cleanVars == <<cpc, todo, kept, keptOn>>
vars == <<day, files, sf, sem, callVars, crashed, cleanVars>>

\* A picture is <date>.<ext>; the temporary file of a call has a name of its own.
File == [date : Days, ext : Exts \cup {None}, tmp : Requests \cup {None},
         whole : BOOLEAN, mtime : Today]

PathOf(f) == [date |-> f.date, ext |-> f.ext, tmp |-> f.tmp]
Path == [date : Days, ext : Exts \cup {None}, tmp : Requests \cup {None}]

Pictures(d) == {f \in files : f.date = d /\ f.tmp = None}
TempOf(r)   == {f \in files : f.tmp = r}

(* A process finds the pictures of those before it, one for a date.         *)
Init ==
  /\ day = FirstDay
  /\ \E old \in SUBSET (1..FirstDay), e \in Exts :
       files = {[date |-> d, ext |-> e, tmp |-> None, whole |-> TRUE,
                 mtime |-> FirstDay] : d \in old}
  /\ sf = [d \in Days |-> None]
  /\ sem = 0
  /\ pc = [r \in Requests |-> "idle"]
  /\ want = [r \in Requests |-> None]
  /\ joined = [r \in Requests |-> None]
  /\ ext = [r \in Requests |-> None]
  /\ crashed = {}
  /\ cpc = [k \in Cleaners |-> "idle"]
  /\ todo = [k \in Cleaners |-> {}]
  /\ kept = [k \in Cleaners |-> {}]
  /\ keptOn = [k \in Cleaners |-> FirstDay]

-----------------------------------------------------------------------------
(* Ensure.                                                                  *)

Goto(r, label) == pc' = [pc EXCEPT ![r] = label]

\* The flight ends: the date is free again and whoever waits goes on.
EndFlight(r) ==
  /\ Goto(r, "done")
  /\ sf' = [sf EXCEPT ![want[r]] = None]
  /\ UNCHANGED <<want, joined, ext>>

Release == sem' = sem - 1

\* Mutated form: a call downloads without looking for a running flight.
EnsureWithoutGroup(r) ==
  /\ pc[r] = "idle"
  /\ \E d \in 1..day :
       /\ want' = [want EXCEPT ![r] = d]
       /\ sf' = [sf EXCEPT ![d] = r]
       /\ Goto(r, "look")
  /\ UNCHANGED <<day, files, sem, joined, ext, crashed, cleanVars>>

Ensure(r) ==
  /\ pc[r] = "idle"
  /\ \E d \in 1..day :
       /\ want' = [want EXCEPT ![r] = d]
       /\ \/ /\ sf[d] = None
             /\ sf' = [sf EXCEPT ![d] = r]
             /\ Goto(r, "look")
             /\ UNCHANGED joined
          \/ /\ sf[d] # None
             /\ joined' = [joined EXCEPT ![r] = sf[d]]
             /\ Goto(r, "wait")
             /\ UNCHANGED sf
  /\ UNCHANGED <<day, files, sem, ext, crashed, cleanVars>>

Wait(r) ==
  /\ pc[r] = "wait"
  /\ pc[joined[r]] = "done"
  /\ Goto(r, "done")
  /\ UNCHANGED <<day, files, sf, sem, want, joined, ext, crashed, cleanVars>>

\* Mutated form: the flight does not look again for a picture.
LookNoFurther(r) ==
  /\ pc[r] = "look"
  /\ Goto(r, "acquire")
  /\ UNCHANGED <<day, files, sf, sem, want, joined, ext, crashed, cleanVars>>

Look(r) ==
  /\ pc[r] = "look"
  /\ \/ Pictures(want[r]) # {} /\ EndFlight(r)
     \/ /\ Pictures(want[r]) = {}
        /\ Goto(r, "acquire")
        /\ UNCHANGED <<sf, want, joined, ext>>
  /\ UNCHANGED <<day, files, sem, crashed, cleanVars>>

Acquire(r) ==
  /\ pc[r] = "acquire"
  /\ sem < Slots
  /\ sem' = sem + 1
  /\ Goto(r, "request")
  /\ UNCHANGED <<day, files, sf, want, joined, ext, crashed, cleanVars>>

\* Mutated form: a call that got no slot gives one back.
SkipReleases(r) ==
  /\ pc[r] = "acquire"
  /\ EndFlight(r)
  /\ Release
  /\ UNCHANGED <<day, files, crashed, cleanVars>>

\* No slot became free before the deadline.
Skip(r) ==
  /\ pc[r] = "acquire"
  /\ EndFlight(r)
  /\ UNCHANGED <<day, files, sem, crashed, cleanVars>>

\* Mutated form: an early return forgets the slot.
RequestFailsWithSlot(r) ==
  /\ pc[r] = "request"
  /\ EndFlight(r)
  /\ UNCHANGED <<day, files, sem, crashed, cleanVars>>

\* No answer, a bad status, too large a Content-Length or no temporary file.
RequestFails(r) ==
  /\ pc[r] = "request"
  /\ EndFlight(r)
  /\ Release
  /\ UNCHANGED <<day, files, crashed, cleanVars>>

CreateTemp(r) ==
  /\ pc[r] = "request"
  /\ \E e \in Exts : ext' = [ext EXCEPT ![r] = e]
  /\ files' = files \cup {[date |-> want[r], ext |-> None, tmp |-> r,
                           whole |-> FALSE, mtime |-> day]}
  /\ Goto(r, "copy")
  /\ UNCHANGED <<day, sf, sem, want, joined, crashed, cleanVars>>

\* Mutated form: the error path returns without removing the file.
CopyFailsLeavingTemp(r) ==
  /\ pc[r] \in {"copy", "rename"}
  /\ EndFlight(r)
  /\ Release
  /\ UNCHANGED <<day, files, crashed, cleanVars>>

\* The body breaks off or is too large, the file cannot be closed or renamed.
CopyFails(r) ==
  /\ pc[r] \in {"copy", "rename"}
  /\ files' = files \ TempOf(r)
  /\ EndFlight(r)
  /\ Release
  /\ UNCHANGED <<day, crashed, cleanVars>>

\* Mutated form: the file is renamed as soon as the body begins to arrive.
CopyAhead(r) ==
  /\ pc[r] = "copy"
  /\ files' = (files \ TempOf(r)) \cup {[f EXCEPT !.mtime = day] : f \in TempOf(r)}
  /\ Goto(r, "rename")
  /\ UNCHANGED <<day, sf, sem, want, joined, ext, crashed, cleanVars>>

Copy(r) ==
  /\ pc[r] = "copy"
  /\ files' = (files \ TempOf(r))
                \cup {[f EXCEPT !.whole = TRUE, !.mtime = day] : f \in TempOf(r)}
  /\ Goto(r, "rename")
  /\ UNCHANGED <<day, sf, sem, want, joined, ext, crashed, cleanVars>>

\* The rename finds the file unless a Cleanup has removed it, and replaces a
\* picture of the same name.
Rename(r) ==
  /\ pc[r] = "rename"
  /\ LET pictures == {[f EXCEPT !.tmp = None, !.ext = ext[r]] : f \in TempOf(r)}
         replaced == {f \in files : \E g \in pictures : PathOf(f) = PathOf(g)}
     IN  files' = ((files \ TempOf(r)) \ replaced) \cup pictures
  /\ EndFlight(r)
  /\ Release
  /\ UNCHANGED <<day, crashed, cleanVars>>

-----------------------------------------------------------------------------
(* Cleanup.                                                                 *)

isHotFile(d) == d > day - HotDays

Remove(path) == files' = {f \in files : PathOf(f) # path}

CleanupTo(k, label, paths) ==
  /\ cpc' = [cpc EXCEPT ![k] = label]
  /\ todo' = [todo EXCEPT ![k] = paths]

BeginCleanup(k) ==
  /\ cpc[k] = "idle"
  /\ CleanupTo(k, "age", {PathOf(f) : f \in {g \in files : g.mtime < day - MaxAge}})
  /\ UNCHANGED <<day, files, sf, sem, callVars, crashed, kept, keptOn>>

RemoveOld(k) ==
  /\ cpc[k] = "age"
  /\ \E p \in todo[k] :
       /\ todo' = [todo EXCEPT ![k] = @ \ {p}]
       /\ IF isHotFile(p.date) THEN UNCHANGED files ELSE Remove(p)
  /\ UNCHANGED <<day, sf, sem, callVars, crashed, cpc, kept, keptOn>>

\* Mutated form: hot files count, but are not left out.
ExcessOfAll ==
  {gone \in SUBSET files :
     /\ Cardinality(gone) = (IF Cardinality(files) > MaxFiles
                             THEN Cardinality(files) - MaxFiles ELSE 0)
     /\ \A f \in gone, g \in files \ gone : f.mtime <= g.mtime}

\* Mutated form: the hot files are not counted against the limit.
ExcessBesidesHot ==
  LET cold == {f \in files : ~isHotFile(f.date)}
      n    == Cardinality(cold) - MaxFiles
  IN  {gone \in SUBSET cold :
         /\ Cardinality(gone) = (IF n > 0 THEN n ELSE 0)
         /\ \A f \in gone, g \in cold \ gone : f.mtime <= g.mtime}

(* What goes: of the cold files the oldest, so many that with the hot ones  *)
(* MaxFiles are left.                                                      *)
Excess ==
  LET cold       == {f \in files : ~isHotFile(f.date)}
      room       == MaxFiles - Cardinality(files \ cold)
      targetCold == IF room < 0 THEN 0 ELSE room
      n          == Cardinality(cold) - targetCold
  IN  {gone \in SUBSET cold :
         /\ Cardinality(gone) = (IF n > 0 THEN n ELSE 0)
         /\ \A f \in gone, g \in cold \ gone : f.mtime <= g.mtime}

Relist(k) ==
  /\ cpc[k] = "age"
  /\ todo[k] = {}
  /\ \E gone \in Excess :
       /\ CleanupTo(k, "count", {PathOf(f) : f \in gone})
       /\ kept' = [kept EXCEPT ![k] = {PathOf(f) : f \in files \ gone}]
  /\ keptOn' = [keptOn EXCEPT ![k] = day]
  /\ UNCHANGED <<day, files, sf, sem, callVars, crashed>>

RemoveExcess(k) ==
  /\ cpc[k] = "count"
  /\ \E p \in todo[k] :
       /\ todo' = [todo EXCEPT ![k] = @ \ {p}]
       /\ Remove(p)
  /\ UNCHANGED <<day, sf, sem, callVars, crashed, cpc, kept, keptOn>>

\* Cleanup returns, early if the directory cannot be listed again.
EndCleanup(k) ==
  /\ cpc[k] # "idle"
  /\ todo[k] = {}
  /\ CleanupTo(k, "idle", {})
  /\ kept' = [kept EXCEPT ![k] = {}]
  /\ UNCHANGED <<day, files, sf, sem, callVars, crashed, keptOn>>

-----------------------------------------------------------------------------
Running == {r \in Requests : pc[r] \notin {"idle", "done"}}

\* The process dies and is started again; the directory stays as it is.
Crash ==
  /\ crashed' = crashed \cup Running
  /\ pc' = [r \in Requests |-> IF r \in Running THEN "done" ELSE pc[r]]
  /\ sf' = [d \in Days |-> None]
  /\ sem' = 0
  /\ cpc' = [k \in Cleaners |-> "idle"]
  /\ todo' = [k \in Cleaners |-> {}]
  /\ kept' = [k \in Cleaners |-> {}]
  /\ UNCHANGED <<day, files, want, joined, ext, keptOn>>

NextDay ==
  /\ day < LastDay
  /\ day' = day + 1
  /\ UNCHANGED <<files, sf, sem, callVars, crashed, cleanVars>>

Next ==
  \/ \E r \in Requests :
       \/ Ensure(r) \/ Wait(r) \/ Look(r) \/ Acquire(r) \/ Skip(r)
       \/ RequestFails(r) \/ CreateTemp(r) \/ CopyFails(r) \/ Copy(r) \/ Rename(r)
  \/ \E k \in Cleaners :
       \/ BeginCleanup(k) \/ RemoveOld(k) \/ Relist(k) \/ RemoveExcess(k)
       \/ EndCleanup(k)
  \/ Crash \/ NextDay

Spec == Init /\ [][Next]_vars

-----------------------------------------------------------------------------
(* Types; every path of a file names one file.                              *)
TypeOK ==
  /\ day \in Today
  /\ files \subseteq File
  /\ \A f, g \in files : PathOf(f) = PathOf(g) => f = g
  /\ sf \in [Days -> Requests \cup {None}]
  /\ sem \in Nat
  /\ pc \in [Requests -> {"idle", "wait", "look", "acquire", "request", "copy",
                          "rename", "done"}]
  /\ want \in [Requests -> Days \cup {None}]
  /\ joined \in [Requests -> Requests \cup {None}]
  /\ ext \in [Requests -> Exts \cup {None}]
  /\ crashed \subseteq Requests
  /\ cpc \in [Cleaners -> {"idle", "age", "count"}]
  /\ todo \in [Cleaners -> SUBSET Path]
  /\ kept \in [Cleaners -> SUBSET Path]
  /\ keptOn \in [Cleaners -> Today]

(* A picture that ServeCached can find is complete: a download that fails,  *)
(* hangs or is cut off by a crash never shows under the picture's name.    *)
PicturesWhole == \A f \in files : f.tmp = None => f.whole

(* There is one picture for a date, whatever extension it was given: which  *)
(* one would be served is otherwise up to the order of the file names.     *)
OnePictureEach == \A d \in Days : Cardinality(Pictures(d)) <= 1

(* A temporary file belongs to a download in progress, or to one that a     *)
(* crash cut off: every error path cleans up after itself.                 *)
NoLitter ==
  \A f \in files : f.tmp # None => pc[f.tmp] \in {"copy", "rename"} \/ f.tmp \in crashed

(* The semaphore counts the downloads in progress, also after failures and  *)
(* crashes, and no more than Slots of them go on at once.                  *)
SlotsAccounted ==
  /\ sem = Cardinality({r \in Requests : pc[r] \in {"request", "copy", "rename"}})
  /\ sem <= Slots

(* A picture of the last HotDays days is never removed, also when midnight  *)
(* falls between the listing and the removal, or when there are many.      *)
HotPicturesKept ==
  [][\A f \in files : f.tmp = None /\ isHotFile(f.date) =>
       \E g \in files' : PathOf(g) = PathOf(f)]_vars

(* Of the files that a Cleanup found and meant to leave there are at most   *)
(* MaxFiles, unless they are all hot: what comes and goes while it works   *)
(* does not make it leave too much.                                        *)
CleanupSuffices ==
  \A k \in Cleaners :
    LET left == {f \in files : PathOf(f) \in kept[k]}
    IN  Cardinality(left) > MaxFiles => \A f \in left : f.date > keptOn[k] - HotDays

\* What ServeCached can find.
Shelf == {[date |-> f.date, ext |-> f.ext, whole |-> f.whole, mtime |-> f.mtime] :
            f \in {g \in files : g.tmp = None}}

Readers == INSTANCE PictureStore WITH shelf <- Shelf

(* To its readers the directory is a shelf of pictures that are put there   *)
(* and taken away whole, the cold ones only, and never changed in between:  *)
(* a temporary file, an error path, a stale listing or a crash does not     *)
(* show, and no download replaces a picture that can be found.             *)
ImplementsPictureStore == Readers!Spec
=============================================================================
