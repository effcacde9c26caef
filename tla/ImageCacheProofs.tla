--------------------------- MODULE ImageCacheProofs ---------------------------
(* Proofs about ImageCache, for any finite set of requests, any number of   *)
(* cleanups and days, and any limits.                                      *)
EXTENDS ImageCache, FiniteSetTheorems, TLAPS

Busy   == {"request", "copy", "rename"}   \* holds a slot
Beyond == Busy \cup {"acquire"}           \* has seen that there is no picture
Flying == Beyond \cup {"look"}            \* leads the flight of its date

(* The calls: a flight is the one of its date, and a call that was cut off  *)
(* by a crash is over.                                                     *)
CallsInv ==
  /\ sf \in [Days -> Requests \cup {None}]
  /\ pc \in [Requests -> {"idle", "wait", "done"} \cup Flying]
  /\ want \in [Requests -> Days \cup {None}]
  /\ joined \in [Requests -> Requests \cup {None}]
  /\ ext \in [Requests -> Exts \cup {None}]
  /\ crashed \subseteq Requests
  /\ \A r \in Requests :
       /\ pc[r] \in Flying => want[r] \in Days /\ sf[want[r]] = r
       /\ pc[r] \in {"copy", "rename"} => ext[r] \in Exts
       /\ r \in crashed => pc[r] = "done"

(* Files have names of their own.                                           *)
NamesInv ==
  /\ files \subseteq File /\ IsFiniteSet(files)
  /\ \A f, g \in files : PathOf(f) = PathOf(g) => f = g

(* A temporary file is of the date its call wants, and complete when it is  *)
(* renamed.                                                                *)
TempsInv ==
  /\ NoLitter
  /\ \A f \in files : f.tmp # None =>
       /\ f.ext = None
       /\ f.date = want[f.tmp]
       /\ pc[f.tmp] = "rename" => f.whole

(* A call that has looked for a picture is still right that there is none.  *)
PicturesInv ==
  /\ PicturesWhole
  /\ \A f, g \in files : f.tmp = None /\ g.tmp = None /\ f.date = g.date => f = g
  /\ \A r \in Requests : pc[r] \in Beyond => Pictures(want[r]) = {}

(* What a Cleanup is going to remove after its second listing was cold, and *)
(* what it meant to leave was little enough, or hot.                       *)
CleanersInv ==
  /\ cpc \in [Cleaners -> {"idle", "age", "count"}]
  /\ todo \in [Cleaners -> SUBSET Path]
  /\ kept \in [Cleaners -> SUBSET Path]
  /\ keptOn \in [Cleaners -> Today]
  /\ \A k \in Cleaners :
       /\ keptOn[k] <= day
       /\ cpc[k] = "count" => \A p \in todo[k] : ~(p.date > keptOn[k] - HotDays)
       /\ IsFiniteSet(kept[k])
       /\ Cardinality(kept[k]) > MaxFiles => \A p \in kept[k] : p.date > keptOn[k] - HotDays

BusyRequests == {r \in Requests : pc[r] \in Busy}

IndInv ==
  /\ day \in Today
  /\ CallsInv /\ NamesInv /\ TempsInv /\ PicturesInv /\ CleanersInv
  /\ sem \in Nat /\ SlotsAccounted

-----------------------------------------------------------------------------
(* What a step does to the calls.                                           *)
LEMMA CallsStep ==
  ASSUME IndInv, [Next]_vars
  PROVE  CallsInv' /\ day' \in Today
<1> USE ImageAssumption DEF IndInv, Flying, Beyond, Busy
<1>1. ASSUME NEW r \in Requests, EndFlight(r), pc[r] \in Flying, crashed' = crashed
      PROVE  CallsInv'
  BY <1>1 DEF EndFlight, Goto, CallsInv
<1>2. ASSUME UNCHANGED <<sf, callVars, crashed>>
      PROVE  CallsInv'
  BY <1>2 DEF callVars, CallsInv
<1>3. ASSUME NEW r \in Requests, Ensure(r)
      PROVE  CallsInv' /\ day' = day
  <2>1. PICK d \in Days :
          /\ want' = [want EXCEPT ![r] = d]
          /\ \/ sf[d] = None /\ sf' = [sf EXCEPT ![d] = r] /\ Goto(r, "look")
                /\ UNCHANGED joined
             \/ sf[d] # None /\ joined' = [joined EXCEPT ![r] = sf[d]] /\ Goto(r, "wait")
                /\ UNCHANGED sf
    <3>1. 1..day \subseteq Days
      BY DEF Today, Days
    <3> QED
      BY <1>3, <3>1 DEF Ensure
  <2>2. pc[r] = "idle" /\ ext' = ext /\ crashed' = crashed /\ day' = day
    BY <1>3 DEF Ensure
  <2> QED
    BY <2>1, <2>2 DEF Goto, CallsInv
<1>4. ASSUME NEW r \in Requests, Wait(r)
      PROVE  CallsInv' /\ day' = day
  BY <1>4 DEF Wait, Goto, CallsInv
<1>5. ASSUME NEW r \in Requests,
             Skip(r) \/ RequestFails(r) \/ CopyFails(r) \/ Rename(r)
      PROVE  EndFlight(r) /\ pc[r] \in Flying /\ crashed' = crashed /\ day' = day
  BY <1>5 DEF Skip, RequestFails, CopyFails, Rename
<1>6. ASSUME NEW r \in Requests, Look(r)
      PROVE  CallsInv' /\ day' = day
  <2>1. CASE EndFlight(r)
    BY <1>1, <1>6, <2>1 DEF Look
  <2>2. CASE ~EndFlight(r)
    BY <1>6, <2>2 DEF Look, Goto, CallsInv
  <2> QED
    BY <2>1, <2>2
<1>7. ASSUME NEW r \in Requests, Acquire(r) \/ CreateTemp(r) \/ Copy(r)
      PROVE  CallsInv' /\ day' = day
  <2>1. CASE Acquire(r)
    BY <2>1 DEF Acquire, Goto, CallsInv
  <2>2. CASE CreateTemp(r)
    BY <2>2 DEF CreateTemp, Goto, CallsInv
  <2>3. CASE Copy(r)
    BY <2>3 DEF Copy, Goto, CallsInv
  <2> QED
    BY <1>7, <2>1, <2>2, <2>3
<1>8. CASE Crash
  BY <1>8 DEF Crash, CallsInv, Running
<1>9. ASSUME \/ UNCHANGED vars
              \/ \E k \in Cleaners : \/ BeginCleanup(k) \/ RemoveOld(k) \/ Relist(k)
                                     \/ RemoveExcess(k) \/ EndCleanup(k)
       PROVE  UNCHANGED <<sf, callVars, crashed, day>>
  BY <1>9 DEF vars, BeginCleanup, RemoveOld, Relist, RemoveExcess, EndCleanup
<1>10. ASSUME NextDay
       PROVE  UNCHANGED <<sf, callVars, crashed>> /\ day' \in Today
  BY <1>10 DEF NextDay, Today
<1> QED
  BY <1>1, <1>2, <1>3, <1>4, <1>5, <1>6, <1>7, <1>8, <1>9, <1>10 DEF Next
-----------------------------------------------------------------------------
(* A path is a file's date, extension and owner.                            *)
LEMMA SamePath ==
  ASSUME NEW f, NEW g
  PROVE  PathOf(f) = PathOf(g) <=> f.date = g.date /\ f.ext = g.ext /\ f.tmp = g.tmp
  BY DEF PathOf

(* A call has one temporary file at most.                                   *)
LEMMA OneTemp ==
  ASSUME IndInv, NEW r \in Requests
  PROVE  TempOf(r) = {} \/ \E f \in files : TempOf(r) = {f} /\ f.tmp = r
<1>1. ASSUME NEW f \in TempOf(r), NEW g \in TempOf(r)
      PROVE  f = g
  <2>1. f \in files /\ g \in files /\ f.tmp = r /\ g.tmp = r /\ r # None
    BY ImageAssumption DEF TempOf
  <2>2. f.ext = g.ext /\ f.date = g.date
    BY <2>1 DEF IndInv, TempsInv
  <2> QED
    BY <2>1, <2>2, SamePath DEF IndInv, NamesInv
<1>2. \A f \in TempOf(r) : f \in files /\ f.tmp = r
  BY DEF TempOf
<1> QED
  BY <1>1, <1>2

(* The file that CreateTemp makes.                                          *)
LEMMA NewTemp ==
  ASSUME NEW r \in Requests, NEW d \in Days, day \in Today
  PROVE  LET f == [date |-> d, ext |-> None, tmp |-> r, whole |-> FALSE, mtime |-> day]
         IN  f \in File /\ f.date = d /\ f.ext = None /\ f.tmp = r
  BY DEF File

(* The file that Copy completes.                                            *)
LEMMA CopiedFile ==
  ASSUME NEW f \in File, day \in Today
  PROVE  LET g == [f EXCEPT !.whole = TRUE, !.mtime = day]
         IN  g \in File /\ g.date = f.date /\ g.ext = f.ext /\ g.tmp = f.tmp /\ g.whole
  BY DEF File

(* The file that Rename renames.                                            *)
LEMMA RenamedFile ==
  ASSUME NEW f \in File, NEW e \in Exts
  PROVE  LET g == [f EXCEPT !.tmp = None, !.ext = e]
         IN  g \in File /\ g.date = f.date /\ g.ext = e /\ g.tmp = None /\ (f.whole => g.whole)
  BY DEF File

(* A file's fields.                                                         *)
LEMMA FileFields ==
  ASSUME NEW f \in File
  PROVE  f.date \in Days /\ f.tmp \in Requests \cup {None} /\ f.mtime \in Today
  BY DEF File

(* Files that remain keep their names apart.                                *)
LEMMA NamesShrink ==
  ASSUME NamesInv, files' \subseteq files
  PROVE  NamesInv'
  BY FS_Subset DEF NamesInv, PathOf

(* So do they and a file with a path of its own.                            *)
LEMMA NamesAdd ==
  ASSUME NamesInv, NEW S \in SUBSET files, NEW g \in File, files' = S \cup {g},
         \A h \in S : PathOf(h) # PathOf(g)
  PROVE  NamesInv'
<1>1. IsFiniteSet(files')
  BY FS_Subset, FS_AddElement DEF NamesInv
<1> QED
  BY <1>1 DEF NamesInv, PathOf

(* When files only disappear, the invariants of the files hold as long as   *)
(* calls leave their temporary files behind only in a crash, and a call     *)
(* that begins to download has seen that there is no picture.              *)
LEMMA FilesShrink ==
  ASSUME IndInv, files' \subseteq files,
         \A f \in files' : f.tmp # None =>
           /\ pc[f.tmp] \in {"copy", "rename"}
                => pc'[f.tmp] \in {"copy", "rename"} \/ f.tmp \in crashed'
           /\ want'[f.tmp] = want[f.tmp]
           /\ pc'[f.tmp] = "rename" => pc[f.tmp] = "rename",
         crashed \subseteq crashed',
         \A r \in Requests : pc'[r] \in Beyond =>
           /\ want'[r] = want[r]
           /\ pc[r] \in Beyond \/ Pictures(want[r]) = {}
  PROVE  NamesInv' /\ TempsInv' /\ PicturesInv'
<1> USE DEF IndInv
<1>1. NamesInv'
  BY NamesShrink
<1>2. NoLitter'
  BY DEF NoLitter, TempsInv
<1>3. TempsInv'
  BY <1>2 DEF TempsInv
<1>4. ASSUME NEW r \in Requests, pc'[r] \in Beyond
      PROVE  Pictures(want[r])' = {}
  BY <1>4 DEF Pictures, PicturesInv
<1>5. PicturesInv'
  BY <1>4 DEF PicturesInv, PicturesWhole
<1> QED
  BY <1>1, <1>3, <1>5

(* CreateTemp adds a file under a name that no other file can have.         *)
LEMMA CreateTempStep ==
  ASSUME IndInv, NEW r \in Requests, CreateTemp(r)
  PROVE  NamesInv' /\ TempsInv' /\ PicturesInv'
<1> USE ImageAssumption DEF IndInv
<1> DEFINE g == [date |-> want[r], ext |-> None, tmp |-> r, whole |-> FALSE, mtime |-> day]
<1>1. /\ pc[r] = "request" /\ want[r] \in Days /\ r # None /\ r \notin crashed
      /\ files' = files \cup {g} /\ want' = want /\ crashed' = crashed
      /\ pc' = [pc EXCEPT ![r] = "copy"]
  BY DEF CreateTemp, Goto, CallsInv, Flying, Beyond, Busy
<1>2. g \in File /\ g.date = want[r] /\ g.ext = None /\ g.tmp = r
  BY <1>1, NewTemp
<1> HIDE DEF g
<1>3. \A h \in files : h.tmp # r
  BY <1>1 DEF TempsInv, NoLitter
<1>4. NamesInv'
  BY <1>1, <1>2, <1>3, SamePath, NamesAdd
<1>5. \A s \in Requests : s # r => pc'[s] = pc[s]
  BY <1>1 DEF CallsInv
<1>6. pc'[r] = "copy"
  BY <1>1 DEF CallsInv
<1>7. NoLitter'
  BY <1>1, <1>2, <1>3, <1>5, <1>6, FileFields DEF NoLitter, TempsInv, NamesInv
<1>8. TempsInv'
  BY <1>1, <1>2, <1>3, <1>5, <1>6, <1>7, FileFields DEF TempsInv, NamesInv
<1>9. \A d : Pictures(d)' = Pictures(d)
  BY <1>1, <1>2 DEF Pictures
<1>10. ASSUME NEW s \in Requests, pc'[s] \in Beyond
       PROVE  Pictures(want[s])' = {}
  BY <1>1, <1>5, <1>9, <1>10 DEF PicturesInv, Pictures, Beyond, Busy
<1>11. PicturesInv'
  BY <1>1, <1>2, <1>10 DEF PicturesInv, PicturesWhole
<1> QED
  BY <1>4, <1>8, <1>11

(* Copy completes the file, if it is still there.                           *)
LEMMA CopyStep ==
  ASSUME IndInv, NEW r \in Requests, Copy(r)
  PROVE  NamesInv' /\ TempsInv' /\ PicturesInv'
<1> USE ImageAssumption DEF IndInv
<1>1. /\ pc[r] = "copy" /\ r # None /\ r \notin crashed
      /\ want' = want /\ crashed' = crashed /\ pc' = [pc EXCEPT ![r] = "rename"]
  BY DEF Copy, Goto, CallsInv
<1>2. /\ \A s \in Requests : s # r => pc'[s] = pc[s]
      /\ pc'[r] = "rename"
  BY <1>1 DEF CallsInv
<1>3. \A s \in Requests : pc'[s] \in Beyond => pc[s] \in Beyond
  BY <1>1, <1>2 DEF Beyond, Busy
<1>4. CASE TempOf(r) = {}
  <2>1. files' = files /\ \A h \in files : h.tmp # r
    BY <1>4 DEF Copy, TempOf
  <2>2. \A h \in files : h.tmp # None => h.tmp \in Requests
    BY FileFields DEF NamesInv
  <2> QED
    BY <1>1, <1>2, <1>3, <2>1, <2>2, FilesShrink
<1>5. CASE TempOf(r) # {}
  <2>1. PICK f \in files : TempOf(r) = {f} /\ f.tmp = r
    BY <1>5, OneTemp
  <2> DEFINE g == [f EXCEPT !.whole = TRUE, !.mtime = day]
  <2>2. files' = (files \ {f}) \cup {g}
    BY <2>1 DEF Copy
  <2>3. g \in File /\ g.date = f.date /\ g.ext = f.ext /\ g.tmp = r /\ g.whole
    BY <2>1, CopiedFile DEF NamesInv
  <2> HIDE DEF g
  <2>4. \A h \in files \ {f} : PathOf(h) # PathOf(g) /\ h.tmp # r
    BY <2>1, <2>3, SamePath DEF NamesInv, TempOf
  <2>5. NamesInv'
    <3>1. files \ {f} \in SUBSET files
      OBVIOUS
    <3> QED
      BY <2>2, <2>3, <2>4, <3>1, NamesAdd
  <2>6. NoLitter'
    BY <1>1, <1>2, <2>2, <2>3, <2>4, FileFields DEF NoLitter, TempsInv, NamesInv
  <2>7. TempsInv'
    BY <1>1, <1>2, <2>1, <2>2, <2>3, <2>4, <2>6, FileFields DEF TempsInv, NamesInv
  <2>8. \A d : Pictures(d)' = Pictures(d)
    BY <1>1, <2>1, <2>2, <2>3 DEF Pictures
  <2>9. ASSUME NEW s \in Requests, pc'[s] \in Beyond
        PROVE  Pictures(want[s])' = {}
    BY <1>1, <1>3, <2>8, <2>9 DEF PicturesInv, Pictures
  <2>10. PicturesInv'
    BY <1>1, <2>2, <2>3, <2>9 DEF PicturesInv, PicturesWhole
  <2> QED
    BY <2>5, <2>7, <2>10
<1> QED
  BY <1>4, <1>5

(* Rename makes the one picture of its date: nobody else flies for it.      *)
LEMMA RenameStep ==
  ASSUME IndInv, NEW r \in Requests, Rename(r)
  PROVE  NamesInv' /\ TempsInv' /\ PicturesInv'
<1> USE ImageAssumption DEF IndInv
<1>1. /\ pc[r] = "rename" /\ r # None /\ r \notin crashed /\ want[r] \in Days
      /\ want' = want /\ crashed' = crashed /\ pc' = [pc EXCEPT ![r] = "done"]
      /\ ext[r] \in Exts /\ sf[want[r]] = r
  BY DEF Rename, EndFlight, Goto, CallsInv, Flying, Beyond, Busy
<1>2. /\ \A s \in Requests : s # r => pc'[s] = pc[s]
      /\ pc'[r] = "done"
  BY <1>1 DEF CallsInv
<1>3. ASSUME NEW s \in Requests, pc'[s] \in Beyond
      PROVE  pc[s] \in Beyond /\ s # r /\ want[s] # want[r]
  BY <1>1, <1>2, <1>3 DEF CallsInv, Flying, Beyond, Busy
<1>4. Pictures(want[r]) = {}
  BY <1>1 DEF PicturesInv, Beyond, Busy
<1>5. CASE TempOf(r) = {}
  <2>1. files' = files /\ \A h \in files : h.tmp # r
    BY <1>5 DEF Rename, TempOf
  <2>2. \A h \in files : h.tmp # None => h.tmp \in Requests
    BY FileFields DEF NamesInv
  <2> QED
    BY <1>1, <1>2, <1>3, <2>1, <2>2, FilesShrink
<1>6. CASE TempOf(r) # {}
  <2>1. PICK f \in files : TempOf(r) = {f} /\ f.tmp = r
    BY <1>6, OneTemp
  <2> DEFINE g == [f EXCEPT !.tmp = None, !.ext = ext[r]]
             replaced == {h \in files : PathOf(h) = PathOf(g)}
  <2>2. files' = ((files \ {f}) \ replaced) \cup {g}
    BY <2>1 DEF Rename
  <2>3. g \in File /\ g.date = want[r] /\ g.tmp = None /\ g.whole
    <3>1. f \in File /\ f.date = want[r] /\ f.whole
      BY <1>1, <2>1 DEF NamesInv, TempsInv
    <3> QED
      BY <1>1, <3>1, RenamedFile
  <2> HIDE DEF g
  <2>4. replaced = {}
    BY <1>4, <2>3, SamePath DEF Pictures
  <2>5. files' = (files \ {f}) \cup {g}
    BY <2>2, <2>4
  <2>6. \A h \in files \ {f} : PathOf(h) # PathOf(g) /\ h.tmp # r
    BY <2>1, <2>4 DEF TempOf
  <2>7. NamesInv'
    <3>1. files \ {f} \in SUBSET files
      OBVIOUS
    <3> QED
      BY <2>3, <2>5, <2>6, <3>1, NamesAdd
  <2>8. NoLitter'
    BY <1>1, <1>2, <2>3, <2>5, <2>6, FileFields DEF NoLitter, TempsInv, NamesInv
  <2>9. TempsInv'
    BY <1>1, <1>2, <2>3, <2>5, <2>6, <2>8, FileFields DEF TempsInv, NamesInv
  <2>10. ASSUME NEW s \in Requests, pc'[s] \in Beyond
         PROVE  Pictures(want[s])' = {}
    <3>1. pc[s] \in Beyond /\ want[s] # want[r]
      BY <1>3, <2>10
    <3> QED
      BY <1>1, <2>3, <2>5, <3>1 DEF PicturesInv, Pictures
  <2>11. \A h \in files \ {f} : ~(h.tmp = None /\ h.date = want[r])
    BY <1>4 DEF Pictures
  <2>12. PicturesInv'
    BY <1>1, <2>3, <2>5, <2>10, <2>11 DEF PicturesInv, PicturesWhole
  <2> QED
    BY <2>7, <2>9, <2>12
<1> QED
  BY <1>5, <1>6

(* All steps, by what they do to the directory.                             *)
LEMMA FilesStep ==
  ASSUME IndInv, [Next]_vars
  PROVE  NamesInv' /\ TempsInv' /\ PicturesInv'
<1> USE ImageAssumption DEF IndInv
<1>1. \A h \in files : h.tmp # None => h.tmp \in Requests /\ pc[h.tmp] # "idle"
  BY FileFields DEF NamesInv, TempsInv, NoLitter, CallsInv
<1>2. CASE files' \subseteq files /\ UNCHANGED <<pc, want, crashed>>
  BY <1>2, FilesShrink
<1>3. ASSUME NEW r \in Requests,
             \/ Ensure(r) \/ Wait(r) \/ Look(r) \/ Acquire(r) \/ Skip(r) \/ RequestFails(r)
             \/ CopyFails(r)
      PROVE  NamesInv' /\ TempsInv' /\ PicturesInv'
  <2>1. /\ files' \subseteq files /\ crashed' = crashed
        /\ \A s \in Requests : s # r => pc'[s] = pc[s] /\ want'[s] = want[s]
        /\ pc[r] # "idle" => want'[r] = want[r]
        /\ pc'[r] # "rename"
    BY <1>3 DEF Ensure, Wait, Look, Acquire, Skip, RequestFails, CopyFails, EndFlight,
       Goto, CallsInv
  <2>2. ASSUME pc'[r] \in Beyond
        PROVE  /\ pc[r] # "idle"
               /\ pc[r] \in Beyond \/ Pictures(want[r]) = {}
    BY <1>3, <2>2 DEF Ensure, Wait, Look, Acquire, Skip, RequestFails, CopyFails,
       EndFlight, Goto, CallsInv, Beyond, Busy
  <2>3. ASSUME NEW f \in files', f.tmp = r
        PROVE  pc[r] \notin {"copy", "rename"}
    BY <1>3, <2>3 DEF Ensure, Wait, Look, Acquire, Skip, RequestFails, CopyFails, TempOf
  <2>4. ASSUME NEW f \in files', f.tmp # None
        PROVE  /\ pc[f.tmp] \in {"copy", "rename"}
                    => pc'[f.tmp] \in {"copy", "rename"} \/ f.tmp \in crashed'
               /\ want'[f.tmp] = want[f.tmp]
               /\ pc'[f.tmp] = "rename" => pc[f.tmp] = "rename"
    BY <1>1, <2>1, <2>3, <2>4
  <2> QED
    BY <2>1, <2>2, <2>4, FilesShrink
<1>4. CASE Crash
  <2>1. /\ files' = files /\ want' = want /\ crashed \subseteq crashed'
        /\ \A r \in Requests : pc'[r] \notin Beyond
        /\ \A r \in Requests : pc[r] \in {"copy", "rename"} => r \in crashed'
    BY <1>4 DEF Crash, Running, Beyond, Busy
  <2> QED
    BY <1>1, <2>1, FilesShrink DEF Beyond, Busy
<1>5. ASSUME \/ NextDay \/ UNCHANGED vars
             \/ \E k \in Cleaners : \/ BeginCleanup(k) \/ RemoveOld(k) \/ Relist(k)
                                    \/ RemoveExcess(k) \/ EndCleanup(k)
      PROVE  files' \subseteq files /\ UNCHANGED <<pc, want, crashed>>
  BY <1>5 DEF NextDay, BeginCleanup, RemoveOld, Relist, RemoveExcess, EndCleanup, Remove,
     vars, callVars
<1> QED
  BY <1>2, <1>3, <1>4, <1>5, CreateTempStep, CopyStep, RenameStep DEF Next
-----------------------------------------------------------------------------
(* Every set of files is finite, and the paths of files are no more than    *)
(* they.                                                                   *)
LEMMA FiniteFiles ==
  ASSUME NamesInv, NEW S \in SUBSET files
  PROVE  /\ IsFiniteSet(S) /\ Cardinality(S) \in Nat
         /\ IsFiniteSet({PathOf(f) : f \in S})
         /\ Cardinality({PathOf(f) : f \in S}) \in Nat
         /\ Cardinality({PathOf(f) : f \in S}) <= Cardinality(S)
<1> DEFINE T == {PathOf(f) : f \in S}
           h == [f \in S |-> PathOf(f)]
<1>1. IsFiniteSet(S) /\ Cardinality(S) \in Nat
  BY FS_Subset, FS_CardinalityType DEF NamesInv
<1>2. h \in Surjection(S, T)
  BY DEF Surjection
<1>3. IsFiniteSet(T) /\ Cardinality(T) <= Cardinality(S)
  BY <1>1, <1>2, FS_Surjection
<1> QED
  BY <1>1, <1>3, FS_CardinalityType

(* A set of files and the others are all.                                   *)
LEMMA PartAndRest ==
  ASSUME NamesInv, NEW S \in SUBSET files
  PROVE  /\ Cardinality(files) = Cardinality(S) + Cardinality(files \ S)
         /\ Cardinality(files \ S) \in Nat
<1>1. IsFiniteSet(files) /\ IsFiniteSet(S) /\ IsFiniteSet(files \ S)
  BY FiniteFiles
<1>2. Cardinality(files \ S) = Cardinality(files) - Cardinality(files \cap S)
  BY <1>1, FS_Difference
<1>3. files \cap S = S
  OBVIOUS
<1>4. /\ Cardinality(files) \in Nat /\ Cardinality(S) \in Nat
      /\ Cardinality(files \ S) \in Nat
  BY FiniteFiles
<1> QED
  BY <1>2, <1>3, <1>4

(* Cleanup's arithmetic: what is left fits, unless it is all hot.           *)
LEMMA ExcessSuffices ==
  ASSUME IndInv, NEW gone \in Excess, Cardinality(files \ gone) > MaxFiles
  PROVE  \A f \in files \ gone : isHotFile(f.date)
<1> USE ImageAssumption DEF IndInv
<1> DEFINE cold == {f \in files : ~isHotFile(f.date)}
           hot  == files \ cold
<1>1. /\ cold \in SUBSET files /\ gone \in SUBSET files /\ hot \in SUBSET files
      /\ gone \subseteq cold
  BY DEF Excess
<1>2. PICK c, g, h \in Nat :
        c = Cardinality(cold) /\ g = Cardinality(gone) /\ h = Cardinality(hot)
  BY <1>1, FiniteFiles
<1>3. Cardinality(files) = c + h
  BY <1>1, <1>2, FiniteFiles, PartAndRest
<1>4. Cardinality(files \ gone) = c + h - g
  <2>1. /\ Cardinality(files) = Cardinality(gone) + Cardinality(files \ gone)
        /\ Cardinality(files \ gone) \in Nat
    BY <1>1, PartAndRest
  <2> QED
    BY <1>2, <1>3, <2>1
<1>5. g = LET room       == MaxFiles - h
              targetCold == IF room < 0 THEN 0 ELSE room
              n          == c - targetCold
          IN  IF n > 0 THEN n ELSE 0
  BY <1>2 DEF Excess
<1> HIDE DEF cold, hot
<1>6. g = c
  BY <1>2, <1>4, <1>5
<1>7. gone = cold
  BY <1>1, <1>2, <1>6, FiniteFiles, FS_Subset
<1> QED
  BY <1>7 DEF cold

(* What a step does to the cleanups.                                        *)
LEMMA CleanersStep ==
  ASSUME IndInv, [Next]_vars
  PROVE  CleanersInv'
<1> USE ImageAssumption DEF IndInv
<1>1. /\ \A k \in Cleaners : keptOn[k] \in Int
      /\ day \in Int /\ Today \subseteq Int
  BY DEF CleanersInv, Today
<1>2. IsFiniteSet({}) /\ Cardinality({}) = 0
  BY FS_EmptySet
<1>3. \A S \in SUBSET files : {PathOf(f) : f \in S} \in SUBSET Path
  BY DEF NamesInv, File, PathOf, Path
<1>4. ASSUME UNCHANGED <<day, cleanVars>>
      PROVE  CleanersInv'
  BY <1>4 DEF CleanersInv, cleanVars
<1>5. CASE NextDay
  BY <1>1, <1>5 DEF NextDay, CleanersInv, cleanVars
<1>6. CASE Crash
  BY <1>2, <1>6 DEF Crash, CleanersInv
<1>7. ASSUME NEW k \in Cleaners, BeginCleanup(k)
      PROVE  CleanersInv'
  <2>1. PICK paths \in SUBSET Path : CleanupTo(k, "age", paths)
    BY <1>3, <1>7 DEF BeginCleanup
  <2>2. day' = day /\ kept' = kept /\ keptOn' = keptOn
    BY <1>7 DEF BeginCleanup
  <2> QED
    BY <2>1, <2>2 DEF CleanupTo, CleanersInv
<1>8. ASSUME NEW k \in Cleaners, RemoveOld(k) \/ RemoveExcess(k)
      PROVE  CleanersInv'
  <2>1. PICK p : todo' = [todo EXCEPT ![k] = @ \ {p}]
    BY <1>8 DEF RemoveOld, RemoveExcess
  <2>2. day' = day /\ cpc' = cpc /\ kept' = kept /\ keptOn' = keptOn
    BY <1>8 DEF RemoveOld, RemoveExcess
  <2> QED
    BY <2>1, <2>2 DEF CleanersInv
<1>9. ASSUME NEW k \in Cleaners, Relist(k)
      PROVE  CleanersInv'
  <2>1. PICK gone \in Excess :
          /\ CleanupTo(k, "count", {PathOf(f) : f \in gone})
          /\ kept' = [kept EXCEPT ![k] = {PathOf(f) : f \in files \ gone}]
    BY <1>9 DEF Relist
  <2>2. keptOn' = [keptOn EXCEPT ![k] = day] /\ day' = day
    BY <1>9 DEF Relist
  <2> DEFINE left == {PathOf(f) : f \in files \ gone}
             out  == {PathOf(f) : f \in gone}
  <2>3. gone \in SUBSET files /\ \A f \in gone : ~isHotFile(f.date)
    BY DEF Excess
  <2>4. left \in SUBSET Path /\ out \in SUBSET Path
    BY <1>3, <2>3
  <2>5. \A p \in out : ~(p.date > day - HotDays)
    BY <2>3 DEF isHotFile, PathOf
  <2>6. IsFiniteSet(left)
    BY FiniteFiles
  <2>7. ASSUME Cardinality(left) > MaxFiles
        PROVE  \A p \in left : p.date > day - HotDays
    <3>1. files \ gone \in SUBSET files
      OBVIOUS
    <3>2. Cardinality(files \ gone) > MaxFiles
      BY <2>7, <3>1, FiniteFiles
    <3> QED
      BY <3>2, ExcessSuffices DEF isHotFile, PathOf
  <2> HIDE DEF left, out
  <2>8. /\ cpc' = [cpc EXCEPT ![k] = "count"] /\ todo' = [todo EXCEPT ![k] = out]
        /\ kept' = [kept EXCEPT ![k] = left]
    BY <2>1 DEF CleanupTo, left, out
  <2> QED
    BY <1>1, <2>2, <2>4, <2>5, <2>6, <2>7, <2>8 DEF CleanersInv
<1>10. ASSUME NEW k \in Cleaners, EndCleanup(k)
       PROVE  CleanersInv'
  BY <1>2, <1>10 DEF EndCleanup, CleanupTo, CleanersInv
<1>11. ASSUME \/ UNCHANGED vars
              \/ \E r \in Requests :
                   \/ Ensure(r) \/ Wait(r) \/ Look(r) \/ Acquire(r) \/ Skip(r)
                   \/ RequestFails(r) \/ CreateTemp(r) \/ CopyFails(r) \/ Copy(r) \/ Rename(r)
       PROVE  UNCHANGED <<day, cleanVars>>
  BY <1>11 DEF vars, Ensure, Wait, Look, Acquire, Skip, RequestFails, CreateTemp, CopyFails,
     Copy, Rename
<1> QED
  BY <1>4, <1>5, <1>6, <1>7, <1>8, <1>9, <1>10, <1>11 DEF Next
-----------------------------------------------------------------------------
(* One call comes to hold a slot, or gives one up.                          *)
LEMMA BusyStep ==
  ASSUME CallsInv, NEW r \in Requests, NEW label, pc' = [pc EXCEPT ![r] = label]
  PROVE  /\ IsFiniteSet(BusyRequests) /\ Cardinality(BusyRequests) \in Nat
         /\ pc[r] \in Busy => Cardinality(BusyRequests) >= 1
         /\ Cardinality(BusyRequests') =
              IF pc[r] \in Busy /\ label \notin Busy THEN Cardinality(BusyRequests) - 1
              ELSE IF pc[r] \notin Busy /\ label \in Busy THEN Cardinality(BusyRequests) + 1
              ELSE Cardinality(BusyRequests)
<1>1. IsFiniteSet(BusyRequests) /\ Cardinality(BusyRequests) \in Nat
  BY ImageAssumption, FS_Subset, FS_CardinalityType DEF BusyRequests
<1>2. BusyRequests' = IF label \in Busy THEN BusyRequests \cup {r} ELSE BusyRequests \ {r}
  BY DEF BusyRequests, CallsInv
<1>3. r \in BusyRequests <=> pc[r] \in Busy
  BY DEF BusyRequests
<1>4. /\ Cardinality(BusyRequests \cup {r}) =
           IF r \in BusyRequests THEN Cardinality(BusyRequests)
           ELSE Cardinality(BusyRequests) + 1
      /\ Cardinality(BusyRequests \ {r}) =
           IF r \in BusyRequests THEN Cardinality(BusyRequests) - 1
           ELSE Cardinality(BusyRequests)
  BY <1>1, FS_AddElement, FS_RemoveElement
<1>5. pc[r] \in Busy => Cardinality(BusyRequests) # 0
  BY <1>1, <1>3, FS_EmptySet
<1> QED
  BY <1>1, <1>2, <1>3, <1>4, <1>5

(* The semaphore counts the slots that are held.                            *)
SlotsInv == sem = Cardinality(BusyRequests) /\ sem \in Nat /\ sem <= Slots

(* A step of a call takes a slot, gives one back, or leaves the count.      *)
LEMMA SlotsStep ==
  ASSUME IndInv, [Next]_vars
  PROVE  SlotsInv'
<1> USE ImageAssumption DEF IndInv
<1>1. SlotsInv
  BY DEF SlotsAccounted, SlotsInv, BusyRequests, Busy
<1>2. ASSUME UNCHANGED <<pc, sem>>
      PROVE  SlotsInv'
  BY <1>1, <1>2 DEF SlotsInv, BusyRequests
<1>3. ASSUME NEW r \in Requests, Acquire(r)
      PROVE  SlotsInv'
  <2>1. pc' = [pc EXCEPT ![r] = "request"] /\ pc[r] = "acquire" /\ sem < Slots
        /\ sem' = sem + 1
    BY <1>3 DEF Acquire, Goto
  <2>2. pc[r] \notin Busy /\ "request" \in Busy
    BY <2>1 DEF Busy
  <2>3. Cardinality(BusyRequests') = Cardinality(BusyRequests) + 1
    BY <2>1, <2>2, BusyStep
  <2> QED
    BY <1>1, <2>1, <2>3 DEF SlotsInv
<1>4. ASSUME NEW r \in Requests, RequestFails(r) \/ CopyFails(r) \/ Rename(r)
      PROVE  SlotsInv'
  <2>1. pc' = [pc EXCEPT ![r] = "done"] /\ pc[r] \in Busy /\ sem' = sem - 1
    BY <1>4 DEF RequestFails, CopyFails, Rename, EndFlight, Goto, Release, Busy
  <2>2. "done" \notin Busy
    BY DEF Busy
  <2>3. /\ Cardinality(BusyRequests') = Cardinality(BusyRequests) - 1
        /\ Cardinality(BusyRequests) >= 1
    BY <2>1, <2>2, BusyStep
  <2> QED
    BY <1>1, <2>1, <2>3 DEF SlotsInv
<1>5. ASSUME NEW r \in Requests,
             Ensure(r) \/ Wait(r) \/ Look(r) \/ Skip(r) \/ CreateTemp(r) \/ Copy(r)
      PROVE  SlotsInv'
  <2>1. /\ sem' = sem
        /\ \E label : /\ pc' = [pc EXCEPT ![r] = label]
                      /\ label \in Busy <=> pc[r] \in Busy
    <3>1. CASE Ensure(r)
      BY <3>1 DEF Ensure, Goto, Busy
    <3>2. CASE Wait(r) \/ Skip(r)
      BY <3>2 DEF Wait, Skip, EndFlight, Goto, Busy
    <3>3. CASE Look(r)
      BY <3>3 DEF Look, EndFlight, Goto, Busy
    <3>4. CASE CreateTemp(r) \/ Copy(r)
      BY <3>4 DEF CreateTemp, Copy, Goto, Busy
    <3> QED
      BY <1>5, <3>1, <3>2, <3>3, <3>4
  <2> QED
    BY <1>1, <2>1, BusyStep DEF SlotsInv
<1>6. CASE Crash
  <2>1. BusyRequests' = {} /\ sem' = 0
    BY <1>6 DEF Crash, Running, BusyRequests, Busy
  <2>2. Cardinality(BusyRequests') = 0
    BY <2>1, FS_EmptySet
  <2> QED
    BY <2>1, <2>2 DEF SlotsInv
<1>7. ASSUME \/ NextDay \/ UNCHANGED vars
             \/ \E k \in Cleaners : \/ BeginCleanup(k) \/ RemoveOld(k) \/ Relist(k)
                                    \/ RemoveExcess(k) \/ EndCleanup(k)
      PROVE  UNCHANGED <<pc, sem>>
  BY <1>7 DEF NextDay, BeginCleanup, RemoveOld, Relist, RemoveExcess, EndCleanup, vars,
     callVars
<1> QED
  BY <1>2, <1>3, <1>4, <1>5, <1>6, <1>7 DEF Next

-----------------------------------------------------------------------------
(* A picture of before.                                                     *)
LEMMA OldPicture ==
  ASSUME NEW d \in 1..FirstDay, NEW e \in Exts
  PROVE  LET f == [date |-> d, ext |-> e, tmp |-> None, whole |-> TRUE, mtime |-> FirstDay]
         IN  f \in File /\ f.date = d /\ f.tmp = None /\ f.ext = e /\ f.whole
<1>1. d \in Days /\ FirstDay \in Today
  BY ImageAssumption DEF Days, Today
<1> QED
  BY <1>1 DEF File

(* The invariant holds at the start.                                        *)
LEMMA InitInv == Init => IndInv
<1> SUFFICES ASSUME Init PROVE IndInv
  OBVIOUS
<1> USE ImageAssumption
<1>1. day \in Today /\ day \in Int
  BY DEF Init, Today
<1>2. CallsInv
  BY DEF Init, CallsInv, Flying, Beyond, Busy
<1>3. PICK old \in SUBSET (1..FirstDay), e \in Exts :
        files = {[date |-> d, ext |-> e, tmp |-> None, whole |-> TRUE,
                  mtime |-> FirstDay] : d \in old}
  BY DEF Init
<1>4. \A f \in files : f \in File /\ f.tmp = None /\ f.ext = e /\ f.whole
  BY <1>3, OldPicture
<1>5. \A f, g \in files : f.date = g.date => f = g
  <2> DEFINE picture(d) == [date |-> d, ext |-> e, tmp |-> None, whole |-> TRUE,
                            mtime |-> FirstDay]
  <2>1. \A f \in files : f = picture(f.date)
    BY <1>3
  <2> HIDE DEF picture
  <2> QED
    BY <2>1
<1>6. IsFiniteSet(files)
  <2> DEFINE old_file(d) == [date |-> d, ext |-> e, tmp |-> None, whole |-> TRUE,
                             mtime |-> FirstDay]
             h == [d \in old |-> old_file(d)]
  <2>1. IsFiniteSet(1..FirstDay)
    BY FS_Interval
  <2>2. IsFiniteSet(old)
    BY <2>1, FS_Subset
  <2>3. h \in Surjection(old, files)
    BY <1>3 DEF Surjection
  <2> QED
    BY <2>2, <2>3, FS_Surjection
<1>7. NamesInv
  BY <1>4, <1>5, <1>6, SamePath DEF NamesInv
<1>8. TempsInv
  BY <1>4 DEF TempsInv, NoLitter
<1>9. PicturesInv
  BY <1>4, <1>5 DEF Init, PicturesInv, PicturesWhole, Beyond, Busy
<1>10. CleanersInv
  BY <1>1, FS_EmptySet DEF Init, CleanersInv
<1>11. BusyRequests = {} /\ sem = 0
  BY DEF Init, BusyRequests, Busy
<1>12. SlotsAccounted /\ sem \in Nat
  BY <1>11, FS_EmptySet DEF SlotsAccounted, BusyRequests, Busy
<1> QED
  BY <1>1, <1>2, <1>7, <1>8, <1>9, <1>10, <1>12 DEF IndInv

(* Every step keeps it.                                                     *)
LEMMA NextInv == IndInv /\ [Next]_vars => IndInv'
<1> SUFFICES ASSUME IndInv, [Next]_vars PROVE IndInv'
  OBVIOUS
<1>1. SlotsAccounted' /\ sem' \in Nat
  BY SlotsStep DEF SlotsInv, SlotsAccounted, BusyRequests, Busy
<1> QED
  BY <1>1, CallsStep, FilesStep, CleanersStep DEF IndInv

(* The invariant of the directory and of who works on it.                   *)
THEOREM Inductive == Spec => []IndInv
  BY InitInv, NextInv, PTL DEF Spec

(* Type correctness; every path names one file.                             *)
THEOREM TypeCorrect == Spec => []TypeOK
<1>1. IndInv => TypeOK
  BY DEF IndInv, TypeOK, CallsInv, NamesInv, CleanersInv, Flying, Beyond, Busy
<1> QED
  BY <1>1, Inductive, PTL

(* The temporary file and the rename of Ensure: what ServeCached finds is a *)
(* complete picture, after failures and crashes too.                       *)
THEOREM CompleteOrAbsent == Spec => []PicturesWhole
<1>1. IndInv => PicturesWhole
  BY DEF IndInv, PicturesInv
<1> QED
  BY <1>1, Inductive, PTL

(* The singleflight group and the look at the directory before a download:  *)
(* a date has one picture, whatever its extension.                         *)
THEOREM OneEach == Spec => []OnePictureEach
<1>1. ASSUME IndInv, NEW d \in Days
      PROVE  Cardinality(Pictures(d)) <= 1
  <2>1. \A f, g \in Pictures(d) : f = g
    BY <1>1 DEF IndInv, PicturesInv, Pictures
  <2>2. Pictures(d) = {} \/ \E f : Pictures(d) = {f}
    BY <2>1
  <2>3. CASE Pictures(d) = {}
    BY <2>3, FS_EmptySet
  <2>4. CASE \E f : Pictures(d) = {f}
    BY <2>4, FS_Singleton
  <2> QED
    BY <2>2, <2>3, <2>4
<1>2. IndInv => OnePictureEach
  BY <1>1 DEF OnePictureEach
<1> QED
  BY <1>2, Inductive, PTL

(* Every error path of Ensure removes its temporary file.                   *)
THEOREM NoLitterLeft == Spec => []NoLitter
<1>1. IndInv => NoLitter
  BY DEF IndInv, TempsInv
<1> QED
  BY <1>1, Inductive, PTL

(* Every path through Ensure gives back the slot it took.                   *)
THEOREM SlotsCounted == Spec => []SlotsAccounted
<1>1. IndInv => SlotsAccounted
  BY DEF IndInv
<1> QED
  BY <1>1, Inductive, PTL

-----------------------------------------------------------------------------
(* What a step does to a picture of the last days.                          *)
LEMMA HotStep ==
  ASSUME IndInv, [Next]_vars,
         NEW f \in files, f.tmp = None, isHotFile(f.date)
  PROVE  \E g \in files' : PathOf(g) = PathOf(f)
<1> USE ImageAssumption DEF IndInv
<1>1. CASE f \in files'
  BY <1>1
<1>2. ASSUME NEW r \in Requests, CopyFails(r) \/ Copy(r) \/ CreateTemp(r)
      PROVE  f \in files'
  BY <1>2 DEF CopyFails, Copy, CreateTemp, TempOf
<1>3. ASSUME NEW r \in Requests, Rename(r)
      PROVE  \E g \in files' : PathOf(g) = PathOf(f)
  <2>1. f \notin TempOf(r)
    BY DEF TempOf
  <2> DEFINE pictures == {[f1 EXCEPT !.tmp = None, !.ext = ext[r]] : f1 \in TempOf(r)}
             replaced == {f1 \in files : \E g \in pictures : PathOf(f1) = PathOf(g)}
  <2>2. files' = ((files \ TempOf(r)) \ replaced) \cup pictures
    BY <1>3 DEF Rename
  <2>3. f \in replaced => \E g \in pictures : PathOf(g) = PathOf(f)
    BY DEF replaced
  <2> HIDE DEF pictures, replaced
  <2> QED
    BY <2>1, <2>2, <2>3
<1>4. ASSUME NEW k \in Cleaners, RemoveOld(k)
      PROVE  f \in files'
  BY <1>4 DEF RemoveOld, Remove, PathOf
<1>5. ASSUME NEW k \in Cleaners, RemoveExcess(k)
      PROVE  f \in files'
  <2>1. PICK p \in todo[k] : Remove(p) /\ cpc[k] = "count"
    BY <1>5 DEF RemoveExcess
  <2>2. ~(p.date > keptOn[k] - HotDays) /\ keptOn[k] <= day
    BY <2>1 DEF CleanersInv
  <2>3. p.date \in Int /\ keptOn[k] \in Int /\ day \in Int
    BY <2>1 DEF CleanersInv, Path, Today, Days
  <2>4. ~isHotFile(p.date)
    BY <2>2, <2>3 DEF isHotFile
  <2>5. PathOf(f) # p
    BY <2>4 DEF PathOf
  <2> QED
    BY <2>1, <2>5 DEF Remove
<1>6. ASSUME \/ NextDay \/ UNCHANGED vars \/ Crash
             \/ \E k \in Cleaners : BeginCleanup(k) \/ Relist(k) \/ EndCleanup(k)
             \/ \E r \in Requests : \/ Ensure(r) \/ Wait(r) \/ Look(r) \/ Acquire(r)
                                    \/ Skip(r) \/ RequestFails(r)
      PROVE  files' = files
  BY <1>6 DEF NextDay, vars, Crash, BeginCleanup, Relist, EndCleanup, Ensure, Wait, Look,
     Acquire, Skip, RequestFails
<1> QED
  BY <1>1, <1>2, <1>3, <1>4, <1>5, <1>6 DEF Next

(* Cleanup never removes a picture of the last HotDays days: what was cold  *)
(* at the listing does not become hot, and age is looked at again.         *)
THEOREM HotStay == Spec => HotPicturesKept
<1>1. IndInv /\ [Next]_vars =>
        [\A f \in files : f.tmp = None /\ isHotFile(f.date) =>
           \E g \in files' : PathOf(g) = PathOf(f)]_vars
  BY HotStep
<1> QED
  BY <1>1, Inductive, PTL DEF Spec, HotPicturesKept

(* Cleanup leaves at most maxFiles of what it found and did not mean to     *)
(* remove, unless those are all hot, whatever comes and goes meanwhile.     *)
THEOREM CleanupLeavesFew == Spec => []CleanupSuffices
<1>1. ASSUME IndInv, NEW k \in Cleaners,
             Cardinality({f \in files : PathOf(f) \in kept[k]}) > MaxFiles,
             NEW f \in files, PathOf(f) \in kept[k]
      PROVE  f.date > keptOn[k] - HotDays
  <2> DEFINE left == {g \in files : PathOf(g) \in kept[k]}
             h == [g \in left |-> PathOf(g)]
  <2>1. left \in SUBSET files
    OBVIOUS
  <2>2. IsFiniteSet(kept[k])
    BY <1>1 DEF IndInv, CleanersInv
  <2>3. h \in Injection(left, kept[k])
    BY <1>1 DEF IndInv, NamesInv, Injection, IsInjective
  <2>4. Cardinality(left) <= Cardinality(kept[k])
    BY <2>2, <2>3, FS_Injection
  <2>5. Cardinality(left) \in Nat /\ Cardinality(kept[k]) \in Nat
    BY <1>1, <2>1, <2>2, FiniteFiles, FS_CardinalityType DEF IndInv
  <2>6. Cardinality(left) > MaxFiles
    BY <1>1
  <2>7. Cardinality(kept[k]) > MaxFiles
    BY <2>4, <2>5, <2>6, ImageAssumption
  <2> QED
    BY <1>1, <2>7 DEF IndInv, CleanersInv, PathOf
<1>2. IndInv => CleanupSuffices
  BY <1>1 DEF CleanupSuffices
<1> QED
  BY <1>2, Inductive, PTL

-----------------------------------------------------------------------------
(* Nobody flies for a day to come, and no file is from one.                 *)
DatesInv ==
  /\ \A r \in Requests : pc[r] \in Flying => want[r] \in 1..day
  /\ \A f \in files : f.mtime \in FirstDay..day
  /\ \A f \in files : f.tmp = None => f.ext \in Exts /\ f.date \in 1..day

(* The dates hold at the start.                                             *)
LEMMA InitDates == Init => DatesInv
<1> SUFFICES ASSUME Init PROVE DatesInv
  OBVIOUS
<1>1. PICK old \in SUBSET (1..FirstDay), e \in Exts :
        files = {[date |-> d, ext |-> e, tmp |-> None, whole |-> TRUE,
                  mtime |-> FirstDay] : d \in old}
  BY DEF Init
<1>2. \A f \in files : f.mtime = FirstDay /\ f.ext = e /\ f.date \in 1..FirstDay
  BY <1>1
<1> QED
  BY <1>2, ImageAssumption DEF Init, DatesInv, Flying, Beyond, Busy

(* What is known of the dates outlives the files and the day.               *)
LEMMA DatesShrink ==
  ASSUME IndInv, DatesInv, files' \subseteq files, want' = want, day' \in Nat, day <= day',
         \A r \in Requests : pc'[r] \in Flying => pc[r] \in Flying
  PROVE  DatesInv'
<1>1. day \in Int /\ FirstDay \in Int
  BY ImageAssumption DEF IndInv, Today
<1>2. \A n : n \in 1..day => n \in 1..day'
  BY <1>1
<1>3. \A n : n \in FirstDay..day => n \in FirstDay..day'
  BY <1>1
<1> QED
  BY <1>2, <1>3 DEF DatesInv

(* Every step keeps the dates.                                              *)
LEMMA DatesStep ==
  ASSUME IndInv, DatesInv, [Next]_vars
  PROVE  DatesInv'
<1> USE ImageAssumption
<1>0. day \in Nat /\ FirstDay \in Nat /\ FirstDay <= day /\ day \in FirstDay..day
  BY DEF IndInv, Today
<1>1. ASSUME NEW r \in Requests, Ensure(r)
      PROVE  DatesInv'
  <2>1. PICK d \in 1..day : want' = [want EXCEPT ![r] = d]
    BY <1>1 DEF Ensure
  <2>2. files' = files /\ day' = day /\ \E label : pc' = [pc EXCEPT ![r] = label]
    BY <1>1 DEF Ensure, Goto
  <2> QED
    BY <2>1, <2>2 DEF DatesInv, IndInv, CallsInv
<1>2. ASSUME \/ NextDay \/ UNCHANGED vars \/ Crash
             \/ \E k \in Cleaners : \/ BeginCleanup(k) \/ RemoveOld(k) \/ Relist(k)
                                    \/ RemoveExcess(k) \/ EndCleanup(k)
             \/ \E r \in Requests : \/ Wait(r) \/ Look(r) \/ Acquire(r) \/ Skip(r)
                                    \/ RequestFails(r) \/ CopyFails(r)
      PROVE  /\ files' \subseteq files /\ want' = want
             /\ day' = day \/ day' = day + 1
  BY <1>2 DEF NextDay, vars, callVars, Crash, BeginCleanup, RemoveOld, Remove, Relist,
     RemoveExcess, EndCleanup, Wait, Look, Acquire, Skip, RequestFails, CopyFails, EndFlight
<1>6. ASSUME NEW r \in Requests, \A s \in Requests : ~Ensure(s), pc'[r] \in Flying
      PROVE  pc[r] \in Flying
  <2>1. CASE pc'[r] = pc[r]
    BY <1>6, <2>1
  <2>2. CASE Crash
    BY <1>6, <2>2 DEF Crash, Running, Flying, Beyond, Busy
  <2>3. ASSUME NEW s \in Requests, pc' = [pc EXCEPT ![s] = "done"]
        PROVE  pc[r] \in Flying
    BY <1>6, <2>3 DEF IndInv, CallsInv, Flying, Beyond, Busy
  <2>4. ASSUME NEW s \in Requests, pc[s] \in Flying,
               \E label : pc' = [pc EXCEPT ![s] = label]
        PROVE  pc[r] \in Flying
    BY <1>6, <2>4 DEF IndInv, CallsInv
  <2>5. ASSUME NEW s \in Requests, Wait(s) \/ Skip(s) \/ RequestFails(s) \/ CopyFails(s) \/ Rename(s)
        PROVE  pc' = [pc EXCEPT ![s] = "done"]
    BY <2>5 DEF Wait, Skip, RequestFails, CopyFails, Rename, EndFlight, Goto
  <2>6. ASSUME NEW s \in Requests, Look(s) \/ Acquire(s) \/ CreateTemp(s) \/ Copy(s)
        PROVE  pc[s] \in Flying /\ \E label : pc' = [pc EXCEPT ![s] = label]
    BY <2>6 DEF Look, Acquire, CreateTemp, Copy, EndFlight, Goto, Flying, Beyond, Busy
  <2>7. ASSUME \/ NextDay \/ UNCHANGED vars
               \/ \E k \in Cleaners : \/ BeginCleanup(k) \/ RemoveOld(k) \/ Relist(k)
                                      \/ RemoveExcess(k) \/ EndCleanup(k)
        PROVE  pc' = pc
    BY <2>7 DEF NextDay, vars, callVars, BeginCleanup, RemoveOld, Relist, RemoveExcess,
       EndCleanup
  <2> QED
    BY <1>6, <2>1, <2>2, <2>3, <2>4, <2>5, <2>6, <2>7 DEF Next
<1>3. ASSUME NEW r \in Requests, CreateTemp(r)
      PROVE  DatesInv'
  <2> DEFINE g == [date |-> want[r], ext |-> None, tmp |-> r, whole |-> FALSE, mtime |-> day]
  <2>1. g.mtime = day /\ g.tmp = r /\ r # None
    OBVIOUS
  <2>2. files' = files \cup {g} /\ want' = want /\ day' = day
    BY <1>3 DEF CreateTemp
  <2>3. \A s \in Requests : pc'[s] \in Flying => pc[s] \in Flying
    BY <1>3 DEF CreateTemp, Goto, IndInv, CallsInv, Flying, Beyond, Busy
  <2> HIDE DEF g
  <2> QED
    BY <1>0, <2>1, <2>2, <2>3 DEF DatesInv
<1>4. ASSUME NEW r \in Requests, Copy(r)
      PROVE  DatesInv'
  <2>1. \A f \in TempOf(r) : LET g == [f EXCEPT !.whole = TRUE, !.mtime = day]
                             IN  g.mtime = day /\ g.tmp # None
    BY DEF TempOf, IndInv, NamesInv, File
  <2>2. /\ files' = (files \ TempOf(r))
                      \cup {[f EXCEPT !.whole = TRUE, !.mtime = day] : f \in TempOf(r)}
        /\ want' = want /\ day' = day
    BY <1>4 DEF Copy
  <2>3. \A s \in Requests : pc'[s] \in Flying => pc[s] \in Flying
    BY <1>4 DEF Copy, Goto, IndInv, CallsInv, Flying, Beyond, Busy
  <2> QED
    BY <1>0, <2>1, <2>2, <2>3 DEF DatesInv
<1>5. ASSUME NEW r \in Requests, Rename(r)
      PROVE  DatesInv'
  <2>1. pc[r] = "rename" /\ want' = want /\ day' = day
    BY <1>5 DEF Rename, EndFlight
  <2>2. ext[r] \in Exts /\ want[r] \in 1..day
    BY <2>1 DEF IndInv, CallsInv, Flying, Beyond, Busy, DatesInv
  <2>3. \A f \in TempOf(r) : f \in files /\ f \in File /\ f.date = want[r]
    BY DEF TempOf, IndInv, NamesInv, TempsInv
  <2>4. \A f \in TempOf(r) : LET g == [f EXCEPT !.tmp = None, !.ext = ext[r]]
                             IN  g.mtime = f.mtime /\ g.ext = ext[r] /\ g.date = want[r]
    BY <2>3 DEF File
  <2>5. \A f \in files' : \/ f \in files
                          \/ f.mtime \in FirstDay..day /\ f.ext \in Exts /\ f.date \in 1..day
    BY <1>5, <2>2, <2>3, <2>4 DEF Rename, DatesInv
  <2>6. \A s \in Requests : pc'[s] \in Flying => pc[s] \in Flying
    BY <1>5 DEF Rename, EndFlight, Goto, IndInv, CallsInv, Flying, Beyond, Busy
  <2> QED
    BY <2>1, <2>5, <2>6 DEF DatesInv
<1>7. CASE \A r \in Requests : ~Ensure(r)
  BY <1>0, <1>2, <1>3, <1>4, <1>5, <1>6, <1>7, DatesShrink DEF Next
<1> QED
  BY <1>1, <1>7

-----------------------------------------------------------------------------
\* What a reader sees of a file, and what is found of a set of files.
Seen(f) == [date |-> f.date, ext |-> f.ext, whole |-> f.whole, mtime |-> f.mtime]
Found(S) == {Seen(f) : f \in {g \in S : g.tmp = None}}

(* The fields of what a reader sees; the shelf is what is found of the      *)
(* files.                                                                  *)
LEMMA SeenFields ==
  /\ \A f : /\ Seen(f).date = f.date /\ Seen(f).ext = f.ext
            /\ Seen(f).whole = f.whole /\ Seen(f).mtime = f.mtime
  /\ Shelf = Found(files) /\ Shelf' = Found(files')
  BY DEF Seen, Shelf, Found

(* Files that nobody finds may come and go.                                 *)
LEMMA UnseenFiles ==
  ASSUME NEW S, NEW T,
         {g \in S : g.tmp = None} = {g \in T : g.tmp = None}
  PROVE  Found(S) = Found(T)
  BY DEF Found

(* Taking away a path takes at most one picture from the shelf.             *)
LEMMA RemoveDiscards ==
  ASSUME IndInv, NEW p \in Path, Remove(p), p.date <= day - HotDays, day' = day
  PROVE  Readers!Discard \/ UNCHANGED Readers!vars
<1>1. files' = {f \in files : PathOf(f) # p}
  BY DEF Remove
<1>2. CASE \A f \in files : PathOf(f) = p => f.tmp # None
  <2>1. {g \in files : g.tmp = None} = {g \in files' : g.tmp = None}
    BY <1>1, <1>2
  <2>2. Shelf' = Shelf
    BY <2>1, UnseenFiles, SeenFields
  <2> QED
    BY <2>2 DEF Readers!vars
<1>3. ASSUME NEW f \in files, PathOf(f) = p, f.tmp = None
      PROVE  Readers!Discard
  <2>1. files' = files \ {f}
    BY <1>1, <1>3 DEF IndInv, NamesInv
  <2>2. \A g \in files : g.tmp = None /\ Seen(g) = Seen(f) => g = f
    <3>1. \A g \in files : Seen(g) = Seen(f) => g.date = f.date
      BY SeenFields
    <3> QED
      BY <1>3, <3>1 DEF IndInv, PicturesInv
  <2>3. Found(files') = Found(files) \ {Seen(f)}
    BY <2>1, <2>2 DEF Found
  <2>4. Seen(f) \in Shelf /\ Seen(f).date = p.date
    BY <1>3, SeenFields, SamePath DEF Found, PathOf
  <2> QED
    BY <2>3, <2>4, SeenFields DEF Readers!Discard
<1> QED
  BY <1>2, <1>3

(* What a Cleanup takes away is cold on the day it does so.                 *)
LEMMA CleanupDiscards ==
  ASSUME IndInv, NEW k \in Cleaners, RemoveOld(k) \/ RemoveExcess(k)
  PROVE  Readers!Discard \/ UNCHANGED Readers!vars
<1>1. PICK p \in todo[k] :
        \/ isHotFile(p.date) /\ UNCHANGED files
        \/ ~isHotFile(p.date) /\ Remove(p)
        \/ cpc[k] = "count" /\ Remove(p)
  BY DEF RemoveOld, RemoveExcess
<1>2. /\ day' = day /\ p \in Path /\ p.date \in Int /\ day \in Int /\ keptOn[k] \in Int
      /\ HotDays \in Int /\ keptOn[k] <= day
  BY ImageAssumption DEF RemoveOld, RemoveExcess, IndInv, CleanersInv, Path, Days, Today
<1>3. CASE UNCHANGED files
  <2>1. Shelf' = Shelf
    BY <1>3 DEF Shelf
  <2> QED
    BY <1>2, <2>1 DEF Readers!vars
<1>4. CASE ~isHotFile(p.date) /\ Remove(p)
  BY <1>2, <1>4, RemoveDiscards DEF isHotFile
<1>5. CASE cpc[k] = "count" /\ Remove(p)
  <2>1. ~(p.date > keptOn[k] - HotDays)
    BY <1>5 DEF IndInv, CleanersInv
  <2> QED
    BY <1>2, <1>5, <2>1, RemoveDiscards
<1> QED
  BY <1>1, <1>3, <1>4, <1>5

(* A rename puts a picture on the shelf on which there is none of the date, *)
(* if its file is still there.                                             *)
LEMMA RenamePublishes ==
  ASSUME IndInv, DatesInv, NEW r \in Requests, Rename(r)
  PROVE  Readers!Publish \/ UNCHANGED Readers!vars
<1> USE ImageAssumption
<1>1. /\ pc[r] = "rename" /\ r # None /\ want[r] \in Days /\ ext[r] \in Exts /\ day' = day
  BY DEF Rename, IndInv, CallsInv, Flying, Beyond, Busy
<1>2. Pictures(want[r]) = {}
  BY <1>1 DEF IndInv, PicturesInv, Beyond, Busy
<1>3. CASE TempOf(r) = {}
  <2>1. files' = files
    BY <1>3 DEF Rename
  <2>2. Shelf' = Shelf
    BY <2>1 DEF Shelf
  <2> QED
    BY <1>1, <2>2 DEF Readers!vars
<1>4. CASE TempOf(r) # {}
  <2>1. PICK f \in files : TempOf(r) = {f} /\ f.tmp = r
    BY <1>4, OneTemp
  <2> DEFINE g == [f EXCEPT !.tmp = None, !.ext = ext[r]]
             replaced == {h \in files : PathOf(h) = PathOf(g)}
  <2>2. files' = ((files \ {f}) \ replaced) \cup {g}
    BY <2>1 DEF Rename
  <2>3. f \in File /\ f.date = want[r] /\ f.whole
    BY <1>1, <2>1 DEF IndInv, NamesInv, TempsInv
  <2>4. g.date = want[r] /\ g.tmp = None /\ g.ext = ext[r] /\ g.whole = TRUE
        /\ g.mtime = f.mtime
    BY <2>3 DEF File
  <2> HIDE DEF g
  <2>5. \A h \in files : h.tmp = None => h.date # want[r]
    BY <1>2 DEF Pictures
  <2>6. \A h \in replaced : h.tmp # None
    BY <2>4, <2>5, SamePath
  <2>7. replaced = {}
    BY <2>4, <2>6, SamePath
  <2>8. Found(files') = Found(files) \cup {Seen(g)}
    BY <1>1, <2>1, <2>2, <2>4, <2>7 DEF Found
  <2>9. Seen(g) \in Readers!PicturesBy(day)
    <3>1. want[r] \in 1..day /\ f.mtime \in FirstDay..day
      BY <1>1, <2>1 DEF DatesInv, Flying, Beyond, Busy
    <3> QED
      BY <1>1, <2>4, <3>1 DEF Seen, Readers!PicturesBy
  <2>10. \A q \in Shelf : q.date # Seen(g).date
    BY <2>4, <2>5, SeenFields DEF Found
  <2> QED
    BY <1>1, <2>8, <2>9, <2>10, SeenFields DEF Readers!Publish
<1> QED
  BY <1>3, <1>4

(* The pictures a process finds are on the shelf from the start.            *)
LEMMA InitReaders == Init => Readers!Init
<1> SUFFICES ASSUME Init PROVE Readers!Init
  OBVIOUS
<1>1. PICK old \in SUBSET (1..FirstDay), e \in Exts :
        files = {[date |-> d, ext |-> e, tmp |-> None, whole |-> TRUE,
                  mtime |-> FirstDay] : d \in old}
  BY DEF Init
<1>2. FirstDay \in FirstDay..FirstDay
  BY ImageAssumption
<1> DEFINE picture(d) == [date |-> d, ext |-> e, whole |-> TRUE, mtime |-> FirstDay]
<1>3. \A p \in Shelf : \E d \in 1..FirstDay : p = picture(d)
  BY <1>1 DEF Shelf
<1>6. \A d \in 1..FirstDay : picture(d) \in Readers!PicturesBy(FirstDay) /\ picture(d).date = d
  BY <1>2 DEF Readers!PicturesBy
<1> HIDE DEF picture
<1>4. Shelf \subseteq Readers!PicturesBy(FirstDay)
  BY <1>3, <1>6
<1>5. \A p, q \in Shelf : p.date = q.date => p = q
  BY <1>3, <1>6
<1> QED
  BY <1>4, <1>5 DEF Init, Readers!Init

(* Every step puts one picture on the shelf, takes a cold one away, or does *)
(* not show.                                                               *)
LEMMA NextReaders == IndInv /\ DatesInv /\ [Next]_vars => [Readers!Next]_(Readers!vars)
<1> SUFFICES ASSUME IndInv, DatesInv, [Next]_vars
             PROVE  Readers!Next \/ UNCHANGED Readers!vars
  OBVIOUS
<1>1. ASSUME NEW r \in Requests, CreateTemp(r) \/ Copy(r) \/ CopyFails(r)
      PROVE  UNCHANGED Readers!vars
  <2>1. r # None /\ day' = day
    BY <1>1, ImageAssumption DEF CreateTemp, Copy, CopyFails
  <2>2. \A f \in TempOf(r) : [f EXCEPT !.whole = TRUE, !.mtime = day].tmp = r
    BY DEF TempOf, IndInv, NamesInv, File
  <2>3. \A f \in TempOf(r) : f.tmp = r
    BY DEF TempOf
  <2>4. \A f \in files \cup files' : f.tmp = None => (f \in files <=> f \in files')
    <3>1. CASE CreateTemp(r)
      <4>1. [date |-> want[r], ext |-> None, tmp |-> r, whole |-> FALSE, mtime |-> day].tmp = r
        OBVIOUS
      <4> QED
        BY <2>1, <3>1, <4>1 DEF CreateTemp
    <3>2. CASE Copy(r)
      BY <2>1, <2>2, <2>3, <3>2 DEF Copy
    <3>3. CASE CopyFails(r)
      BY <2>1, <2>3, <3>3 DEF CopyFails
    <3> QED
      BY <1>1, <3>1, <3>2, <3>3
  <2>5. {g \in files : g.tmp = None} = {g \in files' : g.tmp = None}
    BY <2>4
  <2> QED
    BY <2>1, <2>5, UnseenFiles, SeenFields DEF Readers!vars
<1>2. ASSUME \/ UNCHANGED vars \/ Crash
             \/ \E k \in Cleaners : BeginCleanup(k) \/ Relist(k) \/ EndCleanup(k)
             \/ \E r \in Requests : \/ Ensure(r) \/ Wait(r) \/ Look(r) \/ Acquire(r)
                                    \/ Skip(r) \/ RequestFails(r)
      PROVE  UNCHANGED Readers!vars
  <2>1. files' = files /\ day' = day
    BY <1>2 DEF vars, Crash, BeginCleanup, Relist, EndCleanup, Ensure, Wait, Look, Acquire,
       Skip, RequestFails
  <2> QED
    BY <2>1 DEF Readers!vars, Shelf
<1>3. ASSUME NextDay
      PROVE  Readers!NextDay
  BY <1>3 DEF NextDay, Readers!NextDay, Shelf
<1>4. ASSUME Readers!Publish \/ Readers!Discard
      PROVE  Readers!Next \/ UNCHANGED Readers!vars
  <2>1. day' = day
    BY <1>4 DEF Readers!Publish, Readers!Discard
  <2> QED
    BY <1>4, <2>1 DEF Readers!Next, Readers!vars
<1>5. Readers!NextDay => Readers!Next
  BY DEF Readers!Next
<1> QED
  BY <1>1, <1>2, <1>3, <1>4, <1>5, RenamePublishes, CleanupDiscards DEF Next

(* The directory implements the shelf its readers see: whatever the order   *)
(* of downloads, cleanups, midnights and crashes.                          *)
THEOREM Implements == Spec => ImplementsPictureStore
<1>1. Spec => []DatesInv
  BY InitDates, DatesStep, Inductive, PTL DEF Spec
<1> QED
  BY <1>1, InitReaders, NextReaders, Inductive, PTL
  DEF Spec, ImplementsPictureStore, Readers!Spec
=============================================================================
