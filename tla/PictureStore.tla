---------------------------- MODULE PictureStore ----------------------------
(***************************************************************************)
(* What the readers of the picture directory may rely on, whoever          *)
(* downloads, cleans up or dies meanwhile: pictures appear and disappear   *)
(* whole and one at a time, a date has one, it stays what it is until it   *)
(* is discarded, and no picture of the last HotDays days is discarded.     *)
(***************************************************************************)
EXTENDS Integers

CONSTANTS Exts, HotDays, FirstDay

VARIABLES
  day,
  shelf   \* the pictures that can be found

vars == <<day, shelf>>

\* Pictures that may be on the shelf on a day.
PicturesBy(d) == [date : 1..d, ext : Exts, whole : {TRUE}, mtime : FirstDay..d]

Init ==
  /\ day = FirstDay
  /\ shelf \subseteq PicturesBy(FirstDay)
  /\ \A p, q \in shelf : p.date = q.date => p = q

Publish ==
  /\ \E p \in PicturesBy(day) :
       /\ \A q \in shelf : q.date # p.date
       /\ shelf' = shelf \cup {p}
  /\ UNCHANGED day

Discard ==
  /\ \E p \in shelf :
       /\ p.date <= day - HotDays
       /\ shelf' = shelf \ {p}
  /\ UNCHANGED day

NextDay ==
  /\ day' = day + 1
  /\ UNCHANGED shelf

\* The comparison spares TLC the rest in the many steps that do not show.
Next ==
  \/ shelf' # shelf /\ (Publish \/ Discard)
  \/ NextDay

Spec == Init /\ [][Next]_vars
=============================================================================
