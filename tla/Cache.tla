-------------------------------- MODULE Cache --------------------------------
(***************************************************************************)
(* What store.Cache promises its users, whatever the implementation: the   *)
(* cache may forget anything at any time, and a lookup may miss, but what  *)
(* a lookup finds is what was stored last under the key, at some time      *)
(* between the call and the answer.  GetLast finds the newest record that  *)
(* is left.  Only Set stores: a lookup that has found its answer and goes  *)
(* on (Found) may forget, but puts nothing in the table.                   *)
(***************************************************************************)
EXTENDS Integers

CONSTANTS Keys,     \* the dates, as integers
          Values,   \* versions of a record
          Callers,
          None, Last, Found

VARIABLES contents,  \* key -> the value stored last, or None
          pending,   \* what each caller is looking up: a key, Last, Found or None
          reply      \* what each caller was answered last

vars == <<contents, pending, reply>>

Init ==
  /\ contents = [k \in Keys |-> None]
  /\ pending = [c \in Callers |-> None]
  /\ reply = [c \in Callers |-> None]

\* What is left of a table when any part of it has been forgotten.
PartOf(left, table) == \A k \in Keys : left[k] \in {table[k], None}

LeavePartOf(table) ==
  /\ contents' \in [Keys -> Values \cup {None}]
  /\ PartOf(contents', table)

Ask(c) ==
  /\ pending[c] = None
  /\ \E q \in Keys \cup {Last} : pending' = [pending EXCEPT ![c] = q]
  /\ UNCHANGED <<contents, reply>>

Reply(c) ==
  /\ pending[c] \in Keys
  /\ \E q \in {Found, None} : pending' = [pending EXCEPT ![c] = q]
  /\ \E v \in {contents[pending[c]], None} : reply' = [reply EXCEPT ![c] = v]
  /\ UNCHANGED contents

Close(c) ==
  /\ pending[c] = Found
  /\ pending' = [pending EXCEPT ![c] = None]
  /\ LeavePartOf(contents)
  /\ UNCHANGED reply

ReplyLast(c) ==
  /\ pending[c] = Last
  /\ pending' = [pending EXCEPT ![c] = None]
  /\ LeavePartOf(contents)
  /\ \/ /\ \A k \in Keys : contents'[k] = None
        /\ reply' = [reply EXCEPT ![c] = None]
     \/ \E k \in Keys : /\ contents'[k] # None
                        /\ \A j \in Keys : contents'[j] # None => j <= k
                        /\ reply' = [reply EXCEPT ![c] = contents'[k]]

Store ==
  /\ \E k \in Keys, v \in Values : LeavePartOf([contents EXCEPT ![k] = v])
  /\ UNCHANGED <<pending, reply>>

Forget ==
  /\ LeavePartOf(contents)
  /\ UNCHANGED <<pending, reply>>

Next == \/ \E c \in Callers : Ask(c) \/ Reply(c) \/ Close(c) \/ ReplyLast(c)
        \/ Store \/ Forget

Spec == Init /\ [][Next]_vars
=============================================================================
