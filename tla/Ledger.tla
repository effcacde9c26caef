------------------------------- MODULE Ledger -------------------------------
(***************************************************************************)
(* What the limit on requests without a key means: each address has a page *)
(* with the requests that hold a charge in its window, and another request *)
(* is let in while there are fewer than Limit.  A charge that is given     *)
(* back is taken off the page, whoever made it; a request of an earlier    *)
(* window is not on the page, and makes room for one more.  A page is      *)
(* thrown away when its window is over, or nothing is left on it.          *)
(***************************************************************************)
EXTENDS Integers, FiniteSets

CONSTANTS Requests, Ips, Limit, Window, None

VARIABLES
  clock,
  pc, ip,  \* each request: where it is, and its address
  book     \* address -> [held, late, bgn], the page of its window, or None

vars == <<clock, pc, ip, book>>

Init ==
  /\ clock = 0
  /\ pc = [r \in Requests |-> "idle"]
  /\ ip = [r \in Requests |-> None]
  /\ book = [i \in Ips |-> None]

Goto(r, label) == pc' = [pc EXCEPT ![r] = label]

Balance(page) == Cardinality(page.held) - page.late

\* The windows that are over; whoever looks at the book may throw pages away.
Ended == {i \in Ips : book[i] # None /\ clock - book[i].bgn >= Window}
Without(gone) == [i \in Ips |-> IF i \in gone THEN None ELSE book[i]]

Arrive(r) ==
  /\ pc[r] = "idle"
  /\ \E i \in Ips : ip' = [ip EXCEPT ![r] = i]
  /\ Goto(r, "allow")
  /\ UNCHANGED <<clock, book>>

ChargeFirst(r) ==
  /\ Goto(r, "handling")
  /\ \E gone \in SUBSET Ended, t \in 0..clock :
       /\ Without(gone)[ip[r]] = None
       /\ book' = [Without(gone) EXCEPT ![ip[r]] = [held |-> {r}, late |-> 0, bgn |-> t]]

ChargeAnother(r) ==
  /\ Goto(r, "handling")
  /\ \E gone \in SUBSET Ended :
       /\ Without(gone)[ip[r]] # None
       /\ Balance(book[ip[r]]) < Limit
       /\ book' = [Without(gone) EXCEPT ![ip[r]].held = @ \cup {r}]

Deny(r) ==
  /\ Goto(r, "denied")
  /\ \E gone \in SUBSET Ended :
       /\ Without(gone)[ip[r]] # None
       /\ Balance(book[ip[r]]) >= Limit
       /\ book' = Without(gone)

Allow(r) ==
  /\ pc[r] = "allow"
  /\ ChargeFirst(r) \/ ChargeAnother(r) \/ Deny(r)
  /\ UNCHANGED <<clock, ip>>

Answer(r) ==
  /\ pc[r] = "handling"
  /\ \E label \in {"ok", "panicked", "refund"} : Goto(r, label)
  /\ UNCHANGED <<clock, ip, book>>

\* The page without the charge of r.
Refunded(page, r) ==
  IF r \in page.held THEN [page EXCEPT !.held = @ \ {r}] ELSE [page EXCEPT !.late = @ + 1]

Refund(r) ==
  /\ pc[r] = "refund"
  /\ Goto(r, "refunded")
  /\ LET i == ip[r]
     IN  \/ book[i] = None /\ UNCHANGED book
         \/ i \in Ended /\ book' = Without({i})
         \/ /\ book[i] # None
            /\ LET page == Refunded(book[i], r)
               IN  book' = [book EXCEPT ![i] = IF Balance(page) = 0 THEN None ELSE page]
  /\ UNCHANGED <<clock, ip>>

Sweep ==
  /\ UNCHANGED <<clock, pc, ip>>
  /\ \E gone \in SUBSET Ended : book' = Without(gone)

Tick ==
  /\ clock' = clock + 1
  /\ UNCHANGED <<pc, ip, book>>

Next ==
  \/ \E r \in Requests : Arrive(r) \/ Allow(r) \/ Answer(r) \/ Refund(r)
  \/ Sweep \/ Tick

Spec == Init /\ [][Next]_vars
=============================================================================
