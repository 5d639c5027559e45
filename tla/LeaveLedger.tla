----------------------------- MODULE LeaveLedger -----------------------------
(***************************************************************************)
(* What the leave handlers promise, with no counters, locks or             *)
(* transactions: entitlements, and requests that each draw some days from  *)
(* some balances.  A request is made, settled and an entitlement changed   *)
(* in one step each, and a balance has always the room for what is waiting *)
(* or approved.                                                            *)
(***************************************************************************)
EXTENDS Integers, FiniteSets

CONSTANTS Accounts, Requests, Days, Entitlements, None

VARIABLES
  entitled,  \* what each balance allows, None before it is set
  drawn,     \* the <<balance, day>> pairs of each request
  status     \* of each request, "none" before it is made

Verdicts == {"APPROVED", "REJECTED", "WITHDRAWN"}

Init ==
  /\ entitled = [a \in Accounts |-> None]
  /\ drawn = [r \in Requests |-> {}]
  /\ status = [r \in Requests |-> "none"]

\* The days that waiting and approved requests draw from a balance.
Taken(a) ==
  {p \in Requests \X Days : status[p[1]] \in {"PENDING", "APPROVED"} /\ <<a, p[2]>> \in drawn[p[1]]}

Room(a, n) == entitled[a] # None /\ Cardinality(Taken(a)) + n <= entitled[a]

\* A request draws each of its days from one balance, and every balance has room
\* for all it is asked for.
Make(r, pairs) ==
  /\ status[r] = "none" /\ pairs # {}
  /\ \A p, q \in pairs : p[2] = q[2] => p = q
  /\ \A a \in Accounts :
       LET days == {d \in Days : <<a, d>> \in pairs}
       IN  days # {} => Room(a, Cardinality(days))
  /\ drawn' = [drawn EXCEPT ![r] = pairs]
  /\ status' = [status EXCEPT ![r] = "PENDING"]
  /\ UNCHANGED entitled

Settle(r, verdict) ==
  /\ status[r] = "PENDING"
  /\ status' = [status EXCEPT ![r] = verdict]
  /\ UNCHANGED <<entitled, drawn>>

Entitle(a, n) ==
  /\ Cardinality(Taken(a)) <= n
  /\ entitled' = [entitled EXCEPT ![a] = n]
  /\ UNCHANGED <<drawn, status>>

Next ==
  \/ \E r \in Requests, pairs \in SUBSET (Accounts \X Days) : Make(r, pairs)
  \/ \E r \in Requests, verdict \in Verdicts : Settle(r, verdict)
  \/ \E a \in Accounts, n \in Entitlements : Entitle(a, n)

Spec == Init /\ [][Next]_<<entitled, drawn, status>>
=============================================================================
