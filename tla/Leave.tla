------------------------------- MODULE Leave -------------------------------
(***************************************************************************)
(* Leave balances and requests.  Each handler is a transaction that takes  *)
(* its row locks one by one and keeps them to its end, so the model gives  *)
(* each handler the steps between which another can run: the reads before  *)
(* the first lock, one step per lock, the commit.  What a transaction      *)
(* wrote is seen by others from its commit on.                             *)
(*                                                                         *)
(* A balance is a row of leave_balances, named by its unique key: member,  *)
(* leave type and year.  Days are numbered; the work days of a request are *)
(* drawn from the balance of the year each of them lies in.                *)
(***************************************************************************)
EXTENDS Integers, FiniteSets

CONSTANTS
  Members,       \* active organization_memberships
  Types,         \* active leave_types
  Requests,      \* ids a leave request can get
  Handlers,      \* HTTP requests being served at the same time
  Days,          \* the calendar
  WorkDays,      \* the days that are neither Saturday nor Sunday
  YearOf,        \* [Days -> year]
  Entitlements,  \* what an administrator may set
  NoRow, NoRequest, Idle, Granted

Years == {YearOf[d] : d \in Days}
Accounts == Members \X Types \X Years
Live == {"PENDING", "APPROVED"}
Verdicts == {"APPROVED", "REJECTED", "WITHDRAWN"}

Balance == [entitled: Nat, used: Nat, pending: Nat]
Request == [member: Members, type: Types, first: Days, last: Days,
            status: {"PENDING"} \cup Verdicts]
\* A transaction of createLeaveRequest ("create"), of decideLeaveRequest or
\* withdrawLeaveRequest (its verdict): the years locked, the years still to be
\* locked, and the one it has asked for, or Granted when there is none left.
Locking == [op: {"create"} \cup Verdicts, id: Requests, form: Request,
            held: SUBSET Years, todo: SUBSET Years, asks: Years \cup {Granted}]
\* A transaction of setLeaveBalance after its check.
Setting == [op: {"set"}, account: Accounts, days: Nat]

ASSUME CalendarIsFinite ==
  /\ Days \subseteq Nat /\ IsFiniteSet(Days) /\ WorkDays \subseteq Days
  /\ IsFiniteSet(Requests) /\ Entitlements \subseteq Nat
ASSUME MarksAreNoValues ==
  /\ NoRow \notin Balance \cup Nat /\ NoRequest \notin Request
  /\ Idle \notin Locking \cup Setting /\ Granted \notin Years

VARIABLES
  balance,   \* leave_balances
  request,   \* leave_requests
  tx,        \* what each handler is doing
  raced      \* history: pairs of requests, one committed after the other was checked

vars == <<balance, request, tx, raced>>

-----------------------------------------------------------------------------
(* leaveDaysByYear and the two queries *)

DaysIn(form, y) ==
  {d \in WorkDays : form.first <= d /\ d <= form.last /\ YearOf[d] = y}
Cost(form, y) == Cardinality(DaysIn(form, y))
YearsOf(form) == {y \in Years : DaysIn(form, y) # {}}

\* Mutant: an approved request no longer counts.
OverlappingPending(form) ==
  {r \in Requests :
     /\ request[r] # NoRequest /\ request[r].member = form.member
     /\ request[r].status = "PENDING"
     /\ request[r].first <= form.last /\ request[r].last >= form.first}

\* Committed requests of the member that are live and share a day.
Overlapping(form) ==
  {r \in Requests :
     /\ request[r] # NoRequest /\ request[r].member = form.member
     /\ request[r].status \in Live
     /\ request[r].first <= form.last /\ request[r].last >= form.first}

AccountOf(form, y) == <<form.member, form.type, y>>

Fits(form, y) ==
  LET b == balance[AccountOf(form, y)]
  IN  b # NoRow /\ b.entitled - b.used - b.pending >= Cost(form, y)

-----------------------------------------------------------------------------
(* Locks *)

Locks(h) == tx[h] # Idle /\ tx[h].op # "set"
Creates(h) == tx[h] # Idle /\ tx[h].op = "create"

Holds(h, a) == Locks(h) /\ \E y \in tx[h].held : a = AccountOf(tx[h].form, y)

\* No other handler has locked balance a.
Free(h, a) == \A g \in Handlers \ {h} : ~Holds(g, a)

Asks(h) == Locks(h) /\ tx[h].asks # Granted
Asked(h) == AccountOf(tx[h].form, tx[h].asks)

\* Handlers in the set wait for each other; InnoDB rolls one of them back.
Deadlocked(S) ==
  \A h \in S : Asks(h) /\ \E g \in S \ {h} : Holds(g, Asked(h))

Rollback(h) ==
  /\ tx' = [tx EXCEPT ![h] = Idle]
  /\ UNCHANGED <<balance, request, raced>>

\* A transaction starts and asks for its first balance, in any order: createLeaveRequest
\* ranges over a Go map, and the join is read in the order of the ids.
Start(h, verdict, r, form) ==
  /\ \E y \in YearsOf(form) :
       tx' = [tx EXCEPT ![h] =
                [op |-> verdict, id |-> r, form |-> form, held |-> {},
                 todo |-> YearsOf(form) \ {y}, asks |-> y]]
  /\ UNCHANGED <<balance, request>>

\* The lock is granted; the next one is asked for, if any.
Grant(h) ==
  /\ \E y \in IF tx[h].todo = {} THEN {Granted} ELSE tx[h].todo :
       tx' = [tx EXCEPT ![h].held = @ \cup {tx[h].asks}, ![h].asks = y,
                        ![h].todo = @ \ {y}]
  /\ UNCHANGED <<balance, request, raced>>

-----------------------------------------------------------------------------
(* createLeaveRequest *)

InUse(r) == request[r] # NoRequest \/ \E h \in Handlers : Locks(h) /\ tx[h].id = r

\* The range has a work day, and no live request overlaps it in the snapshot.
BeginCreate(h, r, form) ==
  /\ tx[h] = Idle /\ ~InUse(r)
  /\ form.status = "PENDING" /\ form.first <= form.last
  /\ YearsOf(form) # {} /\ Overlapping(form) = {}
  /\ Start(h, "create", r, form)
  /\ raced' = {p \in raced : r \notin p}   \* the id of a rolled back request is new again

\* Mutant: the handler does not return when the balance has no room.
LockWhenItFits(h) ==
  /\ Asks(h) /\ tx[h].op = "create" /\ Free(h, Asked(h))
  /\ Fits(tx[h].form, tx[h].asks) /\ Grant(h)

\* The balance is locked, and has room or not; a refusal rolls back.
LockToCreate(h) ==
  /\ Asks(h) /\ tx[h].op = "create" /\ Free(h, Asked(h))
  /\ IF Fits(tx[h].form, tx[h].asks) THEN Grant(h) ELSE Rollback(h)

CommitCreate(h) ==
  /\ Locks(h) /\ tx[h].op = "create" /\ tx[h].asks = Granted
  /\ request' = [request EXCEPT ![tx[h].id] = tx[h].form]
  /\ balance' = [a \in Accounts |->
       IF Holds(h, a) THEN [balance[a] EXCEPT !.pending = @ + Cost(tx[h].form, a[3])]
                      ELSE balance[a]]
  /\ tx' = [tx EXCEPT ![h] = Idle]
  /\ raced' = raced \cup {{tx[h].id, tx[g].id} : g \in {f \in Handlers \ {h} : Creates(f)}}

-----------------------------------------------------------------------------
(* decideLeaveRequest and withdrawLeaveRequest *)

\* Mutant: the status is not compared.
AnyStatus(r) == request[r] # NoRequest

Decidable(r) == request[r] # NoRequest /\ request[r].status = "PENDING"

\* The request row is locked for the whole transaction.
BeginSettle(h, r, verdict) ==
  /\ tx[h] = Idle
  /\ Decidable(r)
  /\ \A g \in Handlers : Locks(g) => tx[g].id # r
  /\ Start(h, verdict, r, request[r])
  /\ UNCHANGED raced

\* releaseLeavePending locks the balances of the request ...
LockToSettle(h) ==
  /\ Asks(h) /\ tx[h].op # "create" /\ Free(h, Asked(h))
  /\ Grant(h)

\* Mutant: a withdrawal uses the days up.
SpendAlways(b, days, verdict) ==
  [b EXCEPT !.pending = @ - days, !.used = @ + IF verdict = "REJECTED" THEN 0 ELSE days]

\* ... and takes the days out of pending, into used when they are approved.
Release(b, days, verdict) ==
  [b EXCEPT !.pending = @ - days, !.used = @ + IF verdict = "APPROVED" THEN days ELSE 0]

CommitSettle(h) ==
  /\ Locks(h) /\ tx[h].op # "create" /\ tx[h].asks = Granted
  /\ request' = [request EXCEPT ![tx[h].id].status = tx[h].op]
  /\ balance' = [a \in Accounts |->
       IF Holds(h, a) THEN Release(balance[a], Cost(tx[h].form, a[3]), tx[h].op)
                      ELSE balance[a]]
  /\ tx' = [tx EXCEPT ![h] = Idle]
  /\ UNCHANGED raced

-----------------------------------------------------------------------------
(* setLeaveBalance *)

Committed(a) == IF balance[a] = NoRow THEN 0 ELSE balance[a].used + balance[a].pending

\* The check reads without a lock.
BeginSet(h, a, days) ==
  /\ tx[h] = Idle /\ days >= Committed(a)
  /\ tx' = [tx EXCEPT ![h] = [op |-> "set", account |-> a, days |-> days]]
  /\ UNCHANGED <<balance, request, raced>>

\* Mutant: the table's constraint forgets the days that wait for a decision.
ConstraintUsed(a, days) == balance[a] = NoRow \/ balance[a].used <= days

\* chk_leave_balance_nonnegative.
Constraint(a, days) == Committed(a) <= days

\* The row is inserted, or locked and updated, if the table's constraint lets it.
WriteSet(h) ==
  /\ tx[h] # Idle /\ tx[h].op = "set"
  /\ LET a == tx[h].account
         days == tx[h].days
     IN  /\ Free(h, a)
         /\ balance' = IF ~Constraint(a, days) THEN balance
                       ELSE [balance EXCEPT ![a] =
                               IF @ = NoRow THEN [entitled |-> days, used |-> 0, pending |-> 0]
                                            ELSE [@ EXCEPT !.entitled = days]]
  /\ tx' = [tx EXCEPT ![h] = Idle]
  /\ UNCHANGED <<request, raced>>

-----------------------------------------------------------------------------
\* InnoDB breaks a deadlock; the connection of a client may also be lost.
Abort(h) == tx[h] # Idle /\ Rollback(h)

Init ==
  /\ balance = [a \in Accounts |-> NoRow]
  /\ request = [r \in Requests |-> NoRequest]
  /\ tx = [h \in Handlers |-> Idle]
  /\ raced = {}

Begin(h) ==
  \/ \E r \in Requests, form \in Request : BeginCreate(h, r, form)
  \/ \E r \in Requests, verdict \in Verdicts : BeginSettle(h, r, verdict)
  \/ \E a \in Accounts, days \in Entitlements : BeginSet(h, a, days)

Advance(h) == LockToCreate(h) \/ CommitCreate(h) \/ LockToSettle(h)
              \/ CommitSettle(h) \/ WriteSet(h)

Next == \E h \in Handlers : Begin(h) \/ Advance(h) \/ Abort(h)

Spec == Init /\ [][Next]_vars

\* A handler runs on whenever its lock comes free, since InnoDB grants locks in
\* the order they were asked for, and a deadlock is broken.
Fairness ==
  /\ \A h \in Handlers : SF_vars(Advance(h))
  /\ WF_vars(\E S \in SUBSET Handlers : S # {} /\ Deadlocked(S) /\ \E h \in S : Abort(h))

LiveSpec == Spec /\ Fairness
-----------------------------------------------------------------------------
(* Properties *)

TypeOK ==
  /\ balance \in [Accounts -> Balance \cup {NoRow}]
  /\ request \in [Requests -> Request \cup {NoRequest}]
  /\ tx \in [Handlers -> Locking \cup Setting \cup {Idle}]
  /\ raced \subseteq SUBSET Requests

\* The work days of the requests with a status, as drawn from a balance.
Drawn(a, status) ==
  {p \in Requests \X WorkDays :
     /\ request[p[1]] # NoRequest /\ request[p[1]].status = status
     /\ a = AccountOf(request[p[1]], a[3]) /\ p[2] \in DaysIn(request[p[1]], a[3])}

\* pending_days and used_days are counters kept by hand; they always equal the
\* days of the requests that are waiting and that were approved.
BalanceIsSum ==
  \A a \in Accounts :
    IF balance[a] = NoRow THEN Drawn(a, "PENDING") \cup Drawn(a, "APPROVED") = {}
    ELSE /\ balance[a].pending = Cardinality(Drawn(a, "PENDING"))
         /\ balance[a].used = Cardinality(Drawn(a, "APPROVED"))

\* No interleaving of requests, decisions and new entitlements promises more
\* days than the member is entitled to.
NeverOverdrawn ==
  \A a \in Accounts :
    balance[a] # NoRow => balance[a].used + balance[a].pending <= balance[a].entitled

\* A request is decided or withdrawn once, and nothing else of it changes.
DecidedOnce ==
  [][\A r \in Requests : request[r] # NoRequest =>
       \/ request'[r] = request[r]
       \/ request[r].status = "PENDING" /\ request'[r].status \in Verdicts
          /\ request'[r] = [request[r] EXCEPT !.status = request'[r].status]]_vars

\* What the ledger sees of the rows: entitlements, days drawn and verdicts, and neither the
\* counters nor what transactions hold.
EntitledTo == [a \in Accounts |-> IF balance[a] = NoRow THEN NoRow ELSE balance[a].entitled]
DrawnFrom ==
  [r \in Requests |-> IF request[r] = NoRequest THEN {} ELSE
     {p \in Accounts \X WorkDays : /\ p[1] = AccountOf(request[r], p[1][3])
                                  /\ p[2] \in DaysIn(request[r], p[1][3])}]
StatusOf ==
  [r \in Requests |-> IF request[r] = NoRequest THEN "none" ELSE request[r].status]

Ledger == INSTANCE LeaveLedger WITH
  Days <- WorkDays, None <- NoRow,
  entitled <- EntitledTo, drawn <- DrawnFrom, status <- StatusOf

\* Requests, verdicts and entitlements take effect as if each were made at once, against what
\* is left at that moment: the checks made before a lock, the locks taken one by one over a
\* year's end and the counters kept by hand are not to be seen.
ImplementsLedger == Ledger!Spec

\* Every transaction ends, although two of them may take the same balances in
\* opposite orders.
TransactionsEnd == \A h \in Handlers : (tx[h] # Idle) ~> (tx[h] = Idle)

\* Two requests of a member share a day.
Collide(r, s) ==
  /\ request[r] # NoRequest /\ request[s] # NoRequest
  /\ request[r].member = request[s].member
  /\ request[r].status \in Live /\ request[s].status \in Live
  /\ request[r].first <= request[s].last /\ request[s].first <= request[r].last

\* The check for an overlap holds no lock, and can miss only what was being made while it
\* was counted: two live requests of a member share a day only if each was checked before the
\* other was committed, whatever was decided, withdrawn or rolled back around them
\* (createLeaveRequest).
OverlapNeedsARace ==
  \A r, s \in Requests : r # s /\ Collide(r, s) => {r, s} \in raced

\* The live requests of a member never share a day, as the contract of the API
\* has it.
LiveRequestsDisjoint == \A r, s \in Requests : r # s => ~Collide(r, s)
=============================================================================
