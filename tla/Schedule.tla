------------------------------ MODULE Schedule ------------------------------
(***************************************************************************)
(* Who works when.  Managers create shifts and events, publish and         *)
(* unpublish them and choose their participants (operations.go, from the   *)
(* console's App.tsx and the phone's ScheduleScreen.tsx); employees ask    *)
(* for open shifts and a manager decides (open_shifts.go).                 *)
(*                                                                         *)
(* Every handler that assigns somebody counts the member's other shifts    *)
(* before it writes.  The count is a plain read of what is committed: it   *)
(* sees nothing of a transaction that has counted but not committed, and   *)
(* the row lock it holds is that of its own shift.  So a call is taken in  *)
(* two steps, Check and Commit.                                            *)
(*                                                                         *)
(* A shift's type, its wish to be open and its time are constants: nothing *)
(* changes them.  Time is what the code asks of it: which shifts overlap,  *)
(* and which period of the screen each is in.                              *)
(*                                                                         *)
(* Bounds: MaxCalls calls of managers and employees; MaxRare reads that no *)
(* other step asked for, and lost answers.                                 *)
(***************************************************************************)
EXTENDS Naturals, FiniteSets, Functions

CONSTANTS Shifts, Members, Periods,
          Events,       \* shifts whose schedule_type is EVENT
          Open,         \* shifts created to be asked for
          Overlapping,  \* the pairs of shifts that share an instant of time
          PeriodsOf,    \* the periods of the screen that a shift reaches into
          Published,    \* the shifts that are published at the start
          Drafted,      \* the shifts that are drafts at the start
          Assigned,     \* the assignments <<shift, member>> at the start
          Removed,      \* those that were cancelled before the start
          Wished,       \* open requests <<shift, member>> at the start
          Asker,        \* the employee whose phone is modelled
          Today,        \* the period that the manager's phone shows first
          MaxCalls, MaxRare,
          None

ASSUME ScheduleAssumption ==
    /\ Events \subseteq Shifts /\ Open \subseteq Shifts \ Events /\ Published \cup Drafted \subseteq Shifts
    /\ Published \cap Drafted = {} /\ Assigned \cap Removed = {}
    /\ Assigned \cup Removed \subseteq (Published \cup Drafted) \X Members
    /\ \A s \in Shifts : {s} \in Overlapping
    /\ PeriodsOf \in [Shifts -> SUBSET Periods]
    /\ Asker \in Members /\ Today \in Periods
    /\ Wished \subseteq (Open \cap Published) \X Members
    /\ None \notin Shifts
    /\ MaxCalls \in Nat /\ MaxRare \in Nat

\* Nobody is booked twice before the start.
ASSUME BookedOnceAtStart ==
    \A m \in Members : \A s, o \in Published \ Events :
        {s, o} \in Overlapping /\ <<s, m>> \in Assigned /\ <<o, m>> \in Assigned => s = o

VARIABLES
    shift,      \* status of each row of shifts
    row,        \* status of each row of shift_assignments
    request,    \* status of each row of shift_requests
    calls,      \* the calls on their way, with the state of their transaction
    raced,      \* history: pairs of shifts that two transactions checked at once
    manager,    \* a manager's phone
    employee,   \* what an employee's phone shows: the open shifts, and who asks
    loads,      \* the reads of both phones on their way
    sent,       \* bound: calls so far
    rare        \* bound: reads by hand and lost calls so far

vars == <<shift, row, request, calls, raced, manager, employee, loads, sent, rare>>

Overlap(s, o) == {s, o} \in Overlapping
Participants(s) == {m \in Members : row[s][m] = "ASSIGNED"}
NoList == [s \in {} |-> {}]

\* myOpenShifts: the open shifts that the member is not assigned to, each with
\* the status of the member's request.
OpenShiftsOf(m) ==
    [s \in {s \in Open : shift[s] = "PUBLISHED" /\ m \notin Participants(s)} |-> request[s][m]]

InPeriod(p) == {s \in Shifts : p \in PeriodsOf[s]}
ShiftsOf(p) == [s \in {s \in InPeriod(p) : shift[s] # "ABSENT"} |-> Participants(s)]

\* Both screens have been opened and have read their lists.
Init ==
    /\ shift = [s \in Shifts |-> IF s \in Published THEN "PUBLISHED"
                               ELSE IF s \in Drafted THEN "DRAFT" ELSE "ABSENT"]
    /\ row = [s \in Shifts |-> [m \in Members |->
                IF <<s, m>> \in Assigned THEN "ASSIGNED"
                ELSE IF <<s, m>> \in Removed THEN "CANCELLED" ELSE "NONE"]]
    /\ request = [s \in Shifts |->
                    [m \in Members |-> IF <<s, m>> \in Wished THEN "PENDING" ELSE "NONE"]]
    /\ calls = {} /\ raced = {}
    /\ manager = [period |-> Today, items |-> ShiftsOf(Today), detail |-> None,
                  selected |-> {}, saving |-> FALSE]
    /\ employee = [offers |-> OpenShiftsOf(Asker), asking |-> None]
    /\ loads = {}
    /\ sent = 0 /\ rare = 0

-----------------------------------------------------------------------------
(* A call: sent, checked (its transaction runs), then answered.            *)

Send(op, s, who, from) ==
    /\ sent < MaxCalls
    /\ sent' = sent + 1
    /\ calls' = calls \cup {[op |-> op, s |-> s, who |-> who, from |-> from, at |-> "sent"]}

Becomes(c, at) == calls' = (calls \ {c}) \cup {[c EXCEPT !.at = at]}

\* The console reads its lists again after any answer, so none is awaited.
IsAnswered(c, at) ==
    IF c.from = "console" THEN calls' = calls \ {c} ELSE Becomes(c, at)

Running == {c \in calls : c.at = "checked"}

\* The calls that assign somebody to a published shift, or publish one.
Placing == {"createPublished", "participants", "publish", "approve"}

\* FOR UPDATE: the shift's row is held from the check to the commit.  A new
\* shift is seen by nobody, and the wish for one holds nothing.
Locking == {"participants", "publish", "unpublish", "approve", "reject"}
LockIsFree(c) == ~\E d \in Running : d # c /\ d.s = c.s /\ d.op \in Locking

\* The count of conflicts: published shifts the member is assigned to.
Conflict(m, s, others) ==
    \E o \in others : /\ m \in Participants(o) /\ shift[o] = "PUBLISHED"
                      /\ o \notin Events /\ Overlap(o, s)

\* For a mutant: a draft whose members are busy is published.
AdmitsPublishing(c) ==
    /\ c.op = "createPublished" /\ c.s \notin Events =>
         \A m \in c.who : ~Conflict(m, c.s, Shifts)
    /\ c.op = "participants" /\ shift[c.s] = "PUBLISHED" /\ c.s \notin Events =>
         \A m \in c.who : ~Conflict(m, c.s, Shifts \ {c.s})
    /\ c.op \in {"approve", "reject"} => \A m \in c.who : request[c.s][m] = "PENDING"
    /\ c.op = "approve" => \A m \in c.who : ~Conflict(m, c.s, Shifts)
    /\ c.op = "request" => shift[c.s] = "PUBLISHED" /\ c.s \in Open

\* What each handler asks before it writes.  An approval counts the shift
\* itself too; it does not ask whether the shift is still published, or open.
Admits(c) ==
    /\ c.op = "createPublished" /\ c.s \notin Events =>
         \A m \in c.who : ~Conflict(m, c.s, Shifts)
    /\ c.op = "participants" /\ shift[c.s] = "PUBLISHED" /\ c.s \notin Events =>
         \A m \in c.who : ~Conflict(m, c.s, Shifts \ {c.s})
    /\ c.op = "publish" /\ c.s \notin Events =>
         \A m \in Participants(c.s) : ~Conflict(m, c.s, Shifts \ {c.s})
    /\ c.op \in {"approve", "reject"} => \A m \in c.who : request[c.s][m] = "PENDING"
    /\ c.op = "approve" => \A m \in c.who : ~Conflict(m, c.s, Shifts)
    /\ c.op = "request" => shift[c.s] = "PUBLISHED" /\ c.s \in Open

Check(c) ==
    /\ c.at = "sent"
    /\ c.op \in Locking => LockIsFree(c)
    /\ IF Admits(c) THEN Becomes(c, "checked") ELSE IsAnswered(c, "refused")
    /\ UNCHANGED <<shift, row, request, raced, manager, employee, loads, sent, rare>>

\* For a mutant: an approval writes over the row, as the participants' list does.
KeyIsTakenUpsert(c) == c.op = "request" /\ \E m \in c.who : request[c.s][m] # "NONE"

\* The row of the request or of the assignment exists: the unique key refuses.
KeyIsTaken(c) ==
    \/ c.op = "request" /\ \E m \in c.who : request[c.s][m] # "NONE"
    \/ c.op = "approve" /\ \E m \in c.who : row[c.s][m] # "NONE"

CommitRefused(c) ==
    /\ c.at = "checked" /\ KeyIsTaken(c)
    /\ IsAnswered(c, "refused")
    /\ UNCHANGED <<shift, row, request, raced, manager, employee, loads, sent, rare>>

StatusAfter(c) ==
    CASE c.op = "create" -> "DRAFT"
      [] c.op \in {"createPublished", "publish"} -> "PUBLISHED"
      [] c.op = "unpublish" -> "DRAFT"
      [] OTHER -> shift[c.s]

\* The list of participants replaces the one that is stored, whoever is in it.
RowsAfter(c) ==
    [m \in Members |->
        IF m \in c.who /\ c.op \notin {"request", "reject"} THEN "ASSIGNED"
        ELSE IF c.op = "participants" /\ row[c.s][m] # "NONE" THEN "CANCELLED"
        ELSE row[c.s][m]]

RequestAfter(c) ==
    [m \in Members |->
        IF m \notin c.who THEN request[c.s][m]
        ELSE CASE c.op = "request" -> "PENDING"
               [] c.op = "approve" -> "APPROVED"
               [] c.op = "reject" -> "REJECTED"
               [] OTHER -> request[c.s][m]]

\* The insertion of a request waits for the lock of the shift it refers to.
Commit(c) ==
    /\ c.at = "checked" /\ ~KeyIsTaken(c)
    /\ c.op = "request" => LockIsFree(c)
    /\ IsAnswered(c, "stored")
    /\ shift' = [shift EXCEPT ![c.s] = StatusAfter(c)]
    /\ row' = [row EXCEPT ![c.s] = RowsAfter(c)]
    /\ request' = [request EXCEPT ![c.s] = RequestAfter(c)]
    /\ raced' = IF c.op \in Placing
                THEN raced \cup {{c.s, d.s} : d \in {e \in Running : e.op \in Placing}}
                ELSE raced
    /\ UNCHANGED <<manager, employee, loads, sent, rare>>

-----------------------------------------------------------------------------
(* The console: its list may be of any age, so it may press any button of  *)
(* a shift that exists.                                                       *)

NotSentYet(s) == shift[s] = "ABSENT" /\ \A c \in calls : c.s # s

ConsoleCreates(s, m) ==
    /\ NotSentYet(s) /\ s \notin Events
    /\ \E op \in {"create", "createPublished"} : Send(op, s, {m}, "console")
    /\ UNCHANGED <<shift, row, request, raced, manager, employee, loads, rare>>

ConsoleChangesStatus(s) ==
    /\ shift[s] # "ABSENT"
    /\ \E op \in {"publish", "unpublish"} : Send(op, s, {}, "console")
    /\ UNCHANGED <<shift, row, request, raced, manager, employee, loads, rare>>

ConsoleDecides(s, m) ==
    /\ request[s][m] # "NONE"
    /\ \E op \in {"approve", "reject"} : Send(op, s, {m}, "console")
    /\ UNCHANGED <<shift, row, request, raced, manager, employee, loads, rare>>

-----------------------------------------------------------------------------
(* A manager's phone (ScheduleScreen.tsx, canManage).                      *)

Manager(m) == manager' = m

\* The lists are kept until the next answer, so what is shown is filtered.
Visible == DOMAIN manager.items \cap InPeriod(manager.period)

ManagersLoad == [of |-> "manager", period |-> manager.period, at |-> "asked", list |-> NoList]

\* A change of the period (or the screen's focus) reads it; what is read for
\* the period before still arrives.
MoveTo(p) ==
    /\ rare < MaxRare
    /\ rare' = rare + 1
    /\ Manager([manager EXCEPT !.period = p])
    /\ loads' = loads \cup {[ManagersLoad EXCEPT !.period = p]}
    /\ UNCHANGED <<shift, row, request, calls, raced, employee, sent>>

OpenDetail(s) ==
    /\ s \in Visible /\ manager.detail = None
    /\ Manager([manager EXCEPT !.detail = s, !.selected = manager.items[s]])
    /\ UNCHANGED <<shift, row, request, calls, raced, employee, loads, sent, rare>>

\* Closing is possible while saving; it forgets nothing of the save.
CloseDetail ==
    /\ manager.detail # None
    /\ Manager([manager EXCEPT !.detail = None, !.selected = {}])
    /\ UNCHANGED <<shift, row, request, calls, raced, employee, loads, sent, rare>>

Toggle(m) ==
    /\ manager.detail # None
    /\ Manager([manager EXCEPT !.selected = (@ \ {m}) \cup ({m} \ @)])
    /\ UNCHANGED <<shift, row, request, calls, raced, employee, loads, sent, rare>>

SaveParticipants ==
    /\ manager.detail # None /\ ~manager.saving
    /\ Send("participants", manager.detail, manager.selected, "phone")
    /\ Manager([manager EXCEPT !.saving = TRUE])
    /\ UNCHANGED <<shift, row, request, raced, employee, loads, rare>>

\* The saved list is shown, and its shift is opened: whatever is open by now
\* is replaced, with what is being chosen in it.
DetailAfterSave(c) ==
    [manager EXCEPT !.saving = FALSE, !.detail = c.s, !.selected = c.who,
                    !.items = [s \in DOMAIN @ |-> IF s = c.s THEN c.who ELSE @[s]]]

ManagerHears(c) ==
    /\ c.from = "phone" /\ c.op = "participants" /\ c.at \in {"stored", "refused"}
    /\ calls' = calls \ {c}
    /\ Manager(IF c.at = "stored" THEN DetailAfterSave(c) ELSE [manager EXCEPT !.saving = FALSE])
    /\ UNCHANGED <<shift, row, request, raced, employee, loads, sent, rare>>

\* createCustomEvent, and the shift form of the supervisor's attendance
\* screen: published at once, for at least one member, then the lists again.
PhoneCreates(s, who) ==
    /\ NotSentYet(s) /\ who # {}
    /\ \A c \in calls : c.op # "createPublished" \/ c.from # "phone"
    /\ Send("createPublished", s, who, "phone")
    /\ UNCHANGED <<shift, row, request, raced, manager, employee, loads, rare>>

PhoneHearsCreated(c) ==
    /\ c.from = "phone" /\ c.op = "createPublished" /\ c.at \in {"stored", "refused"}
    /\ calls' = calls \ {c}
    /\ IF c.at = "stored" THEN loads' = loads \cup {ManagersLoad} ELSE UNCHANGED loads
    /\ UNCHANGED <<shift, row, request, raced, manager, employee, sent, rare>>

-----------------------------------------------------------------------------
(* An employee's phone: the open shifts.                                   *)

EmployeesLoad == [of |-> "employee", period |-> None, at |-> "asked", list |-> NoList]

EmployeePulls ==
    /\ rare < MaxRare
    /\ rare' = rare + 1
    /\ loads' = loads \cup {EmployeesLoad}
    /\ UNCHANGED <<shift, row, request, calls, raced, manager, employee, sent>>

\* Another shift may be asked for while one is on its way.
RequestShift(s) ==
    /\ s \in DOMAIN employee.offers
    /\ employee.offers[s] = "NONE" /\ employee.asking # s
    /\ Send("request", s, {Asker}, "employee")
    /\ employee' = [employee EXCEPT !.asking = s]
    /\ UNCHANGED <<shift, row, request, raced, manager, loads, rare>>

\* The request that was stored is marked in the list, without reading it.
MarkedRequested(c) ==
    [s \in DOMAIN employee.offers |->
        IF s = c.s /\ c.at = "stored" THEN "PENDING" ELSE employee.offers[s]]

EmployeeHears(c) ==
    /\ c.from = "employee" /\ c.at \in {"stored", "refused"}
    /\ calls' = calls \ {c}
    /\ employee' = [employee EXCEPT !.asking = None, !.offers = MarkedRequested(c)]
    /\ UNCHANGED <<shift, row, request, raced, manager, loads, sent, rare>>

-----------------------------------------------------------------------------
(* The reads of the phones, and what is lost.                              *)

AnswerOf(l) ==
    IF l.of = "manager" THEN ShiftsOf(l.period)
    ELSE OpenShiftsOf(Asker)

ServerReads(l) ==
    /\ l.at = "asked"
    /\ loads' = (loads \ {l}) \cup {[l EXCEPT !.at = "answered", !.list = AnswerOf(l)]}
    /\ UNCHANGED <<shift, row, request, calls, raced, manager, employee, sent, rare>>

\* load(): whichever answer comes replaces what is shown.
PhoneShows(l) ==
    /\ l.at = "answered"
    /\ loads' = loads \ {l}
    /\ IF l.of = "manager"
       THEN Manager([manager EXCEPT !.items = l.list]) /\ UNCHANGED employee
       ELSE employee' = [employee EXCEPT !.offers = l.list] /\ UNCHANGED manager
    /\ UNCHANGED <<shift, row, request, calls, raced, sent, rare>>

LoadFails(l) ==
    /\ rare < MaxRare
    /\ rare' = rare + 1
    /\ loads' = loads \ {l}
    /\ UNCHANGED <<shift, row, request, calls, raced, manager, employee, sent>>

\* The call before its transaction, or the answer after it.
CallLost(c) ==
    /\ c.at # "checked"
    /\ rare < MaxRare
    /\ rare' = rare + 1
    /\ calls' = calls \ {c}
    /\ manager' = IF c.from = "phone" /\ c.op = "participants"
                  THEN [manager EXCEPT !.saving = FALSE] ELSE manager
    /\ employee' = IF c.from = "employee" THEN [employee EXCEPT !.asking = None] ELSE employee
    /\ UNCHANGED <<shift, row, request, raced, loads, sent>>

-----------------------------------------------------------------------------
ConsoleStep ==
    \E s \in Shifts :
        \/ ConsoleChangesStatus(s)
        \/ \E m \in Members : ConsoleCreates(s, m) \/ ConsoleDecides(s, m)

ManagerStep ==
    \/ \E p \in Periods : MoveTo(p)
    \/ \E s \in Shifts : OpenDetail(s) \/ \E who \in SUBSET Members : PhoneCreates(s, who)
    \/ CloseDetail \/ SaveParticipants
    \/ \E m \in Members : Toggle(m)

EmployeeStep == EmployeePulls \/ \E s \in Shifts : RequestShift(s)

Next ==
    \/ ConsoleStep \/ ManagerStep \/ EmployeeStep
    \/ \E c \in calls :
          \/ Check(c) \/ Commit(c) \/ CommitRefused(c) \/ CallLost(c)
          \/ ManagerHears(c) \/ PhoneHearsCreated(c) \/ EmployeeHears(c)
    \/ \E l \in loads : ServerReads(l) \/ PhoneShows(l) \/ LoadFails(l)

Spec == Init /\ [][Next]_vars

-----------------------------------------------------------------------------
(* Properties.                                                             *)

ShiftStatuses == {"ABSENT", "DRAFT", "PUBLISHED"}
RowStatuses == {"NONE", "ASSIGNED", "CANCELLED"}
RequestStatuses == {"NONE", "PENDING", "APPROVED", "REJECTED"}

Call ==
    [op : Locking \cup {"create", "createPublished", "request"}, s : Shifts, who : SUBSET Members,
     from : {"console", "phone", "employee"}, at : {"sent", "checked", "stored", "refused"}]
Items == UNION {[D -> SUBSET Members] : D \in SUBSET Shifts}
Offers == UNION {[D -> RequestStatuses] : D \in SUBSET Shifts}
ManagersPhone ==
    [period : Periods, items : Items, detail : Shifts \cup {None}, selected : SUBSET Members,
     saving : BOOLEAN]
LoadOf(who) ==
    [of : {who}, period : Periods \cup {None}, at : {"asked", "answered"},
     list : IF who = "manager" THEN Items ELSE Offers]

\* The types of the state.
TypeOK ==
    /\ shift \in [Shifts -> ShiftStatuses]
    /\ row \in [Shifts -> [Members -> RowStatuses]]
    /\ request \in [Shifts -> [Members -> RequestStatuses]]
    /\ calls \subseteq Call
    /\ raced \subseteq SUBSET Shifts
    /\ manager \in ManagersPhone
    /\ employee \in [offers : Offers, asking : Shifts \cup {None}]
    /\ \A l \in loads : l.of \in {"manager", "employee"} /\ l \in LoadOf(l.of)
    /\ sent \in 0..MaxCalls /\ rare \in 0..MaxRare

DoublyBooked(m, s, o) ==
    /\ s # o /\ Overlap(s, o)
    /\ \A x \in {s, o} : x \notin Events /\ shift[x] = "PUBLISHED" /\ m \in Participants(x)

\* Two shifts of one member overlap only when two transactions, one on each,
\* counted before either had committed: in whatever order shifts are drafted,
\* filled, asked for, approved, published and withdrawn one call after the
\* other, the counts of the four handlers leave no gap.
DoubleBookingNeedsARace ==
    \A m \in Members : \A s, o \in Shifts : DoublyBooked(m, s, o) => {s, o} \in raced

\* A member whom a manager took off a shift comes back to it only by a list that
\* a manager saved, never by a request that is approved after the removal.
RemovalOutlivesRequests ==
    [][\A s \in Shifts : \A m \in Members :
         row[s][m] = "CANCELLED" /\ row'[s][m] = "ASSIGNED" =>
            \E c \in calls : c.op = "participants" /\ c.s = s /\ m \in c.who]_vars

\* NOT TRUE OF THE CODE.  functional-parity-matrix.md:36 says that approving a
\* request assigns atomically and safe from conflicts.
NoDoubleBooking == \A m \in Members : \A s, o \in Shifts : ~DoublyBooked(m, s, o)
=============================================================================
