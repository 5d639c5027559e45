-------------------------------- MODULE Desk --------------------------------
(***************************************************************************)
(* Who decides what the employees ask for.  A request (a recorded action   *)
(* that needs approval, a leave, an expense claim, an open shift) is filed *)
(* from an employee's screen, withdrawn from it, and decided from two      *)
(* places that know nothing of each other: the administrator's console     *)
(* (App.tsx, one queue per kind of request, kept by react-query) and the   *)
(* supervisor's phone (SupervisorScreen.tsx, one screen for all of them).  *)
(* Both show lists read a while ago, both decide by a call whose answer    *)
(* may be lost, and both read their lists again while other reads are      *)
(* still on their way.                                                     *)
(*                                                                         *)
(* The server's decision is one transaction on the locked row of the       *)
(* request (claims.go, leave.go, approvals.go, open_shifts.go), so it is   *)
(* one step here; what Leave and Attendance say of its effects is theirs.  *)
(*                                                                         *)
(* A reason is abstracted to the request whose form it was typed in.       *)
(*                                                                         *)
(* Bounds: MaxPresses decisions are pressed; MaxRare times a call is lost  *)
(* or a list is read again that no decision asked for.  The lists of one   *)
(* load of the phone are read at one moment.                               *)
(***************************************************************************)
EXTENDS Naturals, FiniteSets

CONSTANTS Requests,     \* the requests that may be filed
          Kindings,     \* what kinds they may be of: functions from Requests to Kinds
          Filed,        \* those filed, and shown everywhere, at the start
          MaxPresses, MaxRare,
          None

Kinds == {"attendance", "leave", "claim", "shift"}
Decisions == {"APPROVED", "REJECTED"}

ASSUME DeskAssumption ==
    /\ Kindings \subseteq [Requests -> Kinds]
    /\ Filed \subseteq Requests /\ None \notin Requests
    /\ MaxPresses \in Nat /\ MaxRare \in Nat

VARIABLES
    kind,       \* the kind of each request
    status,     \* the server's rows: status of each request
    verdict,    \* who decided it, and the reason stored with the decision
    employee,   \* the employee's screen: the requests it offers to withdraw, the call it waits for
    console,    \* the console, one record per queue
    phone,      \* the supervisor's screen
    reads,      \* the phone's reads on their way
    asks,       \* the decisions on their way
    presses,    \* bound: decisions pressed so far
    rare        \* bound: calls lost and lists read again by hand so far

vars == <<kind, status, verdict, employee, console, phone, reads, asks, presses, rare>>

Undecided == [by |-> None, text |-> None]
Waiting == {r \in Requests : status[r] = "PENDING"}
Of(k) == {r \in Requests : kind[r] = k}

IdleQueue(k) == [list |-> Filed \cap Of(k), read |-> "idle", seen |-> {}, failed |-> FALSE,
                 rejecting |-> None, text |-> None, saving |-> None, told |-> {}]
OfferedToWithdraw(waiting) == {r \in waiting : kind[r] \in {"leave", "claim"}}

Init ==
    /\ kind \in Kindings
    /\ status = [r \in Requests |-> IF r \in Filed THEN "PENDING" ELSE "ABSENT"]
    /\ verdict = [r \in Requests |-> Undecided]
    /\ employee = [shown |-> OfferedToWithdraw(Filed), call |-> "none", about |-> None]
    /\ console = [k \in Kinds |-> IdleQueue(k)]
    /\ phone = [list |-> Filed, approved |-> {}, texts |-> {},
                processing |-> None, notice |-> None, decision |-> None]
    /\ reads = {}
    /\ asks = {}
    /\ presses = 0 /\ rare = 0

-----------------------------------------------------------------------------
(* The employee's screen (RequestsScreen.tsx): one call at a time, because *)
(* every button is disabled while saving, then the lists again.            *)

EmployeeIs(call, r) == employee' = [employee EXCEPT !.call = call, !.about = r]

\* Submitting a leave or a claim: the call stores a new row.  The receipt of a
\* claim goes before it and is claimed by that row alone.
\* An action that needs approval and the wish for an open shift are filed from
\* other screens, by the same kind of call.
Submit(r) ==
    /\ employee.call = "none" /\ status[r] = "ABSENT"
    /\ status' = [status EXCEPT ![r] = "PENDING"]
    /\ EmployeeIs("load", None)
    /\ UNCHANGED <<kind, verdict, console, phone, reads, asks, presses, rare>>

Withdraw(r) ==
    /\ employee.call = "none" /\ r \in employee.shown
    /\ EmployeeIs("withdraw", r)
    /\ UNCHANGED <<kind, status, verdict, console, phone, reads, asks, presses, rare>>

\* withdrawClaim, withdrawLeaveRequest: the row is locked and must be pending;
\* then the screen reads its lists, or shows the refusal and reads nothing.
StoreWithdrawal ==
    /\ employee.call = "withdraw"
    /\ IF status[employee.about] = "PENDING"
       THEN /\ status' = [status EXCEPT ![employee.about] = "WITHDRAWN"]
            /\ EmployeeIs("load", None)
       ELSE EmployeeIs("none", None) /\ UNCHANGED status
    /\ UNCHANGED <<kind, verdict, console, phone, reads, asks, presses, rare>>

\* load: the leaves and claims the screen shows as pending have the button.
EmployeeLoads ==
    /\ employee.call = "load"
    /\ employee' = [shown |-> OfferedToWithdraw(Waiting), call |-> "none", about |-> None]
    /\ UNCHANGED <<kind, status, verdict, console, phone, reads, asks, presses, rare>>

-----------------------------------------------------------------------------
(* The decision on the server.                                             *)

Ask(from, r, decision, text) ==
    /\ presses < MaxPresses
    /\ presses' = presses + 1
    /\ asks' = asks \cup {[n |-> presses + 1, from |-> from, r |-> r, decision |-> decision,
                           text |-> text, at |-> "sent"]}

\* For a mutant: the row's status is not looked at.
DecidableAlways(r) == status[r] # "ABSENT"

Decidable(r) == status[r] = "PENDING"

\* For a mutant: a decision that agrees with the stored one is answered as done.
AnswerAgreeing(a) ==
    IF Decidable(a.r) \/ status[a.r] = a.decision THEN "stored" ELSE "refused"

Answer(a) == IF Decidable(a.r) THEN "stored" ELSE "refused"

\* The four decision handlers.  (A rejection without a reason is refused for
\* every kind but a shift; the clients do not send one.)
Store(a) ==
    /\ a.at = "sent"
    /\ asks' = (asks \ {a}) \cup {[a EXCEPT !.at = Answer(a)]}
    /\ IF Decidable(a.r)
       THEN /\ status' = [status EXCEPT ![a.r] = a.decision]
            /\ verdict' = [verdict EXCEPT ![a.r] = [by |-> a.from, text |-> a.text]]
       ELSE UNCHANGED <<status, verdict>>
    /\ UNCHANGED <<kind, employee, console, phone, reads, presses, rare>>

\* decideShiftRequest: an approval is refused, and the request stays pending, when
\* the employee is booked at those hours (SHIFT_CONFLICT) or on the shift itself (the
\* unique key).  The bookings are Schedule's; here either may be found.
ApprovalConflicts(a) ==
    /\ a.at = "sent" /\ Decidable(a.r)
    /\ kind[a.r] = "shift" /\ a.decision = "APPROVED"
    /\ asks' = (asks \ {a}) \cup {[a EXCEPT !.at = "refused"]}
    /\ UNCHANGED <<kind, status, verdict, employee, console, phone, reads, presses, rare>>

-----------------------------------------------------------------------------
(* The console.                                                            *)

Queue(k) == console[k]
Update(k, q) == console' = [console EXCEPT ![k] = q]

\* query.refetch(): the running read is cancelled and its answer is ignored.
Refetched(q) == [q EXCEPT !.read = "asked", !.seen = {}, !.failed = FALSE]

\* The window is focused again and the data is stale, or the button that
\* repeats the failed reads is pressed: nothing happens while a read runs.
ConsoleFocus(k) ==
    /\ rare < MaxRare
    /\ Queue(k).read = "idle"
    /\ rare' = rare + 1
    /\ Update(k, Refetched(Queue(k)))
    /\ UNCHANGED <<kind, status, verdict, employee, phone, reads, asks, presses>>

ConsoleReads(k) ==
    /\ Queue(k).read = "asked"
    /\ Update(k, [Queue(k) EXCEPT !.read = "answered", !.seen = Waiting \cap Of(k)])
    /\ UNCHANGED <<kind, status, verdict, employee, phone, reads, asks, presses, rare>>

ConsoleShows(k) ==
    /\ Queue(k).read = "answered"
    /\ Update(k, [Queue(k) EXCEPT !.read = "idle", !.list = Queue(k).seen, !.seen = {}])
    /\ UNCHANGED <<kind, status, verdict, employee, phone, reads, asks, presses, rare>>

\* Both tries fail (retry: 1): the old list stays, and the banner counts it.
ConsoleReadFails(k) ==
    /\ rare < MaxRare
    /\ Queue(k).read # "idle"
    /\ rare' = rare + 1
    /\ Update(k, [Queue(k) EXCEPT !.read = "idle", !.seen = {}, !.failed = TRUE])
    /\ UNCHANGED <<kind, status, verdict, employee, phone, reads, asks, presses>>

\* The buttons of a row: an attendance row watches its own call only, the rows
\* of the other queues watch any call of their queue.
RowIsFree(k, r) ==
    /\ r \in Queue(k).list
    /\ IF k = "attendance" THEN Queue(k).saving # r ELSE Queue(k).saving = None

\* Opening the form of another row empties the box in the attendance queue;
\* the leave and the claim queue leave in it what was typed for that row.
TextOfNewForm(k, q) == IF k = "attendance" THEN None ELSE q.text

OpenForm(k, r) ==
    /\ k # "shift" /\ RowIsFree(k, r) /\ Queue(k).rejecting # r
    /\ Update(k, [Queue(k) EXCEPT !.rejecting = r, !.text = TextOfNewForm(k, Queue(k))])
    /\ UNCHANGED <<kind, status, verdict, employee, phone, reads, asks, presses, rare>>

Type(k) ==
    /\ Queue(k).rejecting \in Queue(k).list
    /\ Queue(k).text # Queue(k).rejecting
    /\ Update(k, [Queue(k) EXCEPT !.text = Queue(k).rejecting])
    /\ UNCHANGED <<kind, status, verdict, employee, phone, reads, asks, presses, rare>>

CloseForm(k) ==
    /\ Queue(k).rejecting \in Queue(k).list
    /\ Update(k, [Queue(k) EXCEPT !.rejecting = None, !.text = None])
    /\ UNCHANGED <<kind, status, verdict, employee, phone, reads, asks, presses, rare>>

ConsoleApproves(k, r) ==
    /\ RowIsFree(k, r) /\ Queue(k).rejecting # r
    /\ Update(k, [Queue(k) EXCEPT !.saving = r])
    /\ Ask("console", r, "APPROVED", None)
    /\ UNCHANGED <<kind, status, verdict, employee, phone, reads, rare>>

\* A rejection is confirmed in the row's form, which must hold a text; the
\* confirm button watches the row's own call only.  The queue of open shifts
\* has no form and rejects at once, without a reason.
RejectionIsOffered(k, r) ==
    IF k = "shift" THEN RowIsFree(k, r)
    ELSE /\ r \in Queue(k).list
         /\ Queue(k).rejecting = r /\ Queue(k).text # None /\ Queue(k).saving # r

ConsoleRejects(k, r) ==
    /\ RejectionIsOffered(k, r)
    /\ Update(k, [Queue(k) EXCEPT !.saving = r])
    /\ Ask("console", r, "REJECTED", Queue(k).text)
    /\ UNCHANGED <<kind, status, verdict, employee, phone, reads, rare>>

\* The answer: whatever row is being saved or rejected by now, the queue's
\* form is closed after a success, and no row is "saving" any more.
ConsoleHears(a) ==
    LET k == kind[a.r]
        heard == [Queue(k) EXCEPT !.saving = None]
    IN  /\ a.from = "console" /\ a.at # "sent"
        /\ asks' = asks \ {a}
        /\ Update(k, IF a.at = "stored"
                     THEN [Refetched(heard) EXCEPT !.rejecting = None, !.text = None,
                                                   !.told = @ \cup {a.r}]
                     ELSE heard)
        /\ UNCHANGED <<kind, status, verdict, employee, phone, reads, presses, rare>>

-----------------------------------------------------------------------------
(* The supervisor's phone.                                                 *)

Load(what, by) == [what |-> what, by |-> by, at |-> "asked", seen |-> {}]
LoadsOf(n) == {l \in reads : l.by = n}

\* Pulling the screen down reads the list of the tab that is open.
PhonePulls(what) ==
    /\ rare < MaxRare
    /\ Load(what, 0) \notin reads
    /\ rare' = rare + 1
    /\ reads' = reads \cup {Load(what, 0)}
    /\ UNCHANGED <<kind, status, verdict, employee, console, phone, asks, presses>>

\* selectView: the notice goes, and the history is read when none is shown or
\* on its way.  (Which tab is open is left out: the other one is a tap away.)
SelectView(v) ==
    /\ phone' = [phone EXCEPT !.notice = None, !.decision = None]
    /\ IF v = "approved" /\ phone.approved = {} /\ \A l \in reads : l.what # "approved"
       THEN reads' = reads \cup {Load("approved", 0)}
       ELSE UNCHANGED reads
    /\ UNCHANGED <<kind, status, verdict, employee, console, asks, presses, rare>>

PhoneReads(l) ==
    /\ l.what = "approvals" /\ l.at = "asked"
    /\ reads' = (reads \ {l}) \cup {[l EXCEPT !.at = "answered", !.seen = Waiting]}
    /\ UNCHANGED <<kind, status, verdict, employee, console, phone, asks, presses, rare>>

\* A decision's two loads, once both ended, end its "processing", of any card.
Freed(l, p) ==
    IF l.by # 0 /\ LoadsOf(l.by) = {l} THEN [p EXCEPT !.processing = None] ELSE p

\* The answers replace what is shown in the order in which they arrive.
PhoneShows(l) ==
    /\ l.at = "answered"
    /\ reads' = reads \ {l}
    /\ phone' = Freed(l, [phone EXCEPT !.list = l.seen])
    /\ UNCHANGED <<kind, status, verdict, employee, console, asks, presses, rare>>

\* loadApproved.  (Read and shown in one step: what is approved stays so.)
PhoneShowsHistory(l) ==
    /\ l.what = "approved"
    /\ reads' = reads \ {l}
    /\ phone' = Freed(l, [phone EXCEPT !.approved = {r \in Requests : status[r] = "APPROVED"}])
    /\ UNCHANGED <<kind, status, verdict, employee, console, asks, presses, rare>>

\* One of the lists is not answered: Promise.all shows none of them.
PhoneReadFails(l) ==
    /\ rare < MaxRare
    /\ rare' = rare + 1
    /\ reads' = reads \ {l}
    /\ phone' = Freed(l, phone)
    /\ UNCHANGED <<kind, status, verdict, employee, console, asks, presses>>

\* A card: its text is its own, kept by the request's id.
CardIsOffered(r) == r \in phone.list /\ phone.processing # r

PhoneTypes(r) ==
    /\ CardIsOffered(r) /\ r \notin phone.texts
    /\ phone' = [phone EXCEPT !.texts = @ \cup {r}]
    /\ UNCHANGED <<kind, status, verdict, employee, console, reads, asks, presses, rare>>

\* decide: a rejection needs the card's text; an approval sends it along.
PhoneDecides(r, d) ==
    /\ CardIsOffered(r)
    /\ d = "REJECTED" => r \in phone.texts
    /\ Ask("phone", r, d, IF r \in phone.texts THEN r ELSE None)
    /\ phone' = [phone EXCEPT !.processing = r, !.notice = None, !.decision = None]
    /\ UNCHANGED <<kind, status, verdict, employee, console, reads, rare>>

PhoneHears(a) ==
    /\ a.from = "phone" /\ a.at # "sent"
    /\ asks' = asks \ {a}
    /\ IF a.at = "stored"
       THEN /\ phone' = [phone EXCEPT !.notice = a.r, !.decision = a.decision,
                                      !.texts = @ \ {a.r}]
            /\ reads' = reads \cup {Load("approvals", a.n), Load("approved", a.n)}
       ELSE phone' = [phone EXCEPT !.processing = None] /\ UNCHANGED reads
    /\ UNCHANGED <<kind, status, verdict, employee, console, presses, rare>>

\* A decision or its answer is lost: the client says it was not saved.
DecisionLost(a) ==
    /\ rare < MaxRare
    /\ rare' = rare + 1
    /\ asks' = asks \ {a}
    /\ IF a.from = "phone"
       THEN phone' = [phone EXCEPT !.processing = None] /\ UNCHANGED console
       ELSE /\ Update(kind[a.r], [Queue(kind[a.r]) EXCEPT !.saving = None])
            /\ UNCHANGED phone
    /\ UNCHANGED <<kind, status, verdict, employee, reads, presses>>

-----------------------------------------------------------------------------
ConsoleStep(k) ==
    \/ ConsoleFocus(k) \/ ConsoleReads(k) \/ ConsoleShows(k) \/ ConsoleReadFails(k)
    \/ Type(k) \/ CloseForm(k)
    \/ \E r \in Of(k) : OpenForm(k, r) \/ ConsoleApproves(k, r) \/ ConsoleRejects(k, r)

PhoneStep ==
    \/ \E v \in {"approvals", "approved"} : PhonePulls(v) \/ SelectView(v)
    \/ \E l \in reads : PhoneReads(l) \/ PhoneShows(l) \/ PhoneShowsHistory(l) \/ PhoneReadFails(l)
    \/ \E r \in Requests : PhoneTypes(r) \/ \E d \in Decisions : PhoneDecides(r, d)

EmployeeStep ==
    \/ \E r \in Requests : Submit(r) \/ Withdraw(r)
    \/ StoreWithdrawal \/ EmployeeLoads

Next ==
    \/ EmployeeStep
    \/ \E k \in DOMAIN console : ConsoleStep(k)
    \/ PhoneStep
    \/ \E a \in asks :
         \/ Store(a) \/ ApprovalConflicts(a)
         \/ ConsoleHears(a) \/ PhoneHears(a) \/ DecisionLost(a)

Spec == Init /\ [][Next]_vars

-----------------------------------------------------------------------------
(* Properties.                                                             *)

Statuses == {"ABSENT", "PENDING", "APPROVED", "REJECTED", "WITHDRAWN"}
MaybeRequest == Requests \cup {None}

Verdict == [by : {"console", "phone", None}, text : MaybeRequest]
Employee == [shown : SUBSET Requests, call : {"none", "withdraw", "load"}, about : MaybeRequest]
QueueRecord ==
    [list : SUBSET Requests, read : {"idle", "asked", "answered"}, seen : SUBSET Requests,
     failed : BOOLEAN, rejecting : MaybeRequest, text : MaybeRequest, saving : MaybeRequest,
     told : SUBSET Requests]
Phone ==
    [list : SUBSET Requests, approved : SUBSET Requests, texts : SUBSET Requests,
     processing : MaybeRequest, notice : MaybeRequest, decision : Decisions \cup {None}]
Read ==
    [what : {"approvals", "approved"}, by : Nat, at : {"asked", "answered"},
     seen : SUBSET Requests]
Decision ==
    [n : Nat, from : {"console", "phone"}, r : Requests, decision : Decisions,
     text : MaybeRequest, at : {"sent", "stored", "refused"}]

\* The types of the state.
TypeOK ==
    /\ kind \in [Requests -> Kinds]
    /\ status \in [Requests -> Statuses] /\ verdict \in [Requests -> Verdict]
    /\ employee \in Employee
    /\ employee.call = "withdraw" => employee.about \in Requests
    /\ console \in [Kinds -> QueueRecord]
    /\ phone \in Phone /\ reads \subseteq Read
    /\ asks \subseteq Decision
    /\ presses \in 0..MaxPresses /\ rare \in 0..MaxRare

\* However many presses on however stale lists: the first decision or
\* withdrawal of a request is the one that stands, with its author and reason.
FirstDecisionStands ==
    [][\A r \in Requests :
         status[r] \in {"APPROVED", "REJECTED", "WITHDRAWN"} =>
            status'[r] = status[r] /\ verdict'[r] = verdict[r]]_vars

\* Who is told that a decision was saved is the one whose decision is stored,
\* and what is stored is what was pressed: the phone's notice and the console's
\* closed row are never about the other client's decision.
ToldIsTrue ==
    /\ phone.notice # None =>
         /\ status[phone.notice] = phone.decision
         /\ verdict[phone.notice].by = "phone"
    /\ \A k \in DOMAIN console : \A r \in console[k].told : verdict[r].by = "console"

\* NOT TRUE OF THE CODE.  SupervisorScreen.tsx:193 tells the supervisor that
\* the queue is updated: the request it names is not in it once no read runs.
NoticeIsKept ==
    reads = {} /\ phone.notice # None => phone.notice \notin phone.list
=============================================================================
