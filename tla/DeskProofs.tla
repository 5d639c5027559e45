----------------------------- MODULE DeskProofs -----------------------------
(***************************************************************************)
(* Theorems about Desk, for any requests of any kinds, however many        *)
(* presses are made and however many calls and reads are lost.             *)
(***************************************************************************)
EXTENDS Desk, TLAPS

\* An answer on its way that says "stored" is about the decision in the row.
AnswersAreTrue ==
    \A a \in asks : a.at = "stored" => status[a.r] = a.decision /\ verdict[a.r].by = a.from

\* The console closed rows of decided requests only.
ToldIsDecided == \A k \in Kinds : \A r \in console[k].told : status[r] \in Decisions

NoticeIsDecided == phone.notice # None => phone.decision \in Decisions

Told == AnswersAreTrue /\ ToldIsDecided /\ NoticeIsDecided /\ ToldIsTrue
IInv == TypeOK /\ Told

\* A step that tells nobody anything new.
Final == {"APPROVED", "REJECTED", "WITHDRAWN"}
RowsStand ==
    \A r \in Requests : status[r] \in Final => status'[r] = status[r] /\ verdict'[r] = verdict[r]
NoNewAnswer == \A a \in asks' : a \in asks \/ a.at # "stored"
SameTold == \A k \in Kinds : console'[k].told \subseteq console[k].told
SameNotice ==
    phone'.notice = None \/ (phone'.notice = phone.notice /\ phone'.decision = phone.decision)

-----------------------------------------------------------------------------
LEMMA TypeInit == Init => TypeOK
BY DeskAssumption
DEF Init, TypeOK, Undecided, OfferedToWithdraw, IdleQueue, Statuses, MaybeRequest, Verdict,
    Employee, QueueRecord, Phone, Read, Decision, Decisions, Of

LEMMA TypeNext == TypeOK /\ [Next]_vars => TypeOK'
<1> SUFFICES ASSUME TypeOK, [Next]_vars PROVE TypeOK' OBVIOUS
<1> USE DeskAssumption
<1>1. CASE UNCHANGED vars BY <1>1 DEF vars, TypeOK
<1>2. CASE EmployeeStep
  <2>1. ASSUME NEW r \in Requests, Submit(r) PROVE TypeOK'
    BY <2>1 DEF Submit, EmployeeIs, TypeOK, Statuses, Employee, MaybeRequest
  <2>2. ASSUME NEW r \in Requests, Withdraw(r) PROVE TypeOK'
    BY <2>2 DEF Withdraw, EmployeeIs, TypeOK, Employee, MaybeRequest
  <2>3. CASE StoreWithdrawal
    <3>1. ASSUME NEW c \in {"none", "load"}
          PROVE  [employee EXCEPT !.call = c, !.about = None] \in Employee
      BY DEF TypeOK, Employee, MaybeRequest
    <3>2. employee' \in Employee /\ employee'.call # "withdraw"
      BY <2>3, <3>1 DEF StoreWithdrawal, EmployeeIs, TypeOK, Employee
    <3>3. status' \in [Requests -> Statuses] BY <2>3 DEF StoreWithdrawal, TypeOK, Statuses
    <3> QED BY <2>3, <3>2, <3>3 DEF StoreWithdrawal, TypeOK
  <2>4. CASE EmployeeLoads
    BY <2>4 DEF EmployeeLoads, OfferedToWithdraw, Waiting, TypeOK, Employee, MaybeRequest
  <2> QED BY <1>2, <2>1, <2>2, <2>3, <2>4 DEF EmployeeStep
<1>3. ASSUME NEW k \in DOMAIN console, ConsoleStep(k) PROVE TypeOK'
  <2>0. k \in Kinds /\ console[k] \in QueueRecord BY DEF TypeOK
  <2>1. ASSUME NEW q \in QueueRecord, Update(k, q),
               UNCHANGED <<kind, status, verdict, employee, phone, reads>>,
               \/ UNCHANGED <<asks, presses>>
               \/ asks' \subseteq Decision /\ presses' \in 0..MaxPresses,
               rare' \in 0..MaxRare
        PROVE TypeOK'
    BY <2>0, <2>1 DEF Update, TypeOK
  <2>2. CASE ConsoleFocus(k)
    <3>1. Refetched(Queue(k)) \in QueueRecord BY <2>0 DEF Refetched, Queue, QueueRecord
    <3> QED BY <2>1, <2>2, <3>1 DEF ConsoleFocus, TypeOK
  <2>3. CASE ConsoleReads(k)
    <3>1. [Queue(k) EXCEPT !.read = "answered", !.seen = Waiting \cap Of(k)] \in QueueRecord
      BY <2>0 DEF Queue, QueueRecord, Waiting
    <3> QED BY <2>1, <2>3, <3>1 DEF ConsoleReads, TypeOK
  <2>4. CASE ConsoleShows(k)
    <3>1. [Queue(k) EXCEPT !.read = "idle", !.list = Queue(k).seen, !.seen = {}] \in QueueRecord
      BY <2>0 DEF Queue, QueueRecord
    <3> QED BY <2>1, <2>4, <3>1 DEF ConsoleShows, TypeOK
  <2>5. CASE ConsoleReadFails(k)
    <3>1. [Queue(k) EXCEPT !.read = "idle", !.seen = {}, !.failed = TRUE] \in QueueRecord
      BY <2>0 DEF Queue, QueueRecord
    <3> QED BY <2>1, <2>5, <3>1 DEF ConsoleReadFails, TypeOK
  <2>6. CASE Type(k)
    <3>1. [Queue(k) EXCEPT !.text = Queue(k).rejecting] \in QueueRecord
      BY <2>0 DEF Queue, QueueRecord
    <3> QED BY <2>1, <2>6, <3>1 DEF Type, TypeOK
  <2>7. CASE CloseForm(k)
    <3>1. [Queue(k) EXCEPT !.rejecting = None, !.text = None] \in QueueRecord
      BY <2>0 DEF Queue, QueueRecord, MaybeRequest
    <3> QED BY <2>1, <2>7, <3>1 DEF CloseForm, TypeOK
  <2>8. ASSUME NEW r \in Of(k), OpenForm(k, r) PROVE TypeOK'
    <3>1. r \in Requests BY DEF Of
    <3>2. [Queue(k) EXCEPT !.rejecting = r, !.text = TextOfNewForm(k, Queue(k))] \in QueueRecord
      BY <2>0, <3>1 DEF Queue, QueueRecord, MaybeRequest, TextOfNewForm
    <3> QED BY <2>1, <2>8, <3>2 DEF OpenForm, TypeOK
  <2>9. ASSUME NEW r \in Of(k), NEW d \in Decisions, NEW t \in MaybeRequest,
               Ask("console", r, d, t)
        PROVE asks' \subseteq Decision /\ presses' \in 0..MaxPresses
    BY <2>9 DEF Ask, Of, TypeOK, Decision
  <2>10. ASSUME NEW r \in Of(k) PROVE [Queue(k) EXCEPT !.saving = r] \in QueueRecord
    BY <2>0 DEF Queue, QueueRecord, MaybeRequest, Of
  <2>11. ASSUME NEW r \in Of(k), ConsoleApproves(k, r) PROVE TypeOK'
    BY <2>1, <2>9, <2>10, <2>11 DEF ConsoleApproves, TypeOK, Decisions, MaybeRequest
  <2>12. ASSUME NEW r \in Of(k), ConsoleRejects(k, r) PROVE TypeOK'
    <3>1. Queue(k).text \in MaybeRequest BY <2>0 DEF Queue, QueueRecord
    <3> QED BY <2>1, <2>9, <2>10, <2>12, <3>1 DEF ConsoleRejects, TypeOK, Decisions
  <2> QED
    BY <1>3, <2>2, <2>3, <2>4, <2>5, <2>6, <2>7, <2>8, <2>11, <2>12 DEF ConsoleStep
<1>4. CASE PhoneStep
  <2>1. ASSUME NEW what \in {"approvals", "approved"}, NEW n \in Nat
        PROVE Load(what, n) \in Read
    BY DEF Load, Read
  <2>2. ASSUME NEW v \in {"approvals", "approved"}, PhonePulls(v) PROVE TypeOK'
    BY <2>1, <2>2 DEF PhonePulls, TypeOK
  <2>3. ASSUME NEW v \in {"approvals", "approved"}, SelectView(v) PROVE TypeOK'
    <3>1. phone' \in Phone BY <2>3 DEF SelectView, TypeOK, Phone, MaybeRequest
    <3>2. reads' \subseteq Read BY <2>1, <2>3 DEF SelectView, TypeOK
    <3> QED BY <2>3, <3>1, <3>2 DEF SelectView, TypeOK
  <2>4. ASSUME NEW l \in Read, NEW p \in Phone PROVE Freed(l, p) \in Phone
    BY DEF Freed, Phone, MaybeRequest
  <2>5. ASSUME NEW l \in reads PROVE l \in Read BY DEF TypeOK
  <2>6. ASSUME NEW l \in reads, PhoneReads(l) PROVE TypeOK'
    <3>1. [l EXCEPT !.at = "answered", !.seen = Waiting] \in Read BY <2>5 DEF Read, Waiting
    <3> QED BY <2>6, <3>1 DEF PhoneReads, TypeOK
  <2>7. ASSUME NEW l \in reads, PhoneShows(l) PROVE TypeOK'
    <3>1. [phone EXCEPT !.list = l.seen] \in Phone BY <2>5 DEF TypeOK, Read, Phone
    <3> QED BY <2>4, <2>5, <2>7, <3>1 DEF PhoneShows, TypeOK
  <2>8. ASSUME NEW l \in reads, PhoneShowsHistory(l) PROVE TypeOK'
    <3>1. [phone EXCEPT !.approved = {r \in Requests : status[r] = "APPROVED"}] \in Phone
      BY DEF TypeOK, Phone
    <3> QED BY <2>4, <2>5, <2>8, <3>1 DEF PhoneShowsHistory, TypeOK
  <2>9. ASSUME NEW l \in reads, PhoneReadFails(l) PROVE TypeOK'
    BY <2>4, <2>5, <2>9 DEF PhoneReadFails, TypeOK
  <2>10. ASSUME NEW r \in Requests, PhoneTypes(r) PROVE TypeOK'
    BY <2>10 DEF PhoneTypes, TypeOK, Phone
  <2>11. ASSUME NEW r \in Requests, NEW d \in Decisions, PhoneDecides(r, d) PROVE TypeOK'
    <3>1. phone' \in Phone BY <2>11 DEF PhoneDecides, TypeOK, Phone, MaybeRequest
    <3>2. asks' \subseteq Decision /\ presses' \in 0..MaxPresses
      BY <2>11 DEF PhoneDecides, Ask, TypeOK, Decision, MaybeRequest
    <3> QED BY <2>11, <3>1, <3>2 DEF PhoneDecides, TypeOK
  <2> QED BY <1>4, <2>2, <2>3, <2>6, <2>7, <2>8, <2>9, <2>10, <2>11 DEF PhoneStep
<1>5. ASSUME NEW a \in asks, Store(a) PROVE TypeOK'
  <2>1. a \in Decision /\ Answer(a) \in {"stored", "refused"} BY DEF TypeOK, Answer
  <2>2. asks' \subseteq Decision BY <1>5, <2>1 DEF Store, TypeOK, Decision
  <2>3. status' \in [Requests -> Statuses] /\ verdict' \in [Requests -> Verdict]
    <3>1. a.r \in Requests /\ a.decision \in Statuses /\ [by |-> a.from, text |-> a.text] \in Verdict
      BY <2>1 DEF Decision, Decisions, Statuses, Verdict
    <3> QED BY <1>5, <3>1 DEF Store, TypeOK
  <2> QED BY <1>5, <2>2, <2>3 DEF Store, TypeOK
<1>6. ASSUME NEW a \in asks, ConsoleHears(a) PROVE TypeOK'
  <2> DEFINE q == Queue(kind[a.r])
  <2>1. a \in Decision /\ kind[a.r] \in Kinds /\ q \in QueueRecord
    BY DEF TypeOK, Decision, Queue
  <2>2. [q EXCEPT !.saving = None] \in QueueRecord BY <2>1 DEF QueueRecord, MaybeRequest
  <2>3. [Refetched([q EXCEPT !.saving = None])
           EXCEPT !.rejecting = None, !.text = None, !.told = @ \cup {a.r}] \in QueueRecord
    BY <2>1, <2>2 DEF Refetched, QueueRecord, MaybeRequest, Decision
  <2>4. PICK new \in QueueRecord : Update(kind[a.r], new)
    BY <1>6, <2>2, <2>3 DEF ConsoleHears
  <2> QED BY <1>6, <2>1, <2>4 DEF ConsoleHears, Update, TypeOK
<1>7. ASSUME NEW a \in asks, PhoneHears(a) PROVE TypeOK'
  <2>1. a \in Decision BY DEF TypeOK
  <2>2. phone' \in Phone
    <3>1. a.r \in MaybeRequest /\ a.decision \in Decisions BY <2>1 DEF Decision, MaybeRequest
    <3>2. [phone EXCEPT !.notice = a.r, !.decision = a.decision, !.texts = @ \ {a.r}] \in Phone
      BY <3>1 DEF TypeOK, Phone
    <3>3. [phone EXCEPT !.processing = None] \in Phone BY DEF TypeOK, Phone, MaybeRequest
    <3> QED BY <1>7, <3>2, <3>3 DEF PhoneHears
  <2>3. reads' \subseteq Read BY <1>7, <2>1 DEF PhoneHears, TypeOK, Load, Read, Decision
  <2> QED BY <1>7, <2>2, <2>3 DEF PhoneHears, TypeOK
<1>8. ASSUME NEW a \in asks, DecisionLost(a) PROVE TypeOK'
  <2>1. a \in Decision /\ kind[a.r] \in Kinds BY DEF TypeOK, Decision
  <2>2. [Queue(kind[a.r]) EXCEPT !.saving = None] \in QueueRecord
    <3>1. Queue(kind[a.r]) \in QueueRecord BY <2>1 DEF TypeOK, Queue
    <3> QED BY <3>1 DEF QueueRecord, MaybeRequest
  <2>3. console' \in [Kinds -> QueueRecord] BY <1>8, <2>1, <2>2 DEF DecisionLost, Update, TypeOK
  <2>4. phone' \in Phone BY <1>8 DEF DecisionLost, TypeOK, Phone, MaybeRequest
  <2> QED BY <1>8, <2>3, <2>4 DEF DecisionLost, TypeOK
<1>9. ASSUME NEW a \in asks, ApprovalConflicts(a) PROVE TypeOK'
  <2>1. [a EXCEPT !.at = "refused"] \in Decision BY DEF TypeOK, Decision
  <2> QED BY <1>9, <2>1 DEF ApprovalConflicts, TypeOK
<1> QED BY <1>1, <1>2, <1>3, <1>4, <1>5, <1>6, <1>7, <1>8, <1>9 DEF Next

-----------------------------------------------------------------------------
LEMMA ToldInit == Init => Told
BY DEF Init, Told, AnswersAreTrue, ToldIsDecided, NoticeIsDecided, ToldIsTrue, IdleQueue

\* The rows of a request are written while it is undecided only.
LEMMA RowsNext ==
  ASSUME TypeOK, [Next]_vars
  PROVE  RowsStand
<1> USE DEF Final, RowsStand
<1>1. CASE UNCHANGED <<status, verdict>> BY <1>1
<1>2. ASSUME NEW r \in Requests, Submit(r) PROVE RowsStand
  BY <1>2 DEF Submit, TypeOK
<1>3. CASE StoreWithdrawal BY <1>3 DEF StoreWithdrawal, TypeOK
<1>4. ASSUME NEW a \in asks, Store(a) PROVE RowsStand
  <2>1. a.r \in Requests BY DEF TypeOK, Decision
  <2> QED BY <1>4, <2>1 DEF Store, Decidable, TypeOK
<1>5. ASSUME NEW r \in Requests, Withdraw(r) PROVE RowsStand BY <1>5 DEF Withdraw
<1>6. CASE EmployeeLoads BY <1>6 DEF EmployeeLoads
<1>7. ASSUME NEW k \in Kinds, ConsoleStep(k) PROVE RowsStand
  BY <1>7
  DEF ConsoleStep, ConsoleFocus, ConsoleReads, ConsoleShows, ConsoleReadFails, Type, CloseForm,
      OpenForm, ConsoleApproves, ConsoleRejects
<1>8. CASE PhoneStep
  BY <1>8
  DEF PhoneStep, PhonePulls, SelectView, PhoneReads, PhoneShows, PhoneShowsHistory,
      PhoneReadFails, PhoneTypes, PhoneDecides
<1>9. ASSUME NEW a \in asks,
             ApprovalConflicts(a) \/ ConsoleHears(a) \/ PhoneHears(a) \/ DecisionLost(a)
      PROVE RowsStand
  BY <1>9 DEF ApprovalConflicts, ConsoleHears, PhoneHears, DecisionLost
<1>10. DOMAIN console = Kinds BY DEF TypeOK
<1> QED
  BY <1>1, <1>2, <1>3, <1>4, <1>5, <1>6, <1>7, <1>8, <1>9, <1>10 DEF Next, EmployeeStep, vars

LEMMA QuietStep ==
  ASSUME IInv, TypeOK', RowsStand, SameTold, SameNotice, NoNewAnswer
  PROVE  Told'
<1>1. \A a \in asks : a \in Decision BY DEF IInv, TypeOK
<1>2. AnswersAreTrue'
  BY <1>1 DEF IInv, Told, AnswersAreTrue, NoNewAnswer, RowsStand, Final, Decision, Decisions
<1>3. \A k \in Kinds : \A r \in console'[k].told :
        r \in Requests /\ status[r] \in Decisions /\ verdict[r].by = "console"
  <2>1. \A k \in Kinds : console[k].told \subseteq Requests
    BY DEF IInv, TypeOK, QueueRecord
  <2> QED BY <2>1 DEF IInv, TypeOK, Told, ToldIsDecided, ToldIsTrue, SameTold
<1>4. ToldIsDecided' BY <1>3 DEF ToldIsDecided, RowsStand, Final, Decisions
<1>5. DOMAIN console' = Kinds BY DEF TypeOK
<1>6. phone'.notice # None =>
        /\ phone'.notice \in Requests /\ phone'.decision \in Decisions
        /\ status[phone'.notice] = phone'.decision /\ verdict[phone'.notice].by = "phone"
  BY DEF IInv, TypeOK, Told, NoticeIsDecided, ToldIsTrue, SameNotice, Phone, MaybeRequest
<1>7. NoticeIsDecided' /\ ToldIsTrue'
  BY <1>3, <1>5, <1>6 DEF NoticeIsDecided, ToldIsTrue, RowsStand, Final, Decisions
<1> QED BY <1>2, <1>4, <1>7 DEF Told

LEMMA ToldNext == IInv /\ [Next]_vars => Told'
<1> SUFFICES ASSUME IInv, [Next]_vars PROVE Told' OBVIOUS
<1>1. TypeOK /\ TypeOK' BY TypeNext DEF IInv
<1>2. RowsStand BY <1>1, RowsNext
<1>3. ASSUME SameTold, SameNotice, NoNewAnswer PROVE Told' BY <1>1, <1>2, <1>3, QuietStep
<1>4. ASSUME UNCHANGED <<console, phone, asks>> PROVE Told'
  BY <1>3, <1>4 DEF SameTold, SameNotice, NoNewAnswer
<1>5. CASE UNCHANGED vars BY <1>4, <1>5 DEF vars
<1>6. CASE EmployeeStep
  BY <1>4, <1>6 DEF EmployeeStep, Submit, Withdraw, StoreWithdrawal, EmployeeLoads
<1>7. ASSUME NEW k \in Kinds, ConsoleStep(k) PROVE Told'
  <2>1. console[k] \in QueueRecord BY <1>1 DEF TypeOK
  <2>2. UNCHANGED phone
    BY <1>7
    DEF ConsoleStep, ConsoleFocus, ConsoleReads, ConsoleShows, ConsoleReadFails, Type, CloseForm,
        OpenForm, ConsoleApproves, ConsoleRejects
  <2>3. ASSUME NEW q, Update(k, q), q.told = console[k].told PROVE SameTold
    BY <1>1, <2>3 DEF Update, SameTold, TypeOK
  <2>4. ASSUME UNCHANGED asks PROVE NoNewAnswer BY <2>4 DEF NoNewAnswer
  <2>5. ASSUME NEW r, NEW d, NEW t, Ask("console", r, d, t) PROVE NoNewAnswer
    BY <2>5 DEF Ask, NoNewAnswer
  <2>6. CASE ConsoleFocus(k)
    <3>1. Refetched(Queue(k)).told = console[k].told BY <2>1 DEF Refetched, Queue, QueueRecord
    <3> QED BY <1>3, <2>2, <2>3, <2>4, <2>6, <3>1 DEF ConsoleFocus, SameNotice
  <2>7. CASE ConsoleReads(k)
    <3>1. [Queue(k) EXCEPT !.read = "answered", !.seen = Waiting \cap Of(k)].told = console[k].told
      BY <2>1 DEF Queue, QueueRecord
    <3> QED BY <1>3, <2>2, <2>3, <2>4, <2>7, <3>1 DEF ConsoleReads, SameNotice
  <2>8. CASE ConsoleShows(k)
    <3>1. [Queue(k) EXCEPT !.read = "idle", !.list = Queue(k).seen, !.seen = {}].told
            = console[k].told
      BY <2>1 DEF Queue, QueueRecord
    <3> QED BY <1>3, <2>2, <2>3, <2>4, <2>8, <3>1 DEF ConsoleShows, SameNotice
  <2>9. CASE ConsoleReadFails(k)
    <3>1. [Queue(k) EXCEPT !.read = "idle", !.seen = {}, !.failed = TRUE].told = console[k].told
      BY <2>1 DEF Queue, QueueRecord
    <3> QED BY <1>3, <2>2, <2>3, <2>4, <2>9, <3>1 DEF ConsoleReadFails, SameNotice
  <2>10. CASE Type(k)
    <3>1. [Queue(k) EXCEPT !.text = Queue(k).rejecting].told = console[k].told
      BY <2>1 DEF Queue, QueueRecord
    <3> QED BY <1>3, <2>2, <2>3, <2>4, <2>10, <3>1 DEF Type, SameNotice
  <2>11. CASE CloseForm(k)
    <3>1. [Queue(k) EXCEPT !.rejecting = None, !.text = None].told = console[k].told
      BY <2>1 DEF Queue, QueueRecord
    <3> QED BY <1>3, <2>2, <2>3, <2>4, <2>11, <3>1 DEF CloseForm, SameNotice
  <2>12. ASSUME NEW r \in Of(k), OpenForm(k, r) PROVE Told'
    <3>1. [Queue(k) EXCEPT !.rejecting = r, !.text = TextOfNewForm(k, Queue(k))].told
            = console[k].told
      BY <2>1 DEF Queue, QueueRecord
    <3> QED BY <1>3, <2>2, <2>3, <2>4, <2>12, <3>1 DEF OpenForm, SameNotice
  <2>13. ASSUME NEW r \in Of(k), ConsoleApproves(k, r) \/ ConsoleRejects(k, r) PROVE Told'
    <3>1. [Queue(k) EXCEPT !.saving = r].told = console[k].told
      BY <2>1 DEF Queue, QueueRecord
    <3>2. SameTold BY <2>3, <2>13, <3>1 DEF ConsoleApproves, ConsoleRejects
    <3>3. NoNewAnswer BY <2>5, <2>13 DEF ConsoleApproves, ConsoleRejects
    <3> QED BY <1>3, <2>2, <3>2, <3>3 DEF SameNotice
  <2> QED
    BY <1>7, <2>6, <2>7, <2>8, <2>9, <2>10, <2>11, <2>12, <2>13 DEF ConsoleStep
<1>8. CASE PhoneStep
  <2>1. UNCHANGED console
    BY <1>8
    DEF PhoneStep, PhonePulls, SelectView, PhoneReads, PhoneShows, PhoneShowsHistory,
        PhoneReadFails, PhoneTypes, PhoneDecides
  <2>2. ASSUME UNCHANGED asks, SameNotice PROVE Told'
    BY <1>3, <2>1, <2>2 DEF SameTold, NoNewAnswer
  <2>3. ASSUME NEW l, NEW p \in Phone, phone' = Freed(l, p),
               p.notice = phone.notice, p.decision = phone.decision
        PROVE  SameNotice
    BY <2>3 DEF Freed, SameNotice, Phone
  <2>4. phone \in Phone BY <1>1 DEF TypeOK
  <2>5. ASSUME NEW v \in {"approvals", "approved"}, PhonePulls(v) \/ SelectView(v) PROVE Told'
    BY <2>2, <2>4, <2>5 DEF PhonePulls, SelectView, SameNotice, Phone
  <2>6. ASSUME NEW l \in reads, PhoneReads(l) PROVE Told'
    BY <2>2, <2>6 DEF PhoneReads, SameNotice
  <2>7. ASSUME NEW l \in reads, PhoneShows(l) PROVE Told'
    <3>1. l.seen \subseteq Requests BY <1>1 DEF TypeOK, Read
    <3>2. /\ [phone EXCEPT !.list = l.seen] \in Phone
          /\ [phone EXCEPT !.list = l.seen].notice = phone.notice
          /\ [phone EXCEPT !.list = l.seen].decision = phone.decision
      BY <2>4, <3>1 DEF Phone
    <3> QED BY <2>2, <2>3, <2>7, <3>2 DEF PhoneShows
  <2>8. ASSUME NEW l \in reads, PhoneShowsHistory(l) PROVE Told'
    <3> DEFINE p == [phone EXCEPT !.approved = {r \in Requests : status[r] = "APPROVED"}]
    <3>1. p \in Phone /\ p.notice = phone.notice /\ p.decision = phone.decision
      BY <2>4 DEF Phone
    <3> QED BY <2>2, <2>3, <2>8, <3>1 DEF PhoneShowsHistory
  <2>9. ASSUME NEW l \in reads, PhoneReadFails(l) PROVE Told'
    BY <2>2, <2>3, <2>4, <2>9 DEF PhoneReadFails
  <2>10. ASSUME NEW r \in Requests, PhoneTypes(r) PROVE Told'
    BY <2>2, <2>4, <2>10 DEF PhoneTypes, SameNotice, Phone
  <2>11. ASSUME NEW r \in Requests, NEW d \in Decisions, PhoneDecides(r, d) PROVE Told'
    <3>1. SameNotice BY <2>4, <2>11 DEF PhoneDecides, SameNotice, Phone
    <3>2. NoNewAnswer BY <2>11 DEF PhoneDecides, Ask, NoNewAnswer
    <3> QED BY <1>3, <2>1, <3>1, <3>2 DEF SameTold
  <2> QED BY <1>8, <2>5, <2>6, <2>7, <2>8, <2>9, <2>10, <2>11 DEF PhoneStep
<1>9. ASSUME NEW a \in asks, DecisionLost(a) PROVE Told'
  <2> DEFINE k == kind[a.r]
  <2>1. a \in Decision /\ k \in Kinds BY <1>1 DEF TypeOK, Decision
  <2>2. SameTold
    <3>1. console[k] \in QueueRecord BY <1>1, <2>1 DEF TypeOK
    <3>2. [Queue(k) EXCEPT !.saving = None].told = console[k].told
      BY <3>1 DEF Queue, QueueRecord
    <3>3. UNCHANGED console \/ console' = [console EXCEPT ![k] = [Queue(k) EXCEPT !.saving = None]]
      BY <1>9 DEF DecisionLost, Update
    <3> QED BY <1>1, <2>1, <3>2, <3>3 DEF SameTold, TypeOK
  <2>3. SameNotice BY <1>1, <1>9 DEF DecisionLost, SameNotice, TypeOK, Phone
  <2>4. NoNewAnswer BY <1>9 DEF DecisionLost, NoNewAnswer
  <2> QED BY <1>3, <2>2, <2>3, <2>4
<1>10. ASSUME NEW a \in asks, Store(a) PROVE Told'
  <2>1. a \in Decision /\ a.r \in Requests BY <1>1 DEF TypeOK, Decision
  <2>2. CASE ~Decidable(a.r)
    <3>1. NoNewAnswer BY <1>10, <2>1, <2>2 DEF Store, Answer, NoNewAnswer, Decision
    <3> QED BY <1>3, <1>10, <3>1 DEF Store, SameTold, SameNotice
  <2>3. CASE Decidable(a.r)
    <3>1. \A b \in asks' : b \in asks \/ b = [a EXCEPT !.at = "stored"]
      BY <1>10, <2>3 DEF Store, Answer
    <3>2. status'[a.r] = a.decision /\ verdict'[a.r].by = a.from
      BY <1>1, <1>10, <2>1, <2>3 DEF Store, TypeOK
    <3>3. status[a.r] \notin Decisions BY <2>3 DEF Decidable, Decisions
    <3>4. \A b \in asks : b.at = "stored" => b.r \in Requests /\ status[b.r] \in Decisions
      BY <1>1 DEF IInv, Told, AnswersAreTrue, TypeOK, Decision
    <3>5. AnswersAreTrue'
      <4> SUFFICES ASSUME NEW b \in asks', b.at = "stored"
                   PROVE  status'[b.r] = b.decision /\ verdict'[b.r].by = b.from
        BY DEF AnswersAreTrue
      <4>1. CASE b \in asks
        BY <1>2, <3>4, <4>1 DEF IInv, Told, AnswersAreTrue, RowsStand, Final, Decisions
      <4>2. CASE b = [a EXCEPT !.at = "stored"]
        <5>1. b.r = a.r /\ b.decision = a.decision /\ b.from = a.from
          BY <2>1, <4>2 DEF Decision
        <5> QED BY <3>2, <5>1
      <4> QED BY <3>1, <4>1, <4>2
    <3>6. UNCHANGED <<console, phone>> BY <1>10 DEF Store
    <3>7. ToldIsDecided' /\ NoticeIsDecided' /\ ToldIsTrue'
      <4>1. \A k \in Kinds : console[k].told \subseteq Requests BY <1>1 DEF TypeOK, QueueRecord
      <4>2. phone.notice # None => phone.notice \in Requests
        BY <1>1 DEF TypeOK, Phone, MaybeRequest
      <4>3. \A k \in Kinds : \A r \in console[k].told :
              r \in Requests /\ status[r] \in Final /\ status[r] \in Decisions
              /\ verdict[r].by = "console"
        BY <1>1, <4>1 DEF IInv, Told, ToldIsDecided, ToldIsTrue, TypeOK, Final, Decisions
      <4>4. DOMAIN console = Kinds BY <1>1 DEF TypeOK
      <4>5. NoticeIsDecided' BY <3>6 DEF IInv, Told, NoticeIsDecided
      <4>6. ToldIsDecided' BY <1>2, <3>6, <4>3 DEF ToldIsDecided, RowsStand
      <4>7. ToldIsTrue'
        BY <1>2, <3>6, <4>2, <4>3, <4>4
        DEF IInv, Told, NoticeIsDecided, ToldIsTrue, RowsStand, Final, Decisions
      <4> QED BY <4>5, <4>6, <4>7
    <3> QED BY <3>5, <3>7 DEF Told
  <2> QED BY <2>2, <2>3
<1>11. ASSUME NEW a \in asks, ConsoleHears(a) PROVE Told'
  <2> DEFINE k == kind[a.r]
  <2>1. a \in Decision /\ a.r \in Requests /\ k \in Kinds /\ console[k] \in QueueRecord
        /\ DOMAIN console = Kinds
    BY <1>1 DEF TypeOK, Decision
  <2>2. NoNewAnswer /\ UNCHANGED <<phone, status, verdict>>
    BY <1>11 DEF ConsoleHears, NoNewAnswer
  <2>3. CASE a.at # "stored"
    <3>1. SameTold
      BY <1>11, <2>1, <2>3 DEF ConsoleHears, Update, Queue, SameTold, QueueRecord
    <3> QED BY <1>3, <2>2, <3>1 DEF SameNotice
  <2>4. CASE a.at = "stored"
    <3>1. \A j \in Kinds : console'[j].told \subseteq console[j].told \cup {a.r}
      <4> DEFINE heard == [Queue(k) EXCEPT !.saving = None]
                 new == [Refetched(heard) EXCEPT !.rejecting = None, !.text = None,
                                                 !.told = @ \cup {a.r}]
      <4>1. console' = [console EXCEPT ![k] = new] BY <1>11, <2>4 DEF ConsoleHears, Update
      <4>2. heard \in QueueRecord /\ heard.told = console[k].told
        BY <2>1 DEF Queue, QueueRecord, MaybeRequest
      <4>3. new.told = console[k].told \cup {a.r}
        BY <4>2 DEF Refetched, QueueRecord
      <4> QED BY <2>1, <4>1, <4>3
    <3>2. status[a.r] \in Decisions /\ verdict[a.r].by = "console"
      BY <1>11, <2>1, <2>4 DEF ConsoleHears, IInv, Told, AnswersAreTrue, Decision
    <3>3. ToldIsDecided' BY <2>2, <3>1, <3>2 DEF IInv, Told, ToldIsDecided
    <3>4. AnswersAreTrue' /\ NoticeIsDecided'
      BY <2>2 DEF IInv, Told, AnswersAreTrue, NoticeIsDecided, NoNewAnswer
    <3>5. DOMAIN console' = Kinds BY <1>1 DEF TypeOK
    <3>6. ToldIsTrue' BY <2>1, <2>2, <3>1, <3>2, <3>5 DEF IInv, Told, ToldIsTrue
    <3> QED BY <3>3, <3>4, <3>6 DEF Told
  <2> QED BY <2>3, <2>4
<1>12. ASSUME NEW a \in asks, PhoneHears(a) PROVE Told'
  <2>1. a \in Decision /\ a.decision \in Decisions BY <1>1 DEF TypeOK, Decision
  <2>2. NoNewAnswer /\ UNCHANGED <<console, status, verdict>>
    BY <1>12 DEF PhoneHears, NoNewAnswer
  <2>3. CASE a.at # "stored"
    <3>1. SameNotice BY <1>1, <1>12, <2>3 DEF PhoneHears, SameNotice, TypeOK, Phone
    <3> QED BY <1>3, <2>2, <3>1 DEF SameTold
  <2>4. CASE a.at = "stored"
    <3>1. phone'.notice = a.r /\ phone'.decision = a.decision
      BY <1>1, <1>12, <2>4 DEF PhoneHears, TypeOK, Phone
    <3>2. status[a.r] = a.decision /\ verdict[a.r].by = "phone"
      BY <1>12, <2>4 DEF PhoneHears, IInv, Told, AnswersAreTrue
    <3>3. AnswersAreTrue' /\ ToldIsDecided' /\ NoticeIsDecided'
      BY <2>1, <2>2, <3>1
      DEF IInv, Told, AnswersAreTrue, ToldIsDecided, NoticeIsDecided, NoNewAnswer
    <3>4. ToldIsTrue' BY <2>2, <3>1, <3>2 DEF IInv, Told, ToldIsTrue
    <3> QED BY <3>3, <3>4 DEF Told
  <2> QED BY <2>3, <2>4
<1>13. ASSUME NEW a \in asks, ApprovalConflicts(a) PROVE Told'
  <2>1. a \in Decision BY <1>1 DEF TypeOK
  <2>2. NoNewAnswer BY <1>13, <2>1 DEF ApprovalConflicts, NoNewAnswer, Decision
  <2> QED BY <1>3, <1>13, <2>2 DEF ApprovalConflicts, SameTold, SameNotice
<1>14. DOMAIN console = Kinds BY <1>1 DEF TypeOK
<1> QED BY <1>5, <1>6, <1>7, <1>8, <1>9, <1>10, <1>11, <1>12, <1>13, <1>14 DEF Next

-----------------------------------------------------------------------------
\* Types, decisions that stand and notices that are true hold in every reachable state.
THEOREM Invariance == Spec => []IInv
<1>1. Init => IInv BY TypeInit, ToldInit DEF IInv
<1>2. IInv /\ [Next]_vars => IInv' BY TypeNext, ToldNext DEF IInv
<1> QED BY <1>1, <1>2, PTL DEF Spec

\* Every list, notice, call and row of the two clients and the server keeps its type.
THEOREM TypeCorrect == Spec => []TypeOK
<1>1. IInv => TypeOK BY DEF IInv
<1> QED BY <1>1, Invariance, PTL

\* What the phone's notice and the console's closed rows tell of a decision is what is
\* stored, however many clients decided and whatever was lost (SupervisorScreen.tsx
\* decide, App.tsx ApprovalQueue, claims.go decideClaim and its three likes).
THEOREM NoticesAreTrue == Spec => []ToldIsTrue
<1>1. IInv => ToldIsTrue BY DEF IInv, Told
<1> QED BY <1>1, Invariance, PTL

\* The first decision or withdrawal of a request is final.
THEOREM DecisionsStand == Spec => FirstDecisionStands
<1>1. IInv /\ [Next]_vars =>
        [\A r \in Requests :
           status[r] \in {"APPROVED", "REJECTED", "WITHDRAWN"} =>
             status'[r] = status[r] /\ verdict'[r] = verdict[r]]_vars
  BY RowsNext DEF IInv, RowsStand, Final
<1> QED BY <1>1, Invariance, PTL DEF Spec, FirstDecisionStands
=============================================================================
