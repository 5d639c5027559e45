------------------------------- MODULE DemoApi -------------------------------
(***************************************************************************)
(* demoApi.ts: the API of the demo, which lives on the phone.  The whole   *)
(* demo is one document in AsyncStorage.  A call reads the document, works *)
(* on its own copy and writes the copy back, and nothing keeps two calls   *)
(* apart: a write may undo what another call stored meanwhile.  A document *)
(* of an earlier day is replaced by a fresh sample when it is next read.   *)
(*                                                                         *)
(* What is made during the demo is named by the number of the call that    *)
(* made it, which stands for Date.now().                                   *)
(***************************************************************************)
EXTENDS Naturals, Sequences, FiniteSets

CONSTANTS
  Slots,       \* calls under way at one time
  Employees,   \* DEMO_EMPLOYEES
  Codes,       \* codes a supervisor types for a showroom
  MaxCalls,    \* bound on the calls of a behaviour
  MaxBusy,     \* bound on the calls after which only the kiosk is used
  MaxDays,     \* bound on the days
  None

ASSUME BoundsAreNat == MaxCalls \in Nat /\ MaxBusy \in 0..MaxCalls /\ MaxDays \in Nat
ASSUME SomeCode == Codes # {}

CallIds == 1..MaxCalls
Days == 0..MaxDays
Actions == {"CLOCK_IN", "CLOCK_OUT", "START_BREAK", "END_BREAK", "WORK_MORE"}
States == {"NOT_STARTED", "WORKING", "ON_BREAK", "COMPLETED"}
Queues == {"attendanceRequests", "leaveRequests", "claims", "shiftRequests"}
Own == {"leave", "claim"}
Flags == {"openShiftRequested", "announcementAcknowledged", "read"}
SeedSection == 0
SeedShift == 0
SectionIds == 0..MaxCalls
ShiftIds == 0..MaxCalls

Event == [id: CallIds, action: Actions, day: Days]
Section == [code: Codes, active: BOOLEAN]
KioskMode == [token: CallIds, section: SectionIds]
Document ==
  [seedDate: Days,
   sequence: 0..MaxCalls,
   sections: [SectionIds -> Section \cup {None}],
   state: States, events: Seq(Event),
   kiosk: KioskMode \cup {None},
   kioskState: [Employees -> States], kioskEvents: [Employees -> Seq(Event)],
   photos: SUBSET CallIds,
   evidence: [CallIds -> CallIds \cup {None}],
   own: [Own -> [CallIds -> {"PENDING", "WITHDRAWN", None}]],
   queue: [Queues -> {"PENDING", "APPROVED", "REJECTED"}],
   flags: SUBSET Flags,
   shifts: [ShiftIds -> {None} \cup SUBSET Employees]]


\* What answers tell of: each thing by its kind and its number.
FactKinds ==
  Queues \cup Flags \cup {"event", "photo", "employee", "showroom", "own", "withdrawn", "shift"}

\* A call: the document it read, whether it has a seed to write first, what it writes
\* back, and what its answer says is stored.
Roles == {"employee", "supervisor", "kiosk"}
Call ==
  [role: Roles, day: Days, saw: Document \cup {None}, seeds: BOOLEAN,
   writes: Document \cup {None}, tells: SUBSET (FactKinds \X Nat)]

ASSUME NoneIsNoValue ==
  /\ None \notin Section \cup KioskMode \cup Document \cup Call \cup {"PENDING", "WITHDRAWN"}
  /\ \A who \in SUBSET Employees : who # None

VARIABLES
  document, \* the document in AsyncStorage
  today,    \* the local date
  slot,     \* the calls under way: the request and the copy it works on
  made,     \* calls made so far
  told,     \* what calls of today were answered to have stored
  raced     \* a call wrote over a document it had not read

demoVars == <<document, today, slot, made, told, raced>>

-----------------------------------------------------------------------------
(* The sample. *)

SeedSections ==
  [s \in SectionIds |-> IF s = SeedSection THEN [code |-> CHOOSE c \in Codes : TRUE, active |-> TRUE]
                        ELSE None]
SeedQueues == [q \in Queues |-> "PENDING"]
SeedShifts == [x \in ShiftIds |-> IF x = SeedShift THEN Employees ELSE None]

InitialState(day) ==
  [seedDate |-> day, sequence |-> 0, sections |-> SeedSections,
   state |-> "NOT_STARTED", events |-> <<>>,
   kiosk |-> None,
   kioskState |-> [e \in Employees |-> "NOT_STARTED"],
   kioskEvents |-> [e \in Employees |-> <<>>],
   photos |-> {}, evidence |-> [i \in CallIds |-> None],
   own |-> [k \in Own |-> [i \in CallIds |-> None]],
   queue |-> SeedQueues, flags |-> {}, shifts |-> SeedShifts]

Usable(doc) == doc # None /\ doc.seedDate = today

-----------------------------------------------------------------------------
(* The routes: whether a route takes the call on document d, and the document it   *)
(* leaves in the copy.  n is the number of the call.                                *)

\* For a mutant: the day of the UTC instant, not of the phone.
NewEventUTC(n, action) == [id |-> n, action |-> action, day |-> today + 1]

NewEvent(n, action) == [id |-> n, action |-> action, day |-> today]

\* attendanceAction of the employee: one clock-in a day, any other action at any time.
AlreadyClockedInToday(d) ==
  \E i \in DOMAIN d.events : d.events[i].action = "CLOCK_IN" /\ d.events[i].day = today
ActionAllowed(d, action) == action = "CLOCK_IN" => ~AlreadyClockedInToday(d)
StateAfter(action) ==
  CASE action = "CLOCK_OUT" -> "COMPLETED"
    [] action = "START_BREAK" -> "ON_BREAK"
    [] OTHER -> "WORKING"
ActionTaken(d, n, action) ==
  [d EXCEPT !.state = StateAfter(action), !.events = <<NewEvent(n, action)>> \o @]

\* The kiosk: its token and its showroom must stand.
KioskOpen(d, token) ==
  /\ d.kiosk # None /\ d.kiosk.token = token
  /\ d.sections[d.kiosk.section] # None /\ d.sections[d.kiosk.section].active
\* For a mutant: a clock-in is not compared with the record.
KioskAllowedAgain(d, e, action) ==
  action = "CLOCK_IN" \/ (d.kioskState[e] = "WORKING" /\ action = "CLOCK_OUT")
KioskAllowed(d, e, action) ==
  \/ d.kioskState[e] = "NOT_STARTED" /\ action = "CLOCK_IN"
  \/ d.kioskState[e] = "WORKING" /\ action = "CLOCK_OUT"
  \/ d.kioskState[e] = "ON_BREAK" /\ action = "END_BREAK"
KioskTaken(d, n, e, action, photo) ==
  [d EXCEPT !.kioskState[e] = StateAfter(action),
            !.kioskEvents[e] = <<NewEvent(n, action)>> \o @,
            !.evidence[n] = IF photo \in d.photos THEN photo ELSE None]

PhotoStored(d, n) == [d EXCEPT !.photos = @ \cup {n}]

KioskActivated(d, n, s) == [d EXCEPT !.kiosk = [token |-> n, section |-> s]]
KioskRevoked(d) == [d EXCEPT !.kiosk = None]

EmployeeCreated(d) == [d EXCEPT !.sequence = @ + 1]

CodeFree(d, s, code) == \A t \in SectionIds \ {s} : d.sections[t] # None => d.sections[t].code # code
SectionPut(d, s, code) ==
  [d EXCEPT !.sections[s] = [code |-> code, active |-> IF @ = None THEN TRUE ELSE @.active]]
SectionSwitched(d, s, active) == [d EXCEPT !.sections[s].active = active]

OwnCreated(d, k, n) == [d EXCEPT !.own[k][n] = "PENDING"]
OwnWithdrawn(d, k, i) == [d EXCEPT !.own[k][i] = IF @ = None THEN None ELSE "WITHDRAWN"]
Decided(d, q, decision) == [d EXCEPT !.queue[q] = decision]
Flagged(d, flags) == [d EXCEPT !.flags = @ \cup flags]

ShiftCreated(d, n, who) == [d EXCEPT !.shifts[n] = who]
ParticipantsSaved(d, x, who) == [d EXCEPT !.shifts[x] = who]

\* What the supervisor's report says of an employee who used the kiosk.
Did(d, e, action) == \E i \in DOMAIN d.kioskEvents[e] : d.kioskEvents[e][i].action = action
ReportStatus(d, e) == IF Did(d, e, "CLOCK_OUT") THEN "ON_TIME" ELSE "WORKING"

-----------------------------------------------------------------------------
(* What a document shows of earlier calls; none of it is ever taken back on one day. *)

Facts(d) ==
  {<<"event", d.events[i].id>> : i \in DOMAIN d.events}
  \cup (UNION {{<<"event", d.kioskEvents[e][i].id>> : i \in DOMAIN d.kioskEvents[e]} : e \in Employees})
  \cup {<<"photo", p>> : p \in d.photos}
  \cup {<<"employee", i>> : i \in 1..d.sequence}
  \cup {<<"showroom", s>> : s \in {t \in SectionIds : d.sections[t] # None}}
  \cup {<<"own", i>> : i \in {j \in CallIds : \E k \in Own : d.own[k][j] # None}}
  \cup {<<"withdrawn", i>> : i \in {j \in CallIds : \E k \in Own : d.own[k][j] = "WITHDRAWN"}}
  \cup {<<q, 0>> : q \in {r \in Queues : d.queue[r] # "PENDING"}}
  \cup {<<f, 0>> : f \in d.flags}
  \cup {<<"shift", x>> : x \in {y \in ShiftIds : d.shifts[y] # None}}

-----------------------------------------------------------------------------
(* A call. *)

DemoInit ==
  /\ document = None /\ today = 0
  /\ slot = [c \in Slots |-> None]
  /\ made = 0 /\ told = {} /\ raced = FALSE

\* demoRequest: read the document, seeding one if there is none of today, and work on
\* the copy.  The screens of one role are open at a time.
Begin(c, role, Takes(_), Leaves(_), tells) ==
  LET d == IF Usable(document) THEN document ELSE InitialState(today) IN
  /\ slot[c] = None
  /\ made < IF role = "kiosk" THEN MaxCalls ELSE MaxBusy
  /\ \A b \in Slots : slot[b] # None => slot[b].role = role
  /\ made' = made + 1
  /\ slot' = [slot EXCEPT ![c] =
       [role |-> role, day |-> today, saw |-> document, seeds |-> ~Usable(document),
        writes |-> IF Takes(d) THEN Leaves(d) ELSE None,
        tells |-> IF Takes(d) THEN tells ELSE {}]]
  /\ UNCHANGED <<document, today, told, raced>>

Always(d) == TRUE
New == made + 1

\* writeState of the seed, before the route goes on.
WriteSeed(c) ==
  /\ slot[c] # None /\ slot[c].seeds
  /\ document' = InitialState(slot[c].day)
  /\ raced' = (raced \/ document # slot[c].saw)
  /\ slot' = [slot EXCEPT ![c].seeds = FALSE, ![c].saw = InitialState(slot[c].day)]
  /\ UNCHANGED <<today, made, told>>

\* A kiosk's upload that passed the check of its token and has read no copy yet.
Checked(c) == slot[c] # None /\ slot[c].writes = None /\ slot[c].tells # {}

\* For a mutant: the route answers without writeState.
AnswerUnsaved(c) ==
  /\ slot[c] # None /\ ~slot[c].seeds /\ ~Checked(c)
  /\ told' = told \cup slot[c].tells
  /\ slot' = [slot EXCEPT ![c] = None]
  /\ UNCHANGED <<document, today, made, raced>>

\* writeState of the copy, and the answer.
Answer(c) ==
  /\ slot[c] # None /\ ~slot[c].seeds /\ ~Checked(c)
  /\ IF slot[c].writes = None THEN UNCHANGED <<document, raced>>
     ELSE /\ document' = slot[c].writes
          /\ raced' = (raced \/ document # slot[c].saw)
  /\ told' = IF slot[c].day = today THEN told \cup slot[c].tells ELSE told
  /\ slot' = [slot EXCEPT ![c] = None]
  /\ UNCHANGED <<today, made>>

\* Every GET: it may seed, and stores nothing else.
Look(c) ==
  LET Never(d) == FALSE
      Same(d) == d
  IN \E role \in {"employee", "supervisor"} : Begin(c, role, Never, Same, {})

AttendanceAction(c) ==
  \E action \in Actions :
    LET Takes(d) == ActionAllowed(d, action)
        Leaves(d) == ActionTaken(d, New, action)
    IN Begin(c, "employee", Takes, Leaves, {<<"event", New>>})

UploadAttachment(c) ==
  LET Leaves(d) == PhotoStored(d, New)
  IN Begin(c, "employee", Always, Leaves, {<<"photo", New>>})

CreateOwn(c) ==
  \E k \in Own :
    LET Leaves(d) == OwnCreated(d, k, New)
    IN Begin(c, "employee", Always, Leaves, {<<"own", New>>})

WithdrawOwn(c) ==
  \E k \in Own, i \in 1..made :
    LET Leaves(d) == OwnWithdrawn(d, k, i)
    IN Begin(c, "employee", Always, Leaves, {})

\* requestOpenShift, an announcement's receipt and a notification's read mark.
Flag(c) ==
  \E flags \in {{"openShiftRequested"}, {"announcementAcknowledged", "read"}, {"read"}} :
    LET Leaves(d) == Flagged(d, flags)
    IN Begin(c, "employee", Always, Leaves, {<<f, 0>> : f \in flags})

Decide(c) ==
  \E q \in Queues, decision \in {"APPROVED", "REJECTED"} :
    LET Leaves(d) == Decided(d, q, decision)
    IN Begin(c, "supervisor", Always, Leaves, {<<q, 0>>})

CreateEmployee(c) ==
  LET Leaves(d) == EmployeeCreated(d) IN Begin(c, "supervisor", Always, Leaves, {})

CreateSection(c) ==
  \E code \in Codes :
    LET Takes(d) == CodeFree(d, New, code)
        Leaves(d) == SectionPut(d, New, code)
    IN Begin(c, "supervisor", Takes, Leaves, {<<"showroom", New>>})

UpdateSection(c) ==
  \E s \in 0..made, code \in Codes :
    LET Takes(d) == d.sections[s] # None /\ CodeFree(d, s, code)
        Leaves(d) == SectionPut(d, s, code)
    IN Begin(c, "supervisor", Takes, Leaves, {})

SwitchSection(c) ==
  \E s \in 0..made, active \in BOOLEAN :
    LET Takes(d) == d.sections[s] # None
        Leaves(d) == SectionSwitched(d, s, active)
    IN Begin(c, "supervisor", Takes, Leaves, {})

CreateShift(c) ==
  \E who \in SUBSET Employees :
    LET Leaves(d) == ShiftCreated(d, New, who)
    IN Begin(c, "supervisor", Always, Leaves, {<<"shift", New>>})

SaveParticipants(c) ==
  \E x \in 0..made, who \in SUBSET Employees :
    LET Takes(d) == d.shifts[x] # None
        Leaves(d) == ParticipantsSaved(d, x, who)
    IN Begin(c, "supervisor", Takes, Leaves, {})

ActivateKiosk(c) ==
  \E s \in 0..made :
    LET Takes(d) == d.sections[s] # None /\ d.sections[s].active
        Leaves(d) == KioskActivated(d, New, s)
    IN Begin(c, "supervisor", Takes, Leaves, {})

RevokeKiosk(c) == Begin(c, "supervisor", Always, KioskRevoked, {})

\* The check of the PIN shows the record, and writes the document back as it was read.
KioskStatus(c) ==
  \E token \in 1..made :
    LET Takes(d) == KioskOpen(d, token)
        Same(d) == d
    IN Begin(c, "kiosk", Takes, Same, {})

\* The upload does not ask whether the showroom is active, and checks the token on
\* one read of the document.
KioskUpload(c) ==
  \E token \in 1..made :
    LET Takes(d) == d.kiosk # None /\ d.kiosk.token = token
        Nothing(d) == None
    IN Begin(c, "kiosk", Takes, Nothing, {<<"photo", New>>})

\* Then demoUploadAttachment reads it again, and a fresh sample if it was replaced or
\* reset in between, whose kiosk it does not ask for.
KioskUploadReads(c) ==
  LET d == IF Usable(document) THEN document ELSE InitialState(today) IN
  /\ Checked(c)
  /\ \E n \in CallIds :
       /\ slot[c].tells = {<<"photo", n>>}
       /\ slot' = [slot EXCEPT ![c] =
            [@ EXCEPT !.day = today, !.saw = document, !.seeds = ~Usable(document),
                      !.writes = PhotoStored(d, n)]]
  /\ UNCHANGED <<document, today, made, told, raced>>

\* KioskScreen sends an action with the photo its upload was answered.
KioskAction(c) ==
  \E token \in 1..made, e \in Employees, action \in Actions,
     photo \in {p \in 1..made : <<"photo", p>> \in told} :
    LET Takes(d) == KioskOpen(d, token) /\ KioskAllowed(d, e, action)
        Leaves(d) == KioskTaken(d, New, e, action, photo)
    IN Begin(c, "kiosk", Takes, Leaves, {<<"event", New>>})

\* resetDemoData, from the profile.
ResetDemoData ==
  /\ document' = None /\ told' = {}
  /\ UNCHANGED <<today, slot, made, raced>>

NextDay ==
  /\ today < MaxDays
  /\ today' = today + 1 /\ told' = {}
  /\ UNCHANGED <<document, slot, made, raced>>

EmployeeCall(c) ==
  AttendanceAction(c) \/ UploadAttachment(c) \/ CreateOwn(c) \/ WithdrawOwn(c) \/ Flag(c)
SupervisorCall(c) ==
  \/ Decide(c) \/ CreateEmployee(c) \/ CreateShift(c) \/ SaveParticipants(c)
  \/ CreateSection(c) \/ UpdateSection(c) \/ SwitchSection(c)
  \/ ActivateKiosk(c) \/ RevokeKiosk(c)
KioskCall(c) == KioskStatus(c) \/ KioskUpload(c) \/ KioskUploadReads(c) \/ KioskAction(c)

DemoNext ==
  \/ \E c \in Slots : \/ Look(c) \/ EmployeeCall(c) \/ SupervisorCall(c) \/ KioskCall(c)
                      \/ WriteSeed(c) \/ Answer(c)
  \/ ResetDemoData \/ NextDay

DemoSpec == DemoInit /\ [][DemoNext]_demoVars

-----------------------------------------------------------------------------
(* Properties. *)

\* Every document is of the type DemoState gives it, the copies of calls too.
DemoTypeOK ==
  /\ document \in Document \cup {None}
  /\ slot \in [Slots -> Call \cup {None}]
  /\ today \in Days /\ made \in 0..MaxCalls /\ raced \in BOOLEAN
  /\ told \in SUBSET (FactKinds \X Nat)

\* An answered call of today is in the document, unless a call wrote over what it had
\* not read, or the sample was reset (demoApi.ts readState and writeState).
ConfirmedIsStored == ~raced /\ told # {} => Usable(document) /\ told \subseteq Facts(document)

OneClockInADay(d) ==
  \A i, j \in DOMAIN d.events :
    /\ i # j /\ d.events[i].action = "CLOCK_IN" /\ d.events[j].action = "CLOCK_IN"
    => d.events[i].day # d.events[j].day

KioskRecordIsLegal(d, e) ==
  LET done == [i \in DOMAIN d.kioskEvents[e] |-> d.kioskEvents[e][i].action] IN
  \/ done = <<>> /\ d.kioskState[e] = "NOT_STARTED"
  \/ done = <<"CLOCK_IN">> /\ d.kioskState[e] = "WORKING" /\ ReportStatus(d, e) = "WORKING"
  \/ /\ done = <<"CLOCK_OUT", "CLOCK_IN">> /\ d.kioskState[e] = "COMPLETED"
     /\ ReportStatus(d, e) = "ON_TIME"

\* Whatever is lost, and however calls overlap one another and midnight: a document
\* holds one clock-in of the employee a day, and what it holds of an employee at the
\* kiosk is a legal run of a day that agrees with the state the kiosk offers the next
\* action from and with the supervisor's report (attendanceAction, demoKioskRequest,
\* supervisorAttendanceReport).
RecordsAreLegal ==
  document # None =>
    OneClockInADay(document) /\ \A e \in Employees : KioskRecordIsLegal(document, e)
=============================================================================
