--------------------------- MODULE ScheduleProofs ---------------------------
(***************************************************************************)
(* Theorems about Schedule, for any shifts, members, times and lists of    *)
(* participants, and any number of calls at once.                          *)
(***************************************************************************)
EXTENDS Schedule, TLAPS

Existing == {s \in Shifts : shift[s] # "ABSENT"}
Creation == {"create", "createPublished"}

\* A shift that does not exist yet has no rows, is on no screen and is the subject of
\* no call but of the one that will create it.
NothingOfTheAbsent ==
    /\ \A s \in Shifts \ Existing : \A m \in Members : row[s][m] = "NONE" /\ request[s][m] = "NONE"
    /\ DOMAIN manager.items \subseteq Existing
    /\ manager.detail # None => manager.detail \in Existing
    /\ DOMAIN employee.offers \subseteq Existing
    /\ \A l \in loads : DOMAIN l.list \subseteq Existing
    /\ \A c \in calls : c.op \notin Creation => c.s \in Existing
CreatedOnce ==
    \A c \in calls : c.op \in Creation /\ c.at \in {"sent", "checked"} =>
        c.s \notin Existing /\ \A d \in calls : d.s = c.s => d = c

\* The row of a shift is held by one transaction at a time.
HeldByOne ==
    \A c, d \in Running : c.op \in Locking /\ d.op \in Locking /\ c.s = d.s => c = d

\* Nobody is named in a change of the status.
StatusNamesNobody == \A c \in calls : c.op \in {"publish", "unpublish"} => c.who = {}

\* Whom the commit of c will leave on a published shift that is no event.
Places(c, m) ==
    /\ c.op \in Placing /\ c.s \notin Events
    /\ c.op = "participants" => shift[c.s] = "PUBLISHED"
    /\ m \in IF c.op = "publish" THEN Participants(c.s) ELSE c.who

Busy(m, o) == o \notin Events /\ shift[o] = "PUBLISHED" /\ m \in Participants(o)

\* What a running transaction has counted is still so, but for races.
CountsHold ==
    \A c \in Running : \A m \in Members : \A o \in Shifts :
        Places(c, m) /\ o # c.s /\ Overlap(o, c.s) /\ Busy(m, o) => {c.s, o} \in raced

Orderly == NothingOfTheAbsent /\ CreatedOnce /\ HeldByOne /\ StatusNamesNobody
Booked == CountsHold /\ DoubleBookingNeedsARace
IInv == TypeOK /\ Orderly /\ Booked

-----------------------------------------------------------------------------
(* The types.                                                              *)

LEMMA ItemsAre ==
  /\ \A D \in SUBSET Shifts : \A f \in [D -> SUBSET Members] : f \in Items
  /\ \A f \in Items : DOMAIN f \subseteq Shifts /\ f \in [DOMAIN f -> SUBSET Members]
BY DEF Items

LEMMA OffersAre ==
  /\ \A D \in SUBSET Shifts : \A f \in [D -> RequestStatuses] : f \in Offers
  /\ \A f \in Offers : DOMAIN f \subseteq Shifts /\ f \in [DOMAIN f -> RequestStatuses]
BY DEF Offers

LEMMA ListsAreTyped ==
  ASSUME TypeOK
  PROVE  /\ NoList \in Items /\ NoList \in Offers
         /\ \A p \in Periods \cup {None} : ShiftsOf(p) \in Items
         /\ \A m \in Members : OpenShiftsOf(m) \in Offers
<1>1. NoList \in [{} -> SUBSET Members] /\ NoList \in [{} -> RequestStatuses] BY DEF NoList
<1>2. ASSUME NEW p PROVE ShiftsOf(p) \in Items
  <2> DEFINE D == {s \in InPeriod(p) : shift[s] # "ABSENT"}
  <2>1. D \in SUBSET Shifts BY DEF InPeriod
  <2>2. \A s \in D : Participants(s) \in SUBSET Members BY DEF Participants
  <2>3. ShiftsOf(p) \in [D -> SUBSET Members] BY <2>2 DEF ShiftsOf
  <2> QED BY <2>1, <2>3, ItemsAre
<1>3. ASSUME NEW m \in Members PROVE OpenShiftsOf(m) \in Offers
  <2> DEFINE D == {s \in Open : shift[s] = "PUBLISHED" /\ m \notin Participants(s)}
  <2>1. D \in SUBSET Shifts BY ScheduleAssumption
  <2>2. \A s \in D : request[s][m] \in RequestStatuses BY <2>1 DEF TypeOK
  <2>3. OpenShiftsOf(m) \in [D -> RequestStatuses] BY <2>2 DEF OpenShiftsOf
  <2> QED BY <2>1, <2>3, OffersAre
<1> QED BY <1>1, <1>2, <1>3, ItemsAre, OffersAre

LEMMA TypeInit == Init => TypeOK
<1> SUFFICES ASSUME Init PROVE TypeOK OBVIOUS
<1> USE ScheduleAssumption
<1>1. shift \in [Shifts -> ShiftStatuses] BY DEF Init, ShiftStatuses
<1>2. row \in [Shifts -> [Members -> RowStatuses]] BY DEF Init, RowStatuses
<1>3. request \in [Shifts -> [Members -> RequestStatuses]] BY DEF Init, RequestStatuses
<1>4. ShiftsOf(Today) \in Items
  <2> DEFINE D == {s \in InPeriod(Today) : shift[s] # "ABSENT"}
  <2>1. D \in SUBSET Shifts BY DEF InPeriod
  <2>2. \A s \in D : Participants(s) \in SUBSET Members BY DEF Participants
  <2>3. ShiftsOf(Today) \in [D -> SUBSET Members] BY <2>2 DEF ShiftsOf
  <2> QED BY <2>1, <2>3, ItemsAre
<1>5. OpenShiftsOf(Asker) \in Offers
  <2> DEFINE D == {s \in Open : shift[s] = "PUBLISHED" /\ Asker \notin Participants(s)}
  <2>1. D \in SUBSET Shifts OBVIOUS
  <2>2. \A s \in D : request[s][Asker] \in RequestStatuses BY <1>3, <2>1
  <2>3. OpenShiftsOf(Asker) \in [D -> RequestStatuses] BY <2>2 DEF OpenShiftsOf
  <2> QED BY <2>1, <2>3, OffersAre
<1>6. manager \in ManagersPhone BY <1>4 DEF Init, ManagersPhone
<1> QED BY <1>1, <1>2, <1>3, <1>5, <1>6 DEF Init, TypeOK

\* A call changes its place only.
LEMMA CallAt ==
  ASSUME NEW c \in Call, NEW at \in {"sent", "checked", "stored", "refused"}
  PROVE  LET d == [c EXCEPT !.at = at] IN
         d \in Call /\ d.op = c.op /\ d.s = c.s /\ d.who = c.who /\ d.from = c.from /\ d.at = at
BY DEF Call

LEMMA SendType ==
  ASSUME TypeOK, NEW op \in Locking \cup {"create", "createPublished", "request"},
         NEW s \in Shifts, NEW who \in SUBSET Members,
         NEW from \in {"console", "phone", "employee"}, Send(op, s, who, from)
  PROVE  calls' \subseteq Call /\ sent' \in 0..MaxCalls
BY ScheduleAssumption DEF Send, TypeOK, Call

LEMMA AnswerType ==
  ASSUME TypeOK, NEW c \in calls, NEW at \in {"sent", "checked", "stored", "refused"},
         Becomes(c, at) \/ IsAnswered(c, at)
  PROVE  calls' \subseteq Call
<1>1. c \in Call BY DEF TypeOK
<1>2. [c EXCEPT !.at = at] \in Call BY <1>1, CallAt
<1> QED BY <1>2 DEF Becomes, IsAnswered, TypeOK

LEMMA TypeNext == TypeOK /\ [Next]_vars => TypeOK'
<1> SUFFICES ASSUME TypeOK, [Next]_vars PROVE TypeOK' OBVIOUS
<1> USE ScheduleAssumption
<1>1. CASE UNCHANGED vars BY <1>1 DEF vars, TypeOK
<1>2. CASE ConsoleStep
  <2>1. ASSUME NEW s \in Shifts, ConsoleChangesStatus(s) PROVE TypeOK'
    <3>1. calls' \subseteq Call /\ sent' \in 0..MaxCalls
      BY <2>1, SendType DEF ConsoleChangesStatus, Locking
    <3> QED BY <2>1, <3>1 DEF ConsoleChangesStatus, TypeOK
  <2>2. ASSUME NEW s \in Shifts, NEW m \in Members, ConsoleCreates(s, m) PROVE TypeOK'
    <3>1. calls' \subseteq Call /\ sent' \in 0..MaxCalls BY <2>2, SendType DEF ConsoleCreates
    <3> QED BY <2>2, <3>1 DEF ConsoleCreates, TypeOK
  <2>3. ASSUME NEW s \in Shifts, NEW m \in Members, ConsoleDecides(s, m) PROVE TypeOK'
    <3>1. calls' \subseteq Call /\ sent' \in 0..MaxCalls
      BY <2>3, SendType DEF ConsoleDecides, Locking
    <3> QED BY <2>3, <3>1 DEF ConsoleDecides, TypeOK
  <2> QED BY <1>2, <2>1, <2>2, <2>3 DEF ConsoleStep
<1>3. CASE ManagerStep
  <2>1. ASSUME NEW p \in Periods, MoveTo(p) PROVE TypeOK'
    <3>1. [ManagersLoad EXCEPT !.period = p] \in LoadOf("manager")
      BY ListsAreTyped DEF ManagersLoad, LoadOf
    <3>2. [ManagersLoad EXCEPT !.period = p].of = "manager" BY DEF ManagersLoad
    <3>3. manager' \in ManagersPhone BY <2>1 DEF MoveTo, Manager, TypeOK, ManagersPhone
    <3>4. \A l \in loads' : l.of \in {"manager", "employee"} /\ l \in LoadOf(l.of)
      BY <2>1, <3>1, <3>2 DEF MoveTo, TypeOK
    <3> QED BY <2>1, <3>3, <3>4 DEF MoveTo, TypeOK
  <2>2. ASSUME NEW s \in Shifts, OpenDetail(s) PROVE TypeOK'
    <3>1. manager.items[s] \in SUBSET Members
      BY <2>2, ItemsAre DEF OpenDetail, Visible, TypeOK, ManagersPhone
    <3>2. manager' \in ManagersPhone BY <2>2, <3>1 DEF OpenDetail, Manager, TypeOK, ManagersPhone
    <3> QED BY <2>2, <3>2 DEF OpenDetail, TypeOK
  <2>3. ASSUME NEW s \in Shifts, NEW who \in SUBSET Members, PhoneCreates(s, who) PROVE TypeOK'
    BY <2>3, SendType DEF PhoneCreates, TypeOK
  <2>4. CASE CloseDetail
    <3>1. manager' \in ManagersPhone BY <2>4 DEF CloseDetail, Manager, TypeOK, ManagersPhone
    <3> QED BY <2>4, <3>1 DEF CloseDetail, TypeOK
  <2>5. CASE SaveParticipants
    <3>1. manager' \in ManagersPhone BY <2>5 DEF SaveParticipants, Manager, TypeOK, ManagersPhone
    <3>2. manager.detail \in Shifts /\ manager.selected \in SUBSET Members
      BY <2>5 DEF SaveParticipants, TypeOK, ManagersPhone
    <3> QED BY <2>5, <3>1, <3>2, SendType DEF SaveParticipants, TypeOK, Locking
  <2>6. ASSUME NEW m \in Members, Toggle(m) PROVE TypeOK'
    <3>1. manager' \in ManagersPhone BY <2>6 DEF Toggle, Manager, TypeOK, ManagersPhone
    <3> QED BY <2>6, <3>1 DEF Toggle, TypeOK
  <2> QED BY <1>3, <2>1, <2>2, <2>3, <2>4, <2>5, <2>6 DEF ManagerStep
<1>4. CASE EmployeeStep
  <2>1. CASE EmployeePulls
    <3>1. EmployeesLoad \in LoadOf("employee") /\ EmployeesLoad.of = "employee"
      BY ListsAreTyped DEF EmployeesLoad, LoadOf
    <3> QED BY <2>1, <3>1 DEF EmployeePulls, TypeOK
  <2>2. ASSUME NEW s \in Shifts, RequestShift(s) PROVE TypeOK'
    <3>1. calls' \subseteq Call /\ sent' \in 0..MaxCalls BY <2>2, SendType DEF RequestShift
    <3>2. employee' \in [offers : Offers, asking : Shifts \cup {None}]
      BY <2>2 DEF RequestShift, TypeOK
    <3> QED BY <2>2, <3>1, <3>2 DEF RequestShift, TypeOK
  <2> QED BY <1>4, <2>1, <2>2 DEF EmployeeStep
<1>5. ASSUME NEW c \in calls, Check(c) PROVE TypeOK'
  <2>1. calls' \subseteq Call BY <1>5, AnswerType DEF Check
  <2> QED BY <1>5, <2>1 DEF Check, TypeOK
<1>6. ASSUME NEW c \in calls, Commit(c) PROVE TypeOK'
  <2>1. calls' \subseteq Call BY <1>6, AnswerType DEF Commit
  <2>2. c \in Call BY DEF TypeOK
  <2>3. c.s \in Shifts BY <2>2 DEF Call
  <2>4. StatusAfter(c) \in ShiftStatuses BY <2>3 DEF StatusAfter, TypeOK, ShiftStatuses
  <2>5. RowsAfter(c) \in [Members -> RowStatuses] BY <2>3 DEF RowsAfter, TypeOK, RowStatuses
  <2>6. RequestAfter(c) \in [Members -> RequestStatuses]
    BY <2>3 DEF RequestAfter, TypeOK, RequestStatuses
  <2>7. \A d \in Running : d.s \in Shifts BY DEF Running, TypeOK, Call
  <2>8. raced' \subseteq SUBSET Shifts BY <1>6, <2>3, <2>7 DEF Commit, TypeOK
  <2> QED BY <1>6, <2>1, <2>4, <2>5, <2>6, <2>8 DEF Commit, TypeOK
<1>7. ASSUME NEW c \in calls, CommitRefused(c) PROVE TypeOK'
  <2>1. calls' \subseteq Call BY <1>7, AnswerType DEF CommitRefused
  <2> QED BY <1>7, <2>1 DEF CommitRefused, TypeOK
<1>8. ASSUME NEW c \in calls, CallLost(c) PROVE TypeOK'
  <2>1. manager' \in ManagersPhone BY <1>8 DEF CallLost, TypeOK, ManagersPhone
  <2>2. employee' \in [offers : Offers, asking : Shifts \cup {None}] BY <1>8 DEF CallLost, TypeOK
  <2> QED BY <1>8, <2>1, <2>2 DEF CallLost, TypeOK
<1>9. ASSUME NEW c \in calls, ManagerHears(c) PROVE TypeOK'
  <2>1. c \in Call BY DEF TypeOK
  <2>2. [s \in DOMAIN manager.items |-> IF s = c.s THEN c.who ELSE manager.items[s]] \in Items
    <3>1. /\ DOMAIN manager.items \in SUBSET Shifts
          /\ manager.items \in [DOMAIN manager.items -> SUBSET Members]
      BY ItemsAre DEF TypeOK, ManagersPhone
    <3>2. [s \in DOMAIN manager.items |-> IF s = c.s THEN c.who ELSE manager.items[s]]
            \in [DOMAIN manager.items -> SUBSET Members]
      BY <2>1, <3>1 DEF Call
    <3> QED BY <3>1, <3>2, ItemsAre
  <2>3. manager' \in ManagersPhone
    BY <1>9, <2>1, <2>2 DEF ManagerHears, Manager, DetailAfterSave, TypeOK, ManagersPhone, Call
  <2> QED BY <1>9, <2>3 DEF ManagerHears, TypeOK
<1>10. ASSUME NEW c \in calls, PhoneHearsCreated(c) PROVE TypeOK'
  <2>1. ManagersLoad \in LoadOf("manager") /\ ManagersLoad.of = "manager"
    BY ListsAreTyped DEF ManagersLoad, LoadOf, TypeOK, ManagersPhone
  <2> QED BY <1>10, <2>1 DEF PhoneHearsCreated, TypeOK
<1>11. ASSUME NEW c \in calls, EmployeeHears(c) PROVE TypeOK'
  <2>1. MarkedRequested(c) \in Offers
    <3>1. /\ DOMAIN employee.offers \in SUBSET Shifts
          /\ employee.offers \in [DOMAIN employee.offers -> RequestStatuses]
      BY OffersAre DEF TypeOK
    <3>2. MarkedRequested(c) \in [DOMAIN employee.offers -> RequestStatuses]
      BY <3>1 DEF MarkedRequested, RequestStatuses
    <3> QED BY <3>1, <3>2, OffersAre
  <2>2. employee' \in [offers : Offers, asking : Shifts \cup {None}]
    BY <1>11, <2>1 DEF EmployeeHears, TypeOK
  <2> QED BY <1>11, <2>2 DEF EmployeeHears, TypeOK
<1>12. ASSUME NEW l \in loads, ServerReads(l) PROVE TypeOK'
  <2>1. l.of \in {"manager", "employee"} /\ l \in LoadOf(l.of) BY DEF TypeOK
  <2>2. AnswerOf(l) \in IF l.of = "manager" THEN Items ELSE Offers
    BY <2>1, ListsAreTyped DEF AnswerOf, LoadOf
  <2>3. [l EXCEPT !.at = "answered", !.list = AnswerOf(l)] \in LoadOf(l.of)
    BY <2>1, <2>2 DEF LoadOf
  <2>4. [l EXCEPT !.at = "answered", !.list = AnswerOf(l)].of = l.of BY <2>1 DEF LoadOf
  <2> QED BY <1>12, <2>1, <2>3, <2>4 DEF ServerReads, TypeOK
<1>13. ASSUME NEW l \in loads, PhoneShows(l) PROVE TypeOK'
  <2>1. l.of \in {"manager", "employee"} /\ l \in LoadOf(l.of) BY DEF TypeOK
  <2>2. l.list \in IF l.of = "manager" THEN Items ELSE Offers BY <2>1 DEF LoadOf
  <2>3. manager' \in ManagersPhone
    <3>1. l.of = "manager" => [manager EXCEPT !.items = l.list] \in ManagersPhone
      BY <2>2 DEF TypeOK, ManagersPhone
    <3>2. manager \in ManagersPhone BY DEF TypeOK
    <3> QED BY <1>13, <3>1, <3>2 DEF PhoneShows, Manager
  <2>4. employee' \in [offers : Offers, asking : Shifts \cup {None}]
    <3>1. l.of # "manager" => [employee EXCEPT !.offers = l.list]
                                \in [offers : Offers, asking : Shifts \cup {None}]
      BY <2>2 DEF TypeOK
    <3> QED BY <1>13, <3>1 DEF PhoneShows, TypeOK
  <2> QED BY <1>13, <2>3, <2>4 DEF PhoneShows, TypeOK
<1>14. ASSUME NEW l \in loads, LoadFails(l) PROVE TypeOK'
  BY <1>14 DEF LoadFails, TypeOK
<1> QED
  BY <1>1, <1>2, <1>3, <1>4, <1>5, <1>6, <1>7, <1>8, <1>9, <1>10, <1>11, <1>12, <1>13, <1>14
  DEF Next

-----------------------------------------------------------------------------
(* Order among the calls.                                                  *)

LEMMA OrderlyInit == Init => Orderly
<1> SUFFICES ASSUME Init PROVE Orderly OBVIOUS
<1> USE ScheduleAssumption
<1>1. \A s \in Shifts : s \in Existing <=> s \in Published \cup Drafted BY DEF Init, Existing
<1>2. \A s \in Shifts \ Existing : \A m \in Members : row[s][m] = "NONE" /\ request[s][m] = "NONE"
  BY <1>1 DEF Init
<1>3. DOMAIN manager.items \subseteq Existing
  BY DEF Init, ShiftsOf, InPeriod, Existing
<1>4. DOMAIN employee.offers \subseteq Existing
  BY DEF Init, OpenShiftsOf, Existing
<1>5. manager.detail = None /\ loads = {} /\ calls = {} BY DEF Init
<1> QED
  BY <1>2, <1>3, <1>4, <1>5
  DEF Orderly, NothingOfTheAbsent, CreatedOnce, HeldByOne, Running, StatusNamesNobody

\* A step that leaves the rows alone, shows shifts that exist and sends what may be sent.
RowsStand == UNCHANGED <<shift, row, request, raced>>
ShowsExisting ==
    /\ DOMAIN manager'.items \subseteq Existing
    /\ manager'.detail # None => manager'.detail \in Existing
    /\ DOMAIN employee'.offers \subseteq Existing
    /\ \A l \in loads' : DOMAIN l.list \subseteq Existing
MaySend(c) ==
    /\ c.at = "sent"
    /\ c.op \notin Creation => c.s \in Existing
    /\ c.op \in Creation => c.s \notin Existing /\ \A d \in calls : d.s # c.s
    /\ c.op \in {"publish", "unpublish"} => c.who = {}
SendsOne == calls' \subseteq calls \/ \E c : MaySend(c) /\ calls' = calls \cup {c}

LEMMA QuietStep ==
  ASSUME IInv, RowsStand, ShowsExisting, SendsOne
  PROVE  Orderly' /\ Booked'
<1>1. Existing' = Existing BY DEF RowsStand, Existing
<1>2. \A c \in calls' : c \in calls \/ MaySend(c) BY DEF SendsOne
<1>3. Running' \subseteq Running BY <1>2 DEF Running, MaySend
<1>4. NothingOfTheAbsent'
  BY <1>1, <1>2 DEF IInv, Orderly, NothingOfTheAbsent, RowsStand, ShowsExisting, MaySend
<1>5. CreatedOnce'
  <2> SUFFICES ASSUME NEW c \in calls', c.op \in Creation, c.at \in {"sent", "checked"}
               PROVE  c.s \notin Existing /\ \A d \in calls' : d.s = c.s => d = c
    BY <1>1 DEF CreatedOnce
  <2>1. CASE c \in calls
    <3>1. c.s \notin Existing /\ \A d \in calls : d.s = c.s => d = c
      BY <2>1 DEF IInv, Orderly, CreatedOnce
    <3> QED BY <1>2, <2>1, <3>1 DEF MaySend
  <2>2. CASE c \notin calls BY <2>2 DEF SendsOne, MaySend
  <2> QED BY <2>1, <2>2
<1>6. HeldByOne' BY <1>3 DEF IInv, Orderly, HeldByOne
<1>7. StatusNamesNobody' BY <1>2 DEF IInv, Orderly, StatusNamesNobody, MaySend
<1>8. CountsHold'
  BY <1>3 DEF IInv, Booked, CountsHold, RowsStand, Places, Busy, Participants
<1>9. DoubleBookingNeedsARace'
  BY DEF IInv, Booked, DoubleBookingNeedsARace, DoublyBooked, RowsStand, Participants
<1> QED BY <1>4, <1>5, <1>6, <1>7, <1>8, <1>9 DEF Orderly, Booked

\* A call that is sent.
LEMMA SentIsOne ==
  ASSUME NEW op, NEW s, NEW who, NEW from, Send(op, s, who, from),
         op \notin Creation => s \in Existing,
         op \in Creation => s \notin Existing /\ \A d \in calls : d.s # s,
         op \in {"publish", "unpublish"} => who = {}
  PROVE  SendsOne
<1> DEFINE c == [op |-> op, s |-> s, who |-> who, from |-> from, at |-> "sent"]
<1>1. calls' = calls \cup {c} BY DEF Send
<1>2. MaySend(c) BY DEF MaySend
<1> QED BY <1>1, <1>2 DEF SendsOne

LEMMA NotSentIsAbsent ==
  ASSUME NEW s \in Shifts, NotSentYet(s)
  PROVE  s \notin Existing /\ \A d \in calls : d.s # s
BY DEF NotSentYet, Existing

LEMMA ListsAreOfExisting ==
  ASSUME TypeOK
  PROVE  /\ DOMAIN NoList = {}
         /\ \A p : DOMAIN ShiftsOf(p) \subseteq Existing
         /\ \A m : DOMAIN OpenShiftsOf(m) \subseteq Existing
BY ScheduleAssumption DEF NoList, ShiftsOf, OpenShiftsOf, InPeriod, Existing

\* The steps of the screens and of the network.
LEMMA ScreensNext ==
  ASSUME IInv,
         \/ ConsoleStep \/ ManagerStep \/ EmployeeStep
         \/ \E c \in calls : CallLost(c) \/ ManagerHears(c) \/ PhoneHearsCreated(c) \/ EmployeeHears(c)
         \/ \E l \in loads : ServerReads(l) \/ PhoneShows(l) \/ LoadFails(l)
  PROVE  RowsStand /\ ShowsExisting /\ SendsOne
<1> USE ScheduleAssumption
<1>0. TypeOK /\ NothingOfTheAbsent BY DEF IInv, Orderly
<1>1. ASSUME UNCHANGED <<manager, employee, loads>> PROVE ShowsExisting
  BY <1>0, <1>1 DEF ShowsExisting, NothingOfTheAbsent
<1>2. ASSUME UNCHANGED calls PROVE SendsOne BY <1>2 DEF SendsOne
<1>3. manager \in ManagersPhone /\ employee \in [offers : Offers, asking : Shifts \cup {None}]
  BY <1>0 DEF TypeOK
<1> DEFINE Fine == RowsStand /\ ShowsExisting /\ SendsOne
<1>4. CASE ConsoleStep
  <2>1. ASSUME NEW s \in Shifts, ConsoleChangesStatus(s) PROVE Fine
    <3>1. s \in Existing BY <2>1 DEF ConsoleChangesStatus, Existing
    <3> QED BY <1>1, <2>1, <3>1, SentIsOne DEF ConsoleChangesStatus, Creation, RowsStand
  <2>2. ASSUME NEW s \in Shifts, NEW m \in Members, ConsoleCreates(s, m) PROVE Fine
    <3>1. s \notin Existing /\ \A d \in calls : d.s # s
      BY <2>2, NotSentIsAbsent DEF ConsoleCreates
    <3> QED BY <1>1, <2>2, <3>1, SentIsOne DEF ConsoleCreates, Creation, RowsStand
  <2>3. ASSUME NEW s \in Shifts, NEW m \in Members, ConsoleDecides(s, m) PROVE Fine
    <3>1. s \in Existing BY <1>0, <2>3 DEF ConsoleDecides, NothingOfTheAbsent
    <3> QED BY <1>1, <2>3, <3>1, SentIsOne DEF ConsoleDecides, Creation, RowsStand
  <2> QED BY <1>4, <2>1, <2>2, <2>3 DEF ConsoleStep
<1>5. CASE ManagerStep
  <2>1. ASSUME NEW p \in Periods, MoveTo(p) PROVE Fine
    <3>1. [ManagersLoad EXCEPT !.period = p].list = NoList BY DEF ManagersLoad
    <3>2. manager'.items = manager.items /\ manager'.detail = manager.detail
      BY <1>3, <2>1 DEF MoveTo, Manager, ManagersPhone
    <3>3. ShowsExisting
      BY <1>0, <2>1, <3>1, <3>2, ListsAreOfExisting DEF MoveTo, ShowsExisting, NothingOfTheAbsent
    <3> QED BY <1>2, <2>1, <3>3 DEF MoveTo, RowsStand
  <2>2. ASSUME NEW s \in Shifts, OpenDetail(s) PROVE Fine
    <3>1. manager'.items = manager.items /\ manager'.detail = s /\ s \in DOMAIN manager.items
      BY <1>3, <2>2 DEF OpenDetail, Manager, Visible, ManagersPhone
    <3>2. ShowsExisting BY <1>0, <2>2, <3>1 DEF OpenDetail, ShowsExisting, NothingOfTheAbsent
    <3> QED BY <1>2, <2>2, <3>2 DEF OpenDetail, RowsStand
  <2>3. ASSUME NEW s \in Shifts, NEW who \in SUBSET Members, PhoneCreates(s, who) PROVE Fine
    <3>1. s \notin Existing /\ \A d \in calls : d.s # s
      BY <2>3, NotSentIsAbsent DEF PhoneCreates
    <3> QED BY <1>1, <2>3, <3>1, SentIsOne DEF PhoneCreates, Creation, RowsStand
  <2>4. CASE CloseDetail
    <3>1. manager'.items = manager.items /\ manager'.detail = None
      BY <1>3, <2>4 DEF CloseDetail, Manager, ManagersPhone
    <3>2. ShowsExisting BY <1>0, <2>4, <3>1 DEF CloseDetail, ShowsExisting, NothingOfTheAbsent
    <3> QED BY <1>2, <2>4, <3>2 DEF CloseDetail, RowsStand
  <2>5. CASE SaveParticipants
    <3>1. manager'.items = manager.items /\ manager'.detail = manager.detail
      BY <1>3, <2>5 DEF SaveParticipants, Manager, ManagersPhone
    <3>2. ShowsExisting BY <1>0, <2>5, <3>1 DEF SaveParticipants, ShowsExisting, NothingOfTheAbsent
    <3>3. SendsOne
      BY <1>0, <2>5, SentIsOne DEF SaveParticipants, NothingOfTheAbsent, Creation
    <3> QED BY <2>5, <3>2, <3>3 DEF SaveParticipants, RowsStand
  <2>6. ASSUME NEW m \in Members, Toggle(m) PROVE Fine
    <3>1. manager'.items = manager.items /\ manager'.detail = manager.detail
      BY <1>3, <2>6 DEF Toggle, Manager, ManagersPhone
    <3>2. ShowsExisting BY <1>0, <2>6, <3>1 DEF Toggle, ShowsExisting, NothingOfTheAbsent
    <3> QED BY <1>2, <2>6, <3>2 DEF Toggle, RowsStand
  <2> QED BY <1>5, <2>1, <2>2, <2>3, <2>4, <2>5, <2>6 DEF ManagerStep
<1>6. CASE EmployeeStep
  <2>1. CASE EmployeePulls
    <3>1. EmployeesLoad.list = NoList BY DEF EmployeesLoad
    <3>2. ShowsExisting
      BY <1>0, <2>1, <3>1, ListsAreOfExisting DEF EmployeePulls, ShowsExisting, NothingOfTheAbsent
    <3> QED BY <1>2, <2>1, <3>2 DEF EmployeePulls, RowsStand
  <2>2. ASSUME NEW s \in Shifts, RequestShift(s) PROVE Fine
    <3>1. s \in Existing BY <1>0, <2>2 DEF RequestShift, NothingOfTheAbsent
    <3>2. SendsOne BY <2>2, <3>1, SentIsOne DEF RequestShift, Creation
    <3>3. employee'.offers = employee.offers BY <1>3, <2>2 DEF RequestShift
    <3>4. ShowsExisting BY <1>0, <2>2, <3>3 DEF RequestShift, ShowsExisting, NothingOfTheAbsent
    <3> QED BY <2>2, <3>2, <3>4 DEF RequestShift, RowsStand
  <2> QED BY <1>6, <2>1, <2>2 DEF EmployeeStep
<1>7. ASSUME NEW c \in calls, CallLost(c) PROVE Fine
  <2>1. manager'.items = manager.items /\ manager'.detail = manager.detail
    BY <1>3, <1>7 DEF CallLost, ManagersPhone
  <2>2. employee'.offers = employee.offers BY <1>3, <1>7 DEF CallLost
  <2>3. ShowsExisting BY <1>0, <1>7, <2>1, <2>2 DEF CallLost, ShowsExisting, NothingOfTheAbsent
  <2> QED BY <1>7, <2>3 DEF CallLost, SendsOne, RowsStand
<1>8. ASSUME NEW c \in calls, ManagerHears(c) PROVE Fine
  <2>1. c.s \in Existing BY <1>0, <1>8 DEF ManagerHears, NothingOfTheAbsent, Creation
  <2>2. DOMAIN manager'.items = DOMAIN manager.items /\ manager'.detail \in {c.s, manager.detail}
    BY <1>3, <1>8 DEF ManagerHears, Manager, DetailAfterSave, ManagersPhone
  <2>3. ShowsExisting BY <1>0, <1>8, <2>1, <2>2 DEF ManagerHears, ShowsExisting, NothingOfTheAbsent
  <2> QED BY <1>8, <2>3 DEF ManagerHears, SendsOne, RowsStand
<1>9. ASSUME NEW c \in calls, PhoneHearsCreated(c) PROVE Fine
  <2>1. ManagersLoad.list = NoList BY DEF ManagersLoad
  <2>2. ShowsExisting
    BY <1>0, <1>9, <2>1, ListsAreOfExisting
    DEF PhoneHearsCreated, ShowsExisting, NothingOfTheAbsent
  <2> QED BY <1>9, <2>2 DEF PhoneHearsCreated, SendsOne, RowsStand
<1>10. ASSUME NEW c \in calls, EmployeeHears(c) PROVE Fine
  <2>1. DOMAIN employee'.offers = DOMAIN employee.offers
    BY <1>3, <1>10 DEF EmployeeHears, MarkedRequested
  <2>2. ShowsExisting BY <1>0, <1>10, <2>1 DEF EmployeeHears, ShowsExisting, NothingOfTheAbsent
  <2> QED BY <1>10, <2>2 DEF EmployeeHears, SendsOne, RowsStand
<1>11. ASSUME NEW l \in loads, ServerReads(l) PROVE Fine
  <2>1. l \in LoadOf(l.of) BY <1>0 DEF TypeOK
  <2>2. [l EXCEPT !.at = "answered", !.list = AnswerOf(l)].list = AnswerOf(l)
    BY <2>1 DEF LoadOf
  <2>3. DOMAIN AnswerOf(l) \subseteq Existing BY <1>0, ListsAreOfExisting DEF AnswerOf
  <2>4. ShowsExisting
    BY <1>0, <1>11, <2>2, <2>3 DEF ServerReads, ShowsExisting, NothingOfTheAbsent
  <2> QED BY <1>2, <1>11, <2>4 DEF ServerReads, RowsStand
<1>12. ASSUME NEW l \in loads, PhoneShows(l) PROVE Fine
  <2>1. DOMAIN l.list \subseteq Existing BY <1>0 DEF NothingOfTheAbsent
  <2>2. /\ manager'.items \in {manager.items, l.list} /\ manager'.detail = manager.detail
        /\ employee'.offers \in {employee.offers, l.list}
    BY <1>3, <1>12 DEF PhoneShows, Manager, ManagersPhone
  <2>3. ShowsExisting BY <1>0, <1>12, <2>1, <2>2 DEF PhoneShows, ShowsExisting, NothingOfTheAbsent
  <2> QED BY <1>2, <1>12, <2>3 DEF PhoneShows, RowsStand
<1>13. ASSUME NEW l \in loads, LoadFails(l) PROVE Fine
  <2>1. ShowsExisting BY <1>0, <1>13 DEF LoadFails, ShowsExisting, NothingOfTheAbsent
  <2> QED BY <1>2, <1>13, <2>1 DEF LoadFails, RowsStand
<1> QED
  BY <1>4, <1>5, <1>6, <1>7, <1>8, <1>9, <1>10, <1>11, <1>12, <1>13

-----------------------------------------------------------------------------
(* The transactions.                                                       *)

\* What a call that is answered becomes.
Leaves(c, at) ==
    calls' = calls \ {c} \/ calls' = (calls \ {c}) \cup {[c EXCEPT !.at = at]}

LEMMA AnswersLeave ==
  ASSUME NEW c, NEW at, Becomes(c, at) \/ IsAnswered(c, at)
  PROVE  Leaves(c, at)
BY DEF Becomes, IsAnswered, Leaves

\* No call is new: each of them was there, or is c in its new place.
LEMMA LeftCalls ==
  ASSUME TypeOK, NEW c \in calls, NEW at \in {"checked", "stored", "refused"}, Leaves(c, at)
  PROVE  /\ \A d \in calls' : d \in calls \ {c} \/ d = [c EXCEPT !.at = at]
         /\ LET d == [c EXCEPT !.at = at] IN
            d.op = c.op /\ d.s = c.s /\ d.who = c.who /\ d.at = at
<1>1. c \in Call BY DEF TypeOK
<1> QED BY <1>1, CallAt DEF Leaves

LEMMA CheckNext ==
  ASSUME IInv, NEW c \in calls, Check(c)
  PROVE  Orderly' /\ Booked'
<1> DEFINE at == IF Admits(c) THEN "checked" ELSE "refused"
           new == [c EXCEPT !.at = at]
<1>0. TypeOK /\ Orderly /\ Booked BY DEF IInv
<1>1. at \in {"checked", "stored", "refused"} OBVIOUS
<1>2. Leaves(c, at) BY AnswersLeave DEF Check
<1> HIDE DEF at
<1>3. \A d \in calls' : d \in calls \ {c} \/ d = new BY <1>0, <1>1, <1>2, LeftCalls
<1>4. new.op = c.op /\ new.s = c.s /\ new.who = c.who /\ new.at = at
  BY <1>0, <1>1, <1>2, LeftCalls
<1> HIDE DEF new
<1>5. UNCHANGED <<shift, row, request, raced, manager, employee, loads>> BY DEF Check
<1>6. Existing' = Existing BY <1>5 DEF Existing
<1>7. c.at = "sent" BY DEF Check
<1>8. NothingOfTheAbsent' BY <1>0, <1>3, <1>4, <1>5, <1>6 DEF Orderly, NothingOfTheAbsent
<1>9. CreatedOnce'
  <2> SUFFICES ASSUME NEW d \in calls', d.op \in Creation, d.at \in {"sent", "checked"}
               PROVE  d.s \notin Existing /\ \A e \in calls' : e.s = d.s => e = d
    BY <1>6 DEF CreatedOnce
  <2>1. CASE d = new
    <3>1. c.s \notin Existing /\ \A e \in calls : e.s = c.s => e = c
      BY <1>0, <1>4, <1>7, <2>1 DEF Orderly, CreatedOnce
    <3> QED BY <1>3, <1>4, <2>1, <3>1
  <2>2. CASE d \in calls \ {c}
    <3>1. d.s \notin Existing /\ \A e \in calls : e.s = d.s => e = d
      BY <1>0, <2>2 DEF Orderly, CreatedOnce
    <3> QED BY <1>3, <1>4, <2>2, <3>1
  <2> QED BY <1>3, <2>1, <2>2
<1>10. \A d \in Running' : d \in Running \ {c} \/ (d = new /\ Admits(c))
  BY <1>3, <1>4 DEF Running, at
<1>11. HeldByOne'
  <2> SUFFICES ASSUME NEW d \in Running', NEW e \in Running',
                      d.op \in Locking, e.op \in Locking, d.s = e.s
               PROVE  d = e
    BY DEF HeldByOne
  <2>1. c.op \in Locking => \A f \in Running : f # c => f.s # c.s \/ f.op \notin Locking
    BY DEF Check, LockIsFree
  <2>2. \A f, g \in Running : f.op \in Locking /\ g.op \in Locking /\ f.s = g.s => f = g
    BY <1>0 DEF Orderly, HeldByOne
  <2> QED BY <1>4, <1>10, <2>1, <2>2
<1>12. StatusNamesNobody' BY <1>0, <1>3, <1>4 DEF Orderly, StatusNamesNobody
<1>13. CountsHold'
  <2> SUFFICES ASSUME NEW d \in Running', NEW m \in Members, NEW o \in Shifts,
                      Places(d, m), o # d.s, Overlap(o, d.s), Busy(m, o)
               PROVE  {d.s, o} \in raced
    BY <1>5 DEF CountsHold, Places, Busy, Participants
  <2>1. CASE d \in Running BY <1>0, <2>1 DEF Booked, CountsHold
  <2>2. CASE d = new /\ Admits(c)
    <3>1. Places(c, m) /\ o # c.s /\ Overlap(o, c.s) BY <1>4, <2>2 DEF Places
    <3>2. Conflict(m, c.s, Shifts) /\ Conflict(m, c.s, Shifts \ {c.s})
      BY <3>1 DEF Busy, Conflict
    <3>3. ~Admits(c)
      BY <3>1, <3>2 DEF Places, Placing, Admits
    <3> QED BY <2>2, <3>3
  <2> QED BY <1>10, <2>1, <2>2
<1>14. DoubleBookingNeedsARace'
  BY <1>0, <1>5 DEF Booked, DoubleBookingNeedsARace, DoublyBooked, Participants
<1> QED BY <1>8, <1>9, <1>11, <1>12, <1>13, <1>14 DEF Orderly, Booked

LEMMA RefusedNext ==
  ASSUME IInv, NEW c \in calls, CommitRefused(c)
  PROVE  Orderly' /\ Booked'
<1> DEFINE new == [c EXCEPT !.at = "refused"]
<1>0. TypeOK /\ Orderly /\ Booked BY DEF IInv
<1>1. Leaves(c, "refused") BY AnswersLeave DEF CommitRefused
<1>2. \A d \in calls' : d \in calls \ {c} \/ d = new BY <1>0, <1>1, LeftCalls
<1>3. new.op = c.op /\ new.s = c.s /\ new.who = c.who /\ new.at = "refused"
  BY <1>0, <1>1, LeftCalls
<1> HIDE DEF new
<1>4. UNCHANGED <<shift, row, request, raced, manager, employee, loads>> BY DEF CommitRefused
<1>5. Existing' = Existing BY <1>4 DEF Existing
<1>6. NothingOfTheAbsent' BY <1>0, <1>2, <1>3, <1>4, <1>5 DEF Orderly, NothingOfTheAbsent
<1>7. CreatedOnce'
  <2> SUFFICES ASSUME NEW d \in calls', d.op \in Creation, d.at \in {"sent", "checked"}
               PROVE  d.s \notin Existing /\ \A e \in calls' : e.s = d.s => e = d
    BY <1>5 DEF CreatedOnce
  <2>1. d \in calls \ {c} BY <1>2, <1>3
  <2>2. d.s \notin Existing /\ \A e \in calls : e.s = d.s => e = d
    BY <1>0, <2>1 DEF Orderly, CreatedOnce
  <2> QED BY <1>2, <1>3, <2>1, <2>2
<1>8. Running' \subseteq Running BY <1>2, <1>3 DEF Running
<1>9. HeldByOne' BY <1>0, <1>8 DEF Orderly, HeldByOne
<1>10. StatusNamesNobody' BY <1>0, <1>2, <1>3 DEF Orderly, StatusNamesNobody
<1>11. CountsHold'
  BY <1>0, <1>4, <1>8 DEF Booked, CountsHold, Places, Busy, Participants
<1>12. DoubleBookingNeedsARace'
  BY <1>0, <1>4 DEF Booked, DoubleBookingNeedsARace, DoublyBooked, Participants
<1> QED BY <1>6, <1>7, <1>9, <1>10, <1>11, <1>12 DEF Orderly, Booked

\* Who is on a shift after a commit was on it before, or is placed by the call.
LEMMA RowsAfterCommit ==
  ASSUME IInv, NEW c \in calls, Commit(c)
  PROVE  /\ c.s \in Shifts /\ c.s \in Existing'
         /\ \A s \in Shifts \ {c.s} : shift'[s] = shift[s] /\ row'[s] = row[s] /\ request'[s] = request[s]
         /\ shift'[c.s] = StatusAfter(c)
         /\ \A m \in Members : row'[c.s][m] = RowsAfter(c)[m]
<1>1. TypeOK /\ c \in Call /\ c.s \in Shifts BY DEF IInv, TypeOK, Call
<1>2. shift'[c.s] = StatusAfter(c) /\ row'[c.s] = RowsAfter(c) BY <1>1 DEF Commit, TypeOK
<1>3. c.op \notin Creation => c.s \in Existing BY DEF IInv, Orderly, NothingOfTheAbsent
<1>4. StatusAfter(c) # "ABSENT" BY <1>3 DEF StatusAfter, Creation, Existing
<1>5. c.s \in Existing' BY <1>1, <1>2, <1>4 DEF Existing
<1> QED BY <1>1, <1>2, <1>5 DEF Commit, TypeOK

LEMMA CommitOrderly ==
  ASSUME IInv, NEW c \in calls, Commit(c)
  PROVE  Orderly'
<1> DEFINE new == [c EXCEPT !.at = "stored"]
<1>0. TypeOK /\ Orderly BY DEF IInv
<1>1. Leaves(c, "stored") BY AnswersLeave DEF Commit
<1>2. \A d \in calls' : d \in calls \ {c} \/ d = new BY <1>0, <1>1, LeftCalls
<1>3. new.op = c.op /\ new.s = c.s /\ new.who = c.who /\ new.at = "stored"
  BY <1>0, <1>1, LeftCalls
<1> HIDE DEF new
<1>4. UNCHANGED <<manager, employee, loads>> BY DEF Commit
<1>5. Existing' = Existing \cup {c.s} BY RowsAfterCommit DEF Existing
<1>6. NothingOfTheAbsent'
  <2>1. \A s \in Shifts \ Existing' : \A m \in Members :
          row'[s][m] = "NONE" /\ request'[s][m] = "NONE"
    BY <1>0, <1>5, RowsAfterCommit DEF Orderly, NothingOfTheAbsent
  <2>2. \A d \in calls' : d.op \notin Creation => d.s \in Existing'
    BY <1>0, <1>2, <1>3, <1>5 DEF Orderly, NothingOfTheAbsent
  <2> QED BY <1>0, <1>4, <1>5, <2>1, <2>2 DEF Orderly, NothingOfTheAbsent
<1>7. CreatedOnce'
  <2> SUFFICES ASSUME NEW d \in calls', d.op \in Creation, d.at \in {"sent", "checked"}
               PROVE  d.s \notin Existing' /\ \A e \in calls' : e.s = d.s => e = d
    BY DEF CreatedOnce
  <2>1. d \in calls \ {c} BY <1>2, <1>3
  <2>2. d.s \notin Existing /\ \A e \in calls : e.s = d.s => e = d
    BY <1>0, <2>1 DEF Orderly, CreatedOnce
  <2> QED BY <1>2, <1>3, <1>5, <2>1, <2>2
<1>8. Running' \subseteq Running BY <1>2, <1>3 DEF Running
<1>9. HeldByOne' BY <1>0, <1>8 DEF Orderly, HeldByOne
<1>10. StatusNamesNobody' BY <1>0, <1>2, <1>3 DEF Orderly, StatusNamesNobody
<1> QED BY <1>6, <1>7, <1>9, <1>10 DEF Orderly

\* Whoever is busy with c's shift after the commit was busy with it before, or was placed.
LEMMA BusyAfterCommit ==
  ASSUME IInv, NEW c \in calls, Commit(c), NEW m \in Members, NEW o \in Shifts, Busy(m, o)'
  PROVE  Busy(m, o) \/ (o = c.s /\ Places(c, m))
<1>1. CASE o # c.s BY <1>1, RowsAfterCommit DEF Busy, Participants
<1>2. CASE o = c.s
  <2>1. StatusAfter(c) = "PUBLISHED" /\ RowsAfter(c)[m] = "ASSIGNED" /\ c.s \notin Events
    BY <1>2, RowsAfterCommit DEF Busy, Participants
  <2>2. c \in Call BY DEF IInv, TypeOK
  <2>3. c.op \in {"createPublished", "publish", "participants", "approve", "reject", "request"}
    BY <2>1, <2>2 DEF StatusAfter, Call, Locking
  <2>4. c.op \notin {"createPublished", "publish"} => shift[c.s] = "PUBLISHED"
    BY <2>1, <2>3 DEF StatusAfter
  <2>5. CASE c.op \in {"reject", "request"}
    <3>1. row[c.s][m] = "ASSIGNED" BY <2>1, <2>5 DEF RowsAfter
    <3> QED BY <1>2, <2>1, <2>4, <2>5, <3>1 DEF Busy, Participants
  <2>6. CASE c.op = "publish"
    <3>1. c.who = {} BY <2>6 DEF IInv, Orderly, StatusNamesNobody
    <3>2. row[c.s][m] = "ASSIGNED" BY <2>1, <2>6, <3>1 DEF RowsAfter
    <3> QED BY <1>2, <2>1, <2>6, <3>2 DEF Places, Placing, Participants
  <2>7. CASE c.op = "createPublished"
    <3>1. c.s \notin Existing /\ c.s \in Shifts
      BY <2>2, <2>7 DEF IInv, Orderly, CreatedOnce, Commit, Creation, Call
    <3>2. row[c.s][m] = "NONE" BY <3>1 DEF IInv, Orderly, NothingOfTheAbsent
    <3>3. m \in c.who BY <2>1, <2>7, <3>2 DEF RowsAfter
    <3> QED BY <1>2, <2>1, <2>7, <3>3 DEF Places, Placing
  <2>8. CASE c.op = "participants"
    <3>1. m \in c.who BY <2>1, <2>8 DEF RowsAfter
    <3> QED BY <1>2, <2>1, <2>4, <2>8, <3>1 DEF Places, Placing
  <2>9. CASE c.op = "approve"
    <3>1. m \in c.who \/ row[c.s][m] = "ASSIGNED" BY <2>1, <2>9 DEF RowsAfter
    <3> QED BY <1>2, <2>1, <2>4, <2>9, <3>1 DEF Places, Placing, Busy, Participants
  <2> QED BY <2>3, <2>5, <2>6, <2>7, <2>8, <2>9
<1> QED BY <1>1, <1>2

LEMMA CommitBooked ==
  ASSUME IInv, NEW c \in calls, Commit(c)
  PROVE  Booked'
<1>0. TypeOK /\ Orderly /\ CountsHold /\ DoubleBookingNeedsARace /\ c \in Running
  BY DEF IInv, Booked, Running, Commit
<1>1. raced \subseteq raced' BY DEF Commit
<1>2. \A d \in Running : c.op \in Placing /\ d.op \in Placing => {c.s, d.s} \in raced'
  BY DEF Commit
<1>3. Running' \subseteq Running \ {c}
  <2>1. Leaves(c, "stored") BY AnswersLeave DEF Commit
  <2>2. \A d \in calls' : d \in calls \ {c} \/ d.at = "stored" BY <1>0, <2>1, LeftCalls
  <2> QED BY <2>2 DEF Running
<1>4. CountsHold'
  <2> SUFFICES ASSUME NEW d \in Running', NEW m \in Members, NEW o \in Shifts,
                      Places(d, m)', o # d.s, Overlap(o, d.s), Busy(m, o)'
               PROVE  {d.s, o} \in raced'
    BY DEF CountsHold
  <2>1. d \in Running \ {c} /\ d \in calls /\ d.at = "checked" /\ d \in Call /\ c \in Call
    BY <1>0, <1>3 DEF Running, TypeOK
  <2>2. d.s \in Shifts BY <2>1 DEF Call
  <2>3. d.op \in Placing /\ d.s \notin Events BY DEF Places
  <2>4. d.op \in Locking \/ d.op = "createPublished" BY <2>3 DEF Placing, Locking
  <2>5. CASE o = c.s /\ Places(c, m)
    <3>1. {c.s, d.s} \in raced' BY <1>2, <2>1, <2>3, <2>5 DEF Places
    <3>2. {c.s, d.s} = {d.s, o} BY <2>5
    <3> QED BY <3>1, <3>2
  <2>6. CASE Busy(m, o)
    \* The commit left d's shift alone, or d does not look at what it changed.
    <3>1. CASE d.s # c.s
      <4>1. Places(d, m) BY <2>2, <3>1, RowsAfterCommit DEF Places, Participants
      <4> QED BY <1>0, <1>1, <2>1, <2>6, <4>1 DEF CountsHold
    <3>2. CASE d.s = c.s
      <4>1. d.op # "createPublished"
        <5>1. SUFFICES ASSUME d.op = "createPublished" PROVE FALSE OBVIOUS
        <5>2. c = d BY <1>0, <2>1, <3>2, <5>1 DEF Orderly, CreatedOnce, Creation, Running
        <5> QED BY <2>1, <5>2
      <4>2. d.op \in Locking BY <2>4, <4>1
      <4>3. c.op \notin Locking BY <1>0, <2>1, <3>2, <4>2 DEF Orderly, HeldByOne
      <4>4. c.op # "request"
        BY <2>1, <3>2, <4>2 DEF Commit, LockIsFree
      <4>5. c.op \in Creation BY <2>1, <4>3, <4>4 DEF Call, Creation
      <4>6. d = c BY <1>0, <2>1, <3>2, <4>5 DEF Orderly, CreatedOnce, Running
      <4> QED BY <2>1, <4>6
    <3> QED BY <3>1, <3>2
  <2> QED BY <2>5, <2>6, BusyAfterCommit
<1>5. DoubleBookingNeedsARace'
  <2> SUFFICES ASSUME NEW m \in Members, NEW s \in Shifts, NEW o \in Shifts,
                      DoublyBooked(m, s, o)'
               PROVE  {s, o} \in raced'
    BY DEF DoubleBookingNeedsARace
  <2>1. s # o /\ Overlap(s, o) /\ Overlap(o, s) /\ Busy(m, s)' /\ Busy(m, o)'
    <3>1. {s, o} = {o, s} OBVIOUS
    <3> QED BY <3>1 DEF DoublyBooked, Busy, Overlap
  <2>2. CASE Busy(m, s) /\ Busy(m, o)
    BY <1>0, <1>1, <2>1, <2>2 DEF DoubleBookingNeedsARace, DoublyBooked, Busy
  <2>3. CASE s = c.s /\ Places(c, m) /\ Busy(m, o)
    BY <1>0, <1>1, <2>1, <2>3 DEF CountsHold
  <2>4. CASE o = c.s /\ Places(c, m) /\ Busy(m, s)
    <3>1. {o, s} \in raced BY <1>0, <2>1, <2>4 DEF CountsHold
    <3>2. {o, s} = {s, o} OBVIOUS
    <3> QED BY <1>1, <3>1, <3>2
  <2> QED BY <2>1, <2>2, <2>3, <2>4, BusyAfterCommit
<1> QED BY <1>4, <1>5 DEF Booked

-----------------------------------------------------------------------------
LEMMA BookedInit == Init => Booked
<1> SUFFICES ASSUME Init PROVE Booked OBVIOUS
<1>1. CountsHold BY DEF Init, CountsHold, Running
<1>2. DoubleBookingNeedsARace
  <2> SUFFICES ASSUME NEW m \in Members, NEW s \in Shifts, NEW o \in Shifts, DoublyBooked(m, s, o)
               PROVE  FALSE
    BY DEF DoubleBookingNeedsARace
  <2>1. \A x \in {s, o} : x \in Published \ Events /\ <<x, m>> \in Assigned
    BY DEF Init, DoublyBooked, Participants
  <2> QED BY <2>1, BookedOnceAtStart DEF DoublyBooked, Overlap
<1> QED BY <1>1, <1>2 DEF Booked

LEMMA InvariantNext == IInv /\ [Next]_vars => IInv'
<1> SUFFICES ASSUME IInv, [Next]_vars PROVE IInv' OBVIOUS
<1>1. TypeOK' BY TypeNext DEF IInv
<1>2. ASSUME RowsStand, ShowsExisting, SendsOne PROVE Orderly' /\ Booked' BY <1>2, QuietStep
<1>3. CASE UNCHANGED vars
  <2>1. RowsStand /\ ShowsExisting /\ SendsOne
    BY <1>3 DEF vars, RowsStand, ShowsExisting, SendsOne, IInv, Orderly, NothingOfTheAbsent
  <2> QED BY <1>1, <1>2, <2>1 DEF IInv
<1>4. ASSUME NEW c \in calls, Check(c) PROVE IInv' BY <1>1, <1>4, CheckNext DEF IInv
<1>5. ASSUME NEW c \in calls, Commit(c) PROVE IInv'
  BY <1>1, <1>5, CommitOrderly, CommitBooked DEF IInv
<1>6. ASSUME NEW c \in calls, CommitRefused(c) PROVE IInv' BY <1>1, <1>6, RefusedNext DEF IInv
<1>7. CASE \/ ConsoleStep \/ ManagerStep \/ EmployeeStep
           \/ \E c \in calls :
                CallLost(c) \/ ManagerHears(c) \/ PhoneHearsCreated(c) \/ EmployeeHears(c)
           \/ \E l \in loads : ServerReads(l) \/ PhoneShows(l) \/ LoadFails(l)
  BY <1>1, <1>2, <1>7, ScreensNext DEF IInv
<1> QED BY <1>3, <1>4, <1>5, <1>6, <1>7 DEF Next

\* Types and the order of checks and commits hold in every reachable state.
THEOREM Invariance == Spec => []IInv
<1>1. Init => IInv BY TypeInit, OrderlyInit, BookedInit DEF IInv
<1> QED BY <1>1, InvariantNext, PTL DEF Spec

\* Rows, requests, calls, screens and reads keep their types.
THEOREM TypeCorrect == Spec => []TypeOK
<1>1. IInv => TypeOK BY DEF IInv
<1> QED BY <1>1, Invariance, PTL

\* For any number of managers, members and shifts: the counts of createShift,
\* updateShiftParticipants, changeShiftPublication and decideShiftRequest leave no way to
\* book a member twice but two transactions that count before either commits.
THEOREM BookedTwiceByARace == Spec => []DoubleBookingNeedsARace
<1>1. IInv => DoubleBookingNeedsARace BY DEF IInv, Booked
<1> QED BY <1>1, Invariance, PTL

LEMMA RowNext ==
  ASSUME IInv, [Next]_vars, NEW s \in Shifts, NEW m \in Members,
         row[s][m] = "CANCELLED", row'[s][m] = "ASSIGNED"
  PROVE  \E c \in calls : c.op = "participants" /\ c.s = s /\ m \in c.who
<1>1. ASSUME UNCHANGED row PROVE FALSE BY <1>1
<1>2. CASE UNCHANGED vars BY <1>1, <1>2 DEF vars
<1>3. ASSUME NEW c \in calls, Check(c) \/ CommitRefused(c) PROVE FALSE
  BY <1>1, <1>3 DEF Check, CommitRefused
<1>4. CASE \/ ConsoleStep \/ ManagerStep \/ EmployeeStep
           \/ \E c \in calls :
                CallLost(c) \/ ManagerHears(c) \/ PhoneHearsCreated(c) \/ EmployeeHears(c)
           \/ \E l \in loads : ServerReads(l) \/ PhoneShows(l) \/ LoadFails(l)
  BY <1>1, <1>4, ScreensNext DEF RowsStand
<1>5. ASSUME NEW c \in calls, Commit(c)
      PROVE  c.op = "participants" /\ c.s = s /\ m \in c.who
  <2>1. c.s = s BY <1>5, RowsAfterCommit
  <2>2. RowsAfter(c)[m] = "ASSIGNED" BY <1>5, <2>1, RowsAfterCommit
  <2>3. m \in c.who /\ c.op \notin {"request", "reject"} BY <2>1, <2>2 DEF RowsAfter
  <2>4. c.op # "approve" BY <1>5, <2>1, <2>3 DEF Commit, KeyIsTaken
  <2>5. c.op \notin {"publish", "unpublish"} BY <2>3 DEF IInv, Orderly, StatusNamesNobody
  <2>6. c.op \notin Creation
    BY <1>5, <2>1 DEF IInv, Orderly, CreatedOnce, NothingOfTheAbsent, Commit
  <2>7. c \in Call BY DEF IInv, TypeOK
  <2> QED BY <2>1, <2>3, <2>4, <2>5, <2>6, <2>7 DEF Call, Locking, Creation
<1> QED BY <1>2, <1>3, <1>4, <1>5 DEF Next

\* A removed member returns to the shift by a manager's list alone (updateShiftParticipants),
\* never by the approval of a request (decideShiftRequest: INSERT on the unique key).
THEOREM RemovalStands == Spec => RemovalOutlivesRequests
<1>1. IInv /\ [Next]_vars =>
        [\A s \in Shifts : \A m \in Members :
           row[s][m] = "CANCELLED" /\ row'[s][m] = "ASSIGNED" =>
             \E c \in calls : c.op = "participants" /\ c.s = s /\ m \in c.who]_vars
  BY RowNext
<1> QED BY <1>1, Invariance, PTL DEF Spec, RemovalOutlivesRequests
=============================================================================
