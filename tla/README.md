# BG GOLD Attendance in TLA+

Models, model checks and machine-checked proofs of BG GOLD Attendance: a Go API
on MySQL (`src/backend`), a React Native client for employees, supervisors and
the showroom's kiosk (`src/apps/mobile`) and a React console for administrators
(`src/apps/admin`). Paths below are relative to `src/`.

## 1. The system

| Part | State | Operations | What makes it correct |
|---|---|---|---|
| Attendance core, `backend/services/attendance` | `attendance_state` (one row a member), `attendance_events` (the log), `attendance_requests`, `idempotency_keys`, QR nonces and consumptions | `Submit`, `Today`, `IssueDynamicQR` | the row says what the log says; the log is a legal run; one counted clock-in a day; a retry records nothing |
| Approvals, `controllers/approvals.go` | `request_decisions`, `attendance_corrections` | decide a request, correct an event | a request is decided once and reaches only the session it belongs to |
| Auto clock-out, `controllers/auto_clock_out.go` | candidates read and not handled | a round every minute in each API process | an overdue session is closed, once a shift, and never a session of another shift |
| Policies, `controllers/policies.go`, `operations.go` | `attendance_policies`, `policy_assignments` | create, update, archive, assign | history does not change with a policy |
| Leave, `controllers/leave.go` | `leave_balances`, `leave_requests`, `leave_request_allocations` | set a balance, request, withdraw, decide | a balance is the sum of its allocations and is never overdrawn |
| Notifications, `controllers/push.go`, `communications.go` | `notification_outbox`, `device_registrations` | enqueue, deliver, retry | one worker a row, bounded copies, every notification is sent or exhausts its retries |
| Scheduling, `operations.go`, `open_shifts.go`, the quick form of `App.tsx`, `ScheduleScreen.tsx` | `shifts`, `shift_assignments`, `shift_requests`; the lists on two phones | create, publish, unpublish, choose participants, ask, decide | nobody has two published shifts at one time |
| Decisions, `App.tsx`, `SupervisorScreen.tsx`, `RequestsScreen.tsx` | the status of every request; lists, forms and notices of three clients | file, withdraw, approve, reject | the first decision stands, and who is told so made it |
| Employees and accounts, `operations.go`, `services/auth` | `organization_memberships`, `users.password_hash`, `password_reset_tokens`, `refresh_sessions` | invite, create, edit, deactivate, reactivate, sign in, switch, reset | a live session is somebody's who may come in |
| Phone session, `lib/auth.tsx`, `lib/api.ts`, `services/auth` | the token pair in three places of the phone; the family in `refresh_sessions` | login, refresh, switch, logout, restore | concurrent requests never replay a token; every request ends |
| Offline outbox, `lib/offlineOutbox.ts`, `HomeScreen.tsx`, `AttendanceScreen.tsx` | the queued presses in AsyncStorage | press, keep, flush, reconnect | nothing kept is lost, nothing is recorded twice |
| Kiosk, `KioskScreen.tsx`, `KioskActivationCard.tsx`, `controllers/kiosk.go` | the device's row, PINs, token, the screen and its handlers | activate, verify, act, leave, restart | a PIN stays with its employee; a kiosk that was left opens nothing |
| Demo, `lib/demoApi.ts` | one document in AsyncStorage | every route of the API | what was answered is stored; records stay legal |
| Claims, `controllers/claims.go` | `claims`, receipts | create, withdraw, decide | decided once |
| Uploads, `controllers/attachments.go`, `face.go` | objects in MinIO, `attachments` rows | upload, retention | a row that is not deleted has an object |
| Timesheets and reports, `timesheet_summary.go`, `reports.go` | none | pair events, apply corrections, round | hours are the corrected log's hours |

How they interact. The mobile and the kiosk handlers call `Submit`; the console
changes policies and shifts that `Submit` reads; a manager's decision and the
worker write the same state row as `Submit`; announcements, decisions and
reminders enqueue notifications that a worker of every API process delivers; the
phone repeats a submission under the key it was first sent with. Everything
shared lies in MySQL, and a handler is a transaction: the order of its reads and
its row locks is what makes handlers of different actors safe or not. Nothing is
pushed to a client. Each shows lists it read a while ago, and several reads and
handlers of one screen are under way at a time.

What is hard: three writers of one state row; a worker that acts on what it read
earlier; transactions that count without a lock; calls that were let in before
the caller lost the right; retries whose first answer was lost; promises that go
on after their screen has gone; two clients deciding one thing; processes and
apps that stop between a commit and what has to follow it. `PROJECT.json` lists
each of these hazards at its line, with the property that would catch it.

## 2. Modules

| Module | Models | Instances | Proofs |
|---|---|---|---|
| `Attendance` | core, approvals, auto clock-out, and the policy and publication handlers the core reads | `MCAttendance` | `AttendanceProofs` |
| `WorkSession` | what the core promises (abstract specification) | | |
| `Leave` | balances and requests of leave, at the grain of row locks | `MCLeave` | `LeaveProofs` |
| `LeaveLedger` | what the leave handlers promise (abstract specification) | | |
| `NotificationOutbox` | publication, devices and the workers that push | `MCOutbox` | `OutboxProofs` |
| `Schedule` | shifts, participants, open shifts, with the console and two phones | `MCSchedule` | `ScheduleProofs` |
| `Desk` | requests of four kinds, filed, withdrawn and decided from three clients | `MCDesk` | `DeskProofs` |
| `Access` | accounts, roles, passwords, letters and the sessions they open | `MCAccess` | `AccessProofs` |
| `PhoneSession` | the rotating token pair of one phone | `MCPhoneSession` | `PhoneProofs` |
| `OfflineOutbox` | presses from a phone to the log, over a bad network | `MCOfflineOutbox` | `OutboxProofs` |
| `Kiosk` | one phone used by every employee of a showroom | `MCKiosk` | `KioskProofs` |
| `DemoApi` | the document of the demo and its routes | `MCDemoApi` | `PhoneProofs` |

The cuts between modules follow who shares what. `Attendance` is composed with
the workers and the managers because they write one row. A client's module
includes the server's side of the calls it makes, reduced to what the client can
tell apart: `OfflineOutbox` and `Kiosk` keep the transitions of `Submit` and its
key, not its policies; `Desk` keeps that a decision locks a pending row, not what
it does to a balance, which is `Leave`'s; `PhoneSession` keeps the rotation of a
family, and `Access` what opens and ends one.

`OutboxProofs` and `PhoneProofs` each extend two components, which is why
`OfflineOutbox` and `DemoApi` carry their own names before `Init`, `Next`, `Spec`
and `TypeOK`.

### Attendance

One handler is one action, because each is one transaction that begins by
locking the row it decides on: `Submit` reserves its `idempotency_keys` row and
locks `attendance_state`, `decideAttendanceRequest` locks the request and then
the state row, `autoClockOutCandidate` locks the state row. What happens between
transactions is interleaving in the model. The worker is the part whose read and
write are separate: `ReadCandidates(w)` is the query outside any transaction,
`AutoClockOut(w, c)` the transaction for one candidate, which re-reads the row.
Three details of it matter and are kept: a row without a shift cannot be scanned
into a Go string and the error ends the whole round; the event is recorded at
the cutoff, not at the time of the round; the source key is looked up in the
whole log, not in the last event.

| Code | Model |
|---|---|
| `attendance_state` | `row[m]`: `state`, `shift`, and `last`, the place of the last event in the log |
| `attendance_events` | `log[m]`, append-only |
| `attendance_requests`, `request_decisions` | `review[m][i]`: NONE, PENDING, APPROVED, REJECTED |
| `idempotency_keys` with a stored response | `response[m][k]`, the event it answers with |
| `policy_snapshot`, `policy_id` of an event | `log[m][i].policy` |
| `dynamic_qr_nonces`, `dynamic_qr_consumptions` | `qrExpiry`, `qrUsed` |
| the slice of candidates in `RunAutoClockOutOnce` | `batch[w]` |
| `ValidateTransition` / `NextState` | `Accepts` / `NextState`, `ApprovedState` |
| `ValidatePolicy` | `InWindow` (time); evidence rules refuse a request and are a step not taken |
| `resolveShift` | `ResolvedShifts` |
| `resolvePolicy` | `inForce`, the organisation's assignment |
| `clockInRecordedToday`, `Today` | `ClockInRecordedToday`, `TodayShows` |

Left out of it: evidence (location, Wi-Fi, selfie, face, device integrity), which
can only make a handler refuse and so adds no state; section and employee scope
of policies; `CORRECTION` events, which never touch the state row.

`WorkSession` states the promise without rows, keys or clocks: a member is off,
working, on a break or waiting for a manager; a clock-in counts from the moment
it is made, is the first and the latest counted of its day, and stops counting
when it is rejected; extra work follows a counted clock-in. `ImplementsWorkSession`
is the refinement under `phase <- Phase(m)` and `counted <-` the days of live
clock-ins.

### Leave

Here one handler is several actions. Its transaction reads first and locks
later, and a request over a year's end locks one balance a year, in the order a
Go map is ranged over (`createLeaveRequest`) or rows come back
(`releaseLeavePending`). The model therefore has a step for the reads before the
first lock, one for each lock and one for the commit; what a transaction wrote
is seen by others from its commit on, which is what InnoDB shows a locking read.
A transaction that asks for a balance another one holds waits; two that wait for
each other are `Deadlocked` and one of them is rolled back.

| Code | Model |
|---|---|
| `leave_balances` | `balance[<<member, type, year>>]`: `entitled`, `used`, `pending`, or `NoRow` |
| `leave_requests`, `leave_request_allocations` | `request[r]`; the allocation of a year is `Cost(request[r], year)`, since the code writes both from one computation and never changes an allocation |
| an open transaction | `tx[h]`: what it does, the years it has locked, still has to lock, and asks for |
| `leaveDaysByYear` | `DaysIn`, `Cost`, `YearsOf` |
| the overlap count, outside any lock | `Overlapping`, in `BeginCreate` |
| `remaining < days` under the balance's lock | `Fits`, in `LockToCreate` |
| `decideLeaveRequest`, `withdrawLeaveRequest` | `BeginSettle`, `LockToSettle`, `CommitSettle` with the verdict |
| `setLeaveBalance`: check, then upsert | `BeginSet`, `WriteSet` with the table's CHECK constraint |

`LeaveLedger` states the promise without counters, locks or transactions: a
request draws each of its days from one balance and is made in one step, when
every balance it draws from has room for what is waiting or approved there; it is
settled in one step; an entitlement is never set below what is drawn.
`ImplementsLedger` is the refinement: `EntitledTo` and `StatusOf` are columns, and
`DrawnFrom` the days of a request by balance. The counters and what transactions
hold are not mapped, so that the property says they never show.

`raced` is a history variable: the pairs of requests of which one was committed
while the other had been checked and was not. `OverlapNeedsARace` says that the
overlap count outside the locks can be wrong in this way only; a request whose
check came after the commit of the other never overlaps it, whatever was decided
or withdrawn in between.

### NotificationOutbox

A worker's round is a query, then for each id a transaction that claims the row,
a query for the tokens, one call of the provider a token and a last write. Each
is an action, and `Stop` may come between any two: it stands for a process that
ends, a context that is cancelled and a statement that returns an error, all of
which leave the row as it is. The provider can refuse a message, or take it and
its answer be lost. `available_at` is kept as the minutes left to wait, so that
time needs no bound. Not kept: the order of the list and `LIMIT 50` (the model
takes every due row, in any order), and the installation id beside the token.

| Code | Model |
|---|---|
| `notification_outbox.status`, `attempts`, `available_at` | `status`, `attempts`, `wait` |
| `device_registrations` with a token | `holder[t]` |
| the slice `ids` of a round | `batch[w]` |
| the locals of `deliverOutbox` | `job[w]`: row, attempts, tokens, those still to be sent to |
| what the provider passed on | `copies[r][t]` |

### Schedule

Every handler that gives somebody a shift counts that member's other published
shifts by a plain read and holds the lock of its own shift only. A call is
therefore three steps, `Send`, `Check`, `Commit`, and between a check and a
commit other calls check and commit. `Admits` has, for each handler, exactly the
question it asks: `updateShiftParticipants` counts only when the shift is published, an
approval counts the shift itself too and asks neither whether it is still open
nor whether it is published. `KeyIsTaken` is the unique key that an approval's
plain INSERT meets. A shift's time is a relation, `Overlapping`, because no
handler changes it and nothing else of it is asked.

| Code | Model |
|---|---|
| `shifts.status`, `shift_assignments.status`, `shift_requests.status` | `shift[s]`, `row[s][m]`, `request[s][m]` |
| `createShift`, `changeShiftPublication`, `updateShiftParticipants`, `requestOpenShift`, the decision | calls of `op` create, createPublished, publish, unpublish, participants, request, approve, reject |
| the console's buttons over lists of any age | `ConsoleCreates`, `ConsoleChangesStatus`, `ConsoleDecides` |
| `ScheduleScreen` of a manager: period, items, opened shift, ticked members, `saving` | `manager` |
| `ScheduleScreen` of an employee: open shifts, the one being asked for | `employee` |
| answers of `load()` on their way | `loads` |

`raced` is a history variable: the pairs of shifts on which two placing calls
had both checked before one committed.

### Desk

A decision is one transaction on the locked row of the request, hence one step,
`Store`; what is not one step is everything around it. The console keeps a list, a form and a saving flag per queue and
replaces a running read by the next (`query.refetch` cancels); the supervisor's
phone has one list for all kinds, runs its reads side by side and shows them in
the order in which they arrive. The console's differences between queues are
kept: in the attendance queue a row waits for its own call, in the others for
any; a form opened for another row empties the box in one and not in two; open
shifts are rejected without a form. `ApprovalConflicts` is the approval of a wish for a
shift that is refused while it is pending, because the employee is booked at those
hours or on that shift; who is booked is `Schedule`'s.

| Code | Model |
|---|---|
| `status` of `attendance_requests`, `leave_requests`, `claims`, `shift_requests` and who decided | `status[r]`, `verdict[r]` |
| the four approval queues of `App.tsx` | `console[k]`: `list`, `read`, `seen`, `rejecting`, `text`, `saving`, `told` |
| `SupervisorScreen`: `approvals`, `approved`, `reasons`, `processing`, the notice | `phone` |
| `RequestsScreen` with its `saving` | `employee` |
| `fetch` calls under way | `asks`, `reads` |

### Access

Sign-in and the switch of organisation read and later write with nothing locked
in between (`LoginChecks`, `LoginResolves`, `LoginInserts`; `SwitchReads`,
`SwitchCommits`). A manager's call is let in by the middleware (`Press...`) and
commits later (`StatusCommits`, `EditReads`, `EditCommits`, `CreateReads`,
`CreateCommits`, `Invite`). An edit locks the row of the employee (`Locked`) and decides
from a snapshot whether its sender may make it (`EditReads`); it writes in a later step,
so two owners may take the role from one another. A call that is lost in between is rolled
back, and what else writes the row waits for the lock. `createEmployee` fixes its snapshot by the role check and only then
locks the organisation, so the number it generates is read before the lock.
History variables say what a property needs to excuse: `raced` on a sign-in, a
switch and the session they store, `moved` on a creation whose numbers have been
overtaken, `overruled` once a call was committed for somebody who had lost the
right to it.

| Code | Model |
|---|---|
| `organization_memberships` | `status[m]`, `roles[m]`, `number[m]` |
| `users.password_hash` | `password[u]`: a counter of changes, 0 for the random one nobody knows |
| `password_reset_tokens` in order of creation | `letters`, each usable or spent |
| `refresh_sessions` not revoked | `session[s]` |
| the phone and the managers' screens | `phone[p]`, `calls[s]` |
| `Resolve` and `requirePermission` | `Admitted`, `Allowed` |

### PhoneSession

A pair of tokens is named by its family, its place in the rotations and its
organisation. The phone keeps it in SecureStore, in `sessionRef` and in the
provider's state (`stored`, `held`, `shown`), and these differ at moments that
matter: after a restore of a fresh session `held` is still empty. `Serve...` is
the server's side, `Carry` lets the network lose a request or its answer,
`Unauthorized` is `renewAccessToken` with its shared promise, `Kill` ends the app
at any point. The restore (`Restore`, `RestoreDone`) ends before a screen is
shown, so it never overlaps a renewal.

### OfflineOutbox

A press becomes a request, and the answer is recorded, refused, or none. No answer leaves
the request in `wire`, where it may arrive later, and puts the press in `outbox`. `flush` is
the one element of the chain `serialize` that runs, `waiting` the ones asked for
by a load or a reconnect; it has read the list when it begins and writes what is
left of it when it ends. `Carried` is what `fetchAPI` does with a 401: the
request goes out again with the token of whoever is signed in by then. A replay
of a key is answered with the stored response only when the fingerprint is the
same, which a selfie, uploaded again under another id, changes.

### Kiosk

The API serves a request whose phone waits for it: one that the phone gave up is
cancelled with its context, so only the app's end leaves one to be served later
(`RefusedOrLost`). The screen is a record; each asynchronous handler is a record in a slot with the
values it kept from the moment it was pressed, whether its screen still stands
(`home`) and how its request fares (`net`). `Back` and the timers do not wait for handlers, so an
answer may come to a screen that shows somebody else. `Restart` leaves what
SecureStore holds; `Remount` is every screen being built anew when the access
token is renewed; both, like a logout, build the activation card anew, which then
no longer knows that it saves (`CardTakenDown`).

Two activations, or two exits, can therefore overlap, and then the last answer
decides which token is kept although the device may know another. `doubled` marks
that this has happened, and the two properties about the token except it.

### DemoApi

Every route reads the whole document, works on the copy and writes it back:
`Begin` is the read with the route's test and effect, `WriteSeed` the write of a
fresh sample when the document is of an earlier day, `Answer` the write of the
copy with the answer. The kiosk's upload reads twice, once to check its token
(`KioskUpload`) and once for the copy (`KioskUploadReads`). Routes that change the same field in the same way share an
action; the wording of the sample is left out.

What an answer tells the user is in the document, `Facts`, is a kind and a number,
so that two things made by different routes are never one fact: the decided
queues are named as the document's fields are (`shiftRequests`), and a shift by
its number.

## 3. Runs

| Run | Instance | Properties |
|---|---|---|
| `attendance_core` | one member, an ordinary shift and an event, three keys, one worker, two local days, a policy that leaves everything to a manager and one that enforces every window | `RowMatchesLog`, `OnlyLastEventPends`, `LogIsLegalRun`, `OneClockInPerDay`, `TodayOffersLegalClockIn`, `AutoOncePerShift`, `HistoryStands`, refinement `ImplementsWorkSession` |
| `attendance_team` | two members, one code, two keys, one worker, with fairness | `CodesAreConsumedOnce`, `OverdueSessionsEnd` |
| `attendance_worker_stuck` | one member, one worker, with fairness | a counterexample to `EveryOverdueSessionEnds`, see section 5 |
| `leave` | one member, two requests, two handlers, one day on each side of a year's end, entitlements of one and two days, with fairness | `BalanceIsSum`, `OverlapNeedsARace`, `DecidedOnce`, refinement `ImplementsLedger`, `TransactionsEnd` |
| `outbox` | two members, a notification each, one phone that changes hands, two workers, with fairness | `OneWorkerPerRow`, `RetriesAreBounded`, `CopiesAreBounded`, `SentToAll`, `RowsEnd` |
| `schedule` | three shifts at one time (published, draft, new) and an event, two members, two periods, two calls, one rare event | `DoubleBookingNeedsARace`, `RemovalOutlivesRequests` |
| `desk` | two requests, one filed later, of one queue or of two, two decisions, one rare event | `ToldIsTrue`, `FirstDecisionStands` |
| `access` | an owner and an administrator at consoles, an employee of two organisations, a newcomer, one phone, two managers' calls, two letters | `LiveSessionsAreEntitled`, `PasswordNeedsNewestLetter`, `LockoutNeedsARace`, `TakenNumberNeedsARace` |
| `session` | one family, two organisations, two requests at a time, two rotations, with fairness | `ReplayNeedsALostAnswer`, `RequestsEnd` |
| `offline` | two memberships on one phone, two presses, a policy with a selfie, one trouble (offline, killed, another signs in), with fairness | `NothingVanishes`, `RecordedOnce`, `FlushSendsItsOwn`, `QueuedIsSettled` |
| `kiosk` | two employees, one with a PIN and one whose clock-in needs approval, two handlers at a time, three presses, three activations | `PinStaysWithItsEmployee`, `NothingRecordedTwice`, `LeftKioskIsRevoked`, `KeptTokenIsCurrent` |
| `demo` | two calls at a time over one document, five calls (two of them of the employee or the supervisor), one midnight | `ConfirmedIsStored`, `RecordsAreLegal` |

Every property has a mutant of the code in `PROJECT.json` that breaks it under the
same configuration: a dropped guard, a missing re-check, a swapped order.

### Bounds

`Attendance`: `DayLength` 3 and a clock up to 3 give two local days, so rows,
codes and requests of yesterday are met today; a third day adds nothing, since
every rule looks across one midnight at most. `Keys` bounds the submissions,
because each recorded one uses up a key: three allow clock-in, break or extra
work and clock-out, plus the worker's event. The event and the ordinary shift
overlap, which is the least with a choice of shift. Two members matter only where
something is shared, the code and the worker's list. Several workers at once are
covered by the theorem `AutoOnce` and not by a run.

`Leave`: two days in two years are the least with two locks in a transaction, and
two handlers the least for a deadlock; requests of different members share
nothing. `NotificationOutbox` is finite with `MaxAttempts` alone, 10 in the code and
2 here: it is compared in one place, and two tries show a retry, its back-off and
the end of the retries.

`Schedule`, `Desk`, `Access`, `Kiosk`: the bound is on what people press. Two calls
are the least that race, and the state they start from (a removed member, a
draft with a participant, a stored wish, a filed request, managers at work)
stands for the calls before. `MaxRare` bounds lost calls and reads nobody's step
asked for; one is enough for the last list shown to be an old one. `Access` has as many rows
for sessions as can be live at once with one phone, and `Kiosk` the two
slots that let an answer meet another handler's screen. `MaxPresses` 3 in `Kiosk` is an
activation or a check, an action, and one more press over either. Its `MaxTokens` 3
admits a kiosk activated before and two more activations, which is what it takes
for two to overlap.

`PhoneSession`: two requests are the least that share a renewal, two rotations
the least after which a stored pair is two behind. `OfflineOutbox`: two presses are
a queue with somebody behind the item that failed; two memberships one that is
not the sender's. `DemoApi`: `MaxBusy` 2 bounds the calls with many
inputs, and three more of the kiosk complete a day on it (activate, in, out).

Symmetry is over keys, codes and the demo's employees and slots, and never in a
run with a liveness property. Deadlock checking is off where a behaviour ends
because its bounds are used up, and on for `leave`, `outbox` and `session`.

### Fairness

| Assumed | Because |
|---|---|
| `WF(Tick)`, `WF(ReadCandidates(w))` | time passes, and `RunWorkers` ticks every minute for as long as a process runs |
| `SF` of handling a member's candidate | rounds may be interrupted by a restart or ended by a scan error, but not every round before it comes to that member |
| `SF(Advance(h))`, `WF` of the abort of a deadlock in `Leave` | InnoDB grants locks in the order they were asked for and detects deadlocks; a Go handler runs on |
| the other worker's steps in `NotificationOutbox` | a process that runs works, and not every round is interrupted before it comes to a given row |
| `WF(RequestStep(c))`, `WF(RenewalStep)`, `WF(RestoreStep)` | `fetch` settles, with an answer or an error, and promises are run |
| `WF(Load("home"))`, `WF` of the flush, `SF` of an answered item | the user comes back to Home, the phone runs the chain, and the network does not swallow every request |

People have no fairness.

## 4. Proofs

The theorems hold for every value of the constants that satisfies the named
assumptions; each module's `IInv` is the inductive invariant they follow from.

`AttendanceProofs`, for every set of members, shifts, keys, codes, policies and
workers, every length of day, horizon and clock bound: `TypeCorrect`, `RowIsCache`
(`RowMatchesLog`), `RequestsBlock` (`OnlyLastEventPends`), `OneClockIn`
(`OneClockInPerDay`), `LegalRun` (`LogIsLegalRun`), `AutoOnce`
(`AutoOncePerShift`), `HistoryIsAppendOnly` (`HistoryStands`), `CodesOnce`
(`CodesAreConsumedOnce`), `OffersLegalClockIn` (`TodayOffersLegalClockIn`) and the
refinement `Implements` (`ImplementsWorkSession`). Assumptions: types of
the constants; the seed policy is a row; the marks are no values.
`IInv` is `TypeOK` with `PoliciesExist` (a policy in
force, named by an event or by a candidate was created), `RowMatchesLog`,
`OnlyLastEventPends`, `RequestsAreReviewable` (only the three kinds of action a
policy can leave to a manager are ever reviewed) and `OpenOnLastShift` (an open
session is on the shift of its last event). That a decision produces the right
row needs to know that the undecided event is the last one and of a reviewable
kind; that the worker closes the right session needs `OpenOnLastShift`. Every
write but `Decide` appends an event and sets the row to its outcome, which
`GrowFacts` says once for `Submit` and for the worker. The other properties are
preserved on top of `IInv`: an append can only break them with the new event,
which the guard excludes, and a decision never makes a clock-in live that was not.

`Implements` is a step simulation: each of `Submit`, `Decide`, `AutoClockOut` maps to
the step of `WorkSession` it stands for, and every other action to a stutter. It
needs more than `IInv`: that a clock-in is recorded on the latest counted day asks
that clock-ins lie in the log in the order of the clock (`ClockInsInOrder`), and that
`WORK_MORE` follows a counted clock-in asks that whoever has left NOT_STARTED has one
(`StartedByClockIn`, which a rejection keeps because it takes the member back).
`RInv` is `IInv` with these two and `OneClockInPerDay`, without which a rejection
could leave its day counted by another clock-in.

`LeaveProofs`, for every calendar, set of members and number of handlers:
`TypeCorrect` (so the unsigned counters never go below zero), `BalancesAreSums`,
`NothingOverdrawn` (`NeverOverdrawn`), `DecisionsAreFinal` (`DecidedOnce`), `OverlapsByARace`
(`OverlapNeedsARace`) and the refinement `ActsAsLedger` (`ImplementsLedger`). A commit adds what was computed before its
locks were taken; what carries it over is `LocksAreExclusive` and `TxAgrees`: a
transaction's request is still as it read it, and every balance it has locked
still has the room it checked. A counter is the number of pairs of a request and
a day; a commit adds or removes the pairs of one request (`PairsAdded`,
`PairsRemoved`). `EndKeeps` says once that a transaction which writes only what it
has locked leaves the others' knowledge true. Assumptions: days are natural
numbers, the calendar and the ids are finite, the marks are no values.

`ActsAsLedger` is a step simulation over `LInv`, which is `IInv` with two facts no
invariant of a run needs: a transaction's request has a work day (`SomeDay`; the
ledger has no empty request) and an entitlement on its way is one that may be set
(`SetsEntitlements`). `CommitCreate` is `Make`, `CommitSettle` is `Settle`, a `WriteSet`
the table's constraint lets through is `Entitle`, everything else a stutter. The
ledger counts `Taken`, the drawn pairs of live requests, the code compares two
counters: `TakenIsCommitted` joins them through `BalanceIsSum`. That a commit
over two years is one step rests on `TxAgrees`: the room found under each lock is
still there when the last is granted.

`OverlapsByARace` needs to know what a check is worth later (`SeenOverlaps`): a
live request that overlaps one being created was committed after that one's
check, so the pair is in `raced` before the second commit makes both live.

`OutboxProofs`, for every set of rows, tokens and workers: `TypeCorrect`, `Exclusive`
(`OneWorkerPerRow`), `BoundedRetries`, `BoundedCopies`, `SentReachesAll` (`SentToAll`).
`RetriesLeft` counts the workers engaged with a row, by list or by delivery: below
`MaxAttempts` any worker may become engaged; from there on none can, and every
attempt costs one of them. Its second part is about `OfflineOutbox`, for every set
of memberships and requests, any number of presses and troubles and either
policy: `OfflineTypeCorrect`, `KeptUntilRecorded` (`NothingVanishes`),
`NeverRecordedTwice` (`RecordedOnce`), `SendsItsOwn` (`FlushSendsItsOwn`). `OfflineInv` adds
to the types and the properties `FlushCarries`, what the outbox holds while a flush runs is recorded
or still in the lists the flush will write back, and `FlushSends`, the item under
way is the first of its list and belongs to whoever asked. A flush overwrites the
outbox with what it read before the network answered, so `NothingVanishes` is
inductive only with the first of the two.

`ScheduleProofs`, for every set of shifts, every overlap relation, any number of
members and calls: `TypeCorrect`, `BookedTwiceByARace` (`DoubleBookingNeedsARace`),
`RemovalStands` (`RemovalOutlivesRequests`). `IInv` is `TypeOK`, `Orderly` and
`Booked`. `Orderly` says what a lock protects: a call that has checked and holds a
shift's lock still sees that shift as it was, and two of them are never on one
shift. `Booked` says what a count is worth later: a checked call's counted
conflicts are still absent unless the pair is in `raced`, since whatever has
committed a conflict in between was a placing call, and `Commit` records the pair.
Assumptions: the types of the constants, and that nobody is booked twice at the
start (`BookedOnceAtStart`).

`DeskProofs`, for every set of requests, kinds, number of decisions and losses:
`TypeCorrect`, `NoticesAreTrue` (`ToldIsTrue`), `DecisionsStand`
(`FirstDecisionStands`). `IInv` is `TypeOK` and `Told`: an answer on its way that says
stored is about the decision in the row. `ToldIsTrue` alone is not inductive: the
notice is written from an answer that left the server a while ago, and only
`FirstDecisionStands` keeps what it says true until it is shown.

`AccessProofs`, for every set of people, organisations, roles, consoles, phones
and letters: `TypeCorrect`, `SessionsAreEntitled` (`LiveSessionsAreEntitled`),
`LockoutByARace` (`LockoutNeedsARace`), `NumbersByARace` (`TakenNumberNeedsARace`),
`PasswordsByLetters` (`PasswordNeedsNewestLetter`). `IInv` is `TypeOK`; `Owned`,
passwords and letters are of existing accounts; `Entitled`, the holder of every
session is a member and entitled, and what a sign-in or a switch under way has
read is still true, unless overtaken; `LastLetterOnly`, a usable letter is the last of its
user; `ActsOnOthers`, nobody's call deactivates himself; `EditsHold`, an allowed edit alone
holds its row, whose roles do not change under it; and the two race properties. `LockoutNeedsARace` is an argument about the last manager: he cannot deactivate himself,
an owner cannot take the role from himself and only an owner edits a manager, so
the step that would leave none is somebody's who was not one any more.
A generated number is the greatest plus one (`NextEmployeeNumber`), so `FiniteMax` shows that a finite set
of members has a greatest number. Assumptions: the
types of the constants, managers and consoles are employed, the marks are no
values, finitely many members.

`KioskProofs`, for any employees, PINs, number of handlers under way and bounds:
`TypeCorrect`, `PinStays` (`PinStaysWithItsEmployee`), `NoneTwice`
(`NothingRecordedTwice`), `LeftIsRevoked` (`LeftKioskIsRevoked`), `KeptIsCurrent`
(`KeptTokenIsCurrent`). `Inv` is `Local`, about each handler and the screen alone
(what a press kept is complete, and its PIN is its employee's), and `TokenInv`, about
what handlers are to one another: unless `doubled`, there is one activation, while no token is kept,
or one revocation, while one is, and an answer that says done is still true when
it arrives (`OneTransfer`). `NothingRecordedTwice` follows from `LastRecorded`, the
state is the one the last event left, and from no action being legal in the state
it leads to. Assumptions: at least one activation is possible, the marks differ.

`PhoneProofs` has two parts. About the session, for any number of families,
organisations and concurrent requests and any bound on rotations:
`SessionTypeCorrect` and `ReplayedOnlyUnheard` (`ReplayNeedsALostAnswer`). The server revokes a
family when it is shown a pair that is not its newest, so the theorem needs that a refresh
under way always carries the newest pair of its family, or has been answered with
its successor, unless the family is `unheard` or `switched` (`RefreshIsNewest`). A refresh begins
from what is stored, hence `StoredIsNewest`, with the same excuse while a refresh is
on its way; that is a fact about one refresh at a time, hence `PhasesInOrder` (no renewal or
request before the restore has ended) and the shared renewal; and a pair answered to a
sign-in or a switch replaces the stored one later than it was rotated, hence `HandedAreNews` (such an
answer is newer than all the phone keeps) with `KeptAreIssued` (nothing the phone keeps is ahead of
the server) and `OneSwitch`. Assumption: the marks are no pairs.

About the demo, for any employees and codes, any number of overlapping calls and
any bounds on calls and days: `DemoTypeCorrect`, `DemoRecordsLegal` (`RecordsAreLegal`) and
`DemoConfirmedStored` (`ConfirmedIsStored`). A call writes a copy of what it read a while ago,
so legality of the stored document is inductive only together with that of every copy
(`CopyIsSound`): what a call will write is a legal document of its day, made from
what it read by calls that exist (`MadeBy`), and shows all that the copy's base showed and what
the call will tell. `Grown` says that once for every route; each route then has one lemma. The excuse
in `ConfirmedIsStored`, an overlap of two calls, is what the interleaved writes need and nothing
else. Assumptions: the bounds are natural numbers, there is a code, `None` is no
value.

Every invariant, action property and refinement that a run checks is a theorem.
Only model-checked is liveness (`OverdueSessionsEnd`, `TransactionsEnd`, `RowsEnd`,
`RequestsEnd`, `QueuedIsSettled`): it needs the fairness of `LiveSpec` and ENABLED,
which are out of the prover's reach. The theorems about models with a bound on
presses, rotations, calls or days hold for every value of it.

## 5. Where the code and what is said of it differ

`EveryOverdueSessionEnds` (run `attendance_worker_stuck`). The worker closes a
shift, the member takes up `WORK_MORE` on that shift and forgets to clock out. The
`INSERT IGNORE` on the source key `auto-clock-out:<shift>:<member>` inserts
nothing, so every later round skips the row and the session stays open.
`OverdueSessionsEnd` states what does hold.

The next ones are stated in their modules beside the property that does hold, and no
run checks them. TLC finds a counterexample to each in its run's
configuration.

| Statement | The code | What is said |
|---|---|---|
| `Leave!LiveRequestsDisjoint` | `leave.go:241` counts overlapping requests before it locks anything: two requests for one day served at once both count none | `docs/api-contract.md:131` "reject overlapping active requests" |
| `NotificationOutbox!ProcessingEnds` | `push.go:72` commits PROCESSING before it sends, and no query reads PROCESSING: a process that stops there leaves the row | `docs/database-design.md:64` "`PENDING → PROCESSING → SENT`, with bounded `FAILED` retries" |
| `NotificationOutbox!BackoffIsKept` | `push.go:114` compares only the status when a row is claimed: a worker with an older list tries again at once | `docs/api-contract.md:162` "retries failures with bounded exponential backoff" |
| `PhoneSession!NeverReplayed` | `auth.tsx:111` saves the pair of a switch when its answer comes; a renewal begun before replays the earlier one | `docs/security-review.md:13` "prevents concurrent screen loads from replaying the old refresh token" |
| `Kiosk!StatusIsOfTheSelected` | `KioskScreen.tsx:60` shows the action step when a PIN check ends, whoever is selected by then | `backend/README.md:58` the status is read by the membership of that employee |
| `OfflineOutbox!RecordedForItsMember` | `api.ts:418` repeats a refused request with the token of whoever is signed in by then, and a flush begun for one account may end under another | `docs/functional-parity-matrix.md:60` "AsyncStorage outbox is isolated by organization and membership" |
| `OfflineOutbox!ReviewedIsUnrecorded` | `offlineOutbox.ts:83` uploads a selfie again: the key comes with another fingerprint and is refused, and a recorded press is put up for review | `docs/architecture.md:33` "safe retries return the first result" |
| `Desk!NoticeIsKept` | `SupervisorScreen.tsx:84` does not number its loads: an older one answered last puts the decided request back under the notice | `SupervisorScreen.tsx:193` "Permintaan disetujui dan antrean diperbarui." |
| `Schedule!NoDoubleBooking` | `open_shifts.go:150`, `operations.go:1253` count without a lock on the other shift | `docs/functional-parity-matrix.md:35-36` "published-overlap rejection", "conflict-safe atomic assignment" |

Smaller ones met while modelling, kept in the models and without a statement of
their own:

- `auth.tsx:83` shows a restored session that has not expired without holding it
  in `sessionRef`: the first 401 is refused without a renewal and the session
  stays on screen (`docs/user-flow.md:20` says a refresh failure returns to Login).
- `App.tsx:2604` and `:2713`: the leave and the claim queue keep the reason typed
  for one row in the form of the next.
- `operations.go:219-222`: somebody invited by a second organisation before the
  first password is ACTIVE there at once (`docs/user-flow.md:37` says INVITED).
- `operations.go:271`: a generated employee number can be taken by the time it is
  written, and the creation is refused.
- `service.go:48`, `:154`: a sign-in or a switch overtaken by a reset, an edit or a
  deactivation stores a session that these have just ended.
- `demoApi.ts:940`: two calls over one document undo one another's writes.

## 6. What could follow

1. The timesheet: pairing and rounding against a reference definition over short
   logs, with corrections and automatic events recorded at the cutoff.
2. Retention: object and row, with the reads between.

## 7. Not modelled

- Uploads and retention (`attachments.go`): the order of object-store and database
  writes, and evidence read between the two. `Kiosk` and `OfflineOutbox` model an
  upload as a call that may be lost before the action that names it.
- Corrections, timesheets and reports: they read events nothing else reads back
  and lay them out.
- Sections and showrooms on the server: plain writes of one row each under a
  unique code.
- The OCR of claims, face comparison, Play Integrity, SMTP and FCM themselves:
  their answers are choices where a handler uses them.
- The audit trail: written in every transaction, read by a listing only.
- Configuration, HTTP plumbing, token signing and the migrations as programs;
  their column types and constraints are what the models use.
- Layout, wording and navigation of the clients, the tutorial, permission dialogs,
  the evidence viewer, exports, and the console's forms for policies, showrooms,
  announcements and corrections.
- A shift unpublished under an open session: `Attendance` has the step, and
  `resolveShift` then resolves none; `OverdueSessionsEnd` covers that the session
  still ends, and nothing is claimed about the member's own clock-out, because the
  documents do not say what should happen.
