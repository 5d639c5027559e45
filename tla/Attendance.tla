----------------------------- MODULE Attendance -----------------------------
(***************************************************************************)
(* The attendance core of the API: Service.Submit with its state machine,  *)
(* policy windows, shift resolution, idempotency keys and dynamic QR       *)
(* codes; the approval of pending actions; the auto clock-out worker; and  *)
(* the policy and publication handlers that change what the core reads.    *)
(*                                                                         *)
(* Every handler is one database transaction that first locks the row it   *)
(* decides on (idempotency_keys, attendance_state, attendance_requests), so*)
(* one handler is one action.  The worker is the exception: it reads its   *)
(* candidates outside any transaction and handles them one by one later.   *)
(*                                                                         *)
(* An event is identified by its member and its place in that member's     *)
(* log.  One organisation, one outlet; CORRECTION events never touch this  *)
(* state and are left to the timesheet.                                    *)
(***************************************************************************)
EXTENDS Integers, Sequences, FiniteSets

CONSTANTS
  Members,        \* organization_memberships that may submit attendance
  Shifts,         \* rows of shifts
  EventShifts,    \* those with schedule_type = 'EVENT'
  Keys,           \* Idempotency-Key values a member may send
  Nonces,         \* dynamic QR nonces that can be issued
  Workers,        \* API processes running RunWorkers
  PolicyIds,      \* rows of attendance_policies that can be created
  NoShift, NoNonce, NoPolicy,
  SeedPolicy,     \* the policy id the installation starts with
  SeedRows,       \* what that row may hold (auto_clock_out is set by SQL only)
  PolicyInputs,   \* what an administrator may put in a policy
  ShiftStart, ShiftEnd,    \* [Shifts -> Nat]
  Assigned,       \* [Members -> SUBSET Shifts], assignments not CANCELLED
  Horizon,        \* the 12 hours around now in which a shift is found
  DayLength,      \* length of an organisation-local day
  QRLife,         \* the 45 seconds a QR code lives
  MaxTime         \* bound on the clock

ActionTypes == {"CLOCK_IN", "CLOCK_OUT", "START_BREAK", "END_BREAK", "WORK_MORE"}
States == {"NOT_STARTED", "WORKING", "ON_BREAK", "COMPLETED", "PENDING"}
Restrictions == {"earlyIn", "lateIn", "earlyOut", "lateOut", "break"}

PolicyRow ==
  [auto: BOOLEAN, earlyIn: Nat, lateIn: Nat, earlyOut: Nat, lateOut: Nat,
   prevents: SUBSET Restrictions, approves: SUBSET ActionTypes,
   breakFrom: Nat, breakTo: Nat, qr: BOOLEAN]

ASSUME ShiftsAreTimed ==
  /\ ShiftStart \in [Shifts -> Nat] /\ ShiftEnd \in [Shifts -> Nat]
  /\ Assigned \in [Members -> SUBSET Shifts]
  /\ EventShifts \subseteq Shifts /\ NoShift \notin Shifts
ASSUME PoliciesAreRows ==
  /\ SeedPolicy \in PolicyIds /\ NoPolicy \notin PolicyIds \cup PolicyRow
  /\ SeedRows \subseteq PolicyRow /\ SeedRows # {}
  /\ PolicyInputs \subseteq PolicyRow
ASSUME BoundsAreNatural ==
  /\ Horizon \in Nat /\ MaxTime \in Nat /\ QRLife \in Nat
  /\ DayLength \in Nat \ {0} /\ NoNonce \notin Nonces

VARIABLES
  now,        \* the server clock
  published,  \* shifts with status = 'PUBLISHED'
  policies,   \* attendance_policies rows by id, NoPolicy when not created
  inForce,    \* the ACTIVE policy assigned to the organisation, or NoPolicy
  log,        \* attendance_events of each member, in insertion order
  review,     \* attendance_requests.status of each of those events, or "NONE"
  row,        \* attendance_state of each member
  response,   \* idempotency_keys: the event a key's stored response names, or 0
  qrExpiry,   \* dynamic_qr_nonces.expires_at, 0 when not issued
  qrUsed,     \* dynamic_qr_consumptions
  batch       \* candidates each worker has read and not handled yet

vars == <<now, published, policies, inForce, log, review, row, response,
          qrExpiry, qrUsed, batch>>

-----------------------------------------------------------------------------
(* The rules of rules.go *)

\* Mutant: an action waiting for approval does not block a clock-out.
AcceptsWhilePending(state) ==
  CASE state = "NOT_STARTED" -> {"CLOCK_IN"}
    [] state = "COMPLETED"   -> {"CLOCK_IN", "WORK_MORE"}
    [] state \in {"WORKING", "PENDING"} -> {"CLOCK_OUT", "START_BREAK"}
    [] OTHER                 -> {"END_BREAK"}

\* Mutant: extra work may start a day.
AcceptsMoreFirst(state) ==
  CASE state \in {"NOT_STARTED", "COMPLETED"} -> {"CLOCK_IN", "WORK_MORE"}
    [] state = "WORKING"     -> {"CLOCK_OUT", "START_BREAK"}
    [] state = "ON_BREAK"    -> {"END_BREAK"}
    [] OTHER                 -> {}

\* The actions ValidateTransition accepts in a state.
Accepts(state) ==
  CASE state = "NOT_STARTED" -> {"CLOCK_IN"}
    [] state = "COMPLETED"   -> {"CLOCK_IN", "WORK_MORE"}
    [] state = "WORKING"     -> {"CLOCK_OUT", "START_BREAK"}
    [] state = "ON_BREAK"    -> {"END_BREAK"}
    [] OTHER                 -> {}

\* The state an approved action leads to.
ApprovedState(action) ==
  CASE action = "CLOCK_OUT"   -> "COMPLETED"
    [] action = "START_BREAK" -> "ON_BREAK"
    [] OTHER                  -> "WORKING"

NextState(action, decision) ==
  IF decision = "PENDING" THEN "PENDING" ELSE ApprovedState(action)

WithinScheduledBreak(p, s, t) ==
  /\ s # NoShift
  /\ ShiftStart[s] + p.breakFrom <= t /\ t < ShiftStart[s] + p.breakTo

\* The time rules of ValidatePolicy.  Its evidence rules refuse a request and
\* change nothing, so a refused member is one that does not take the step.
InWindow(p, s, action, t) ==
  /\ s # NoShift /\ action = "CLOCK_IN" =>
       /\ "earlyIn" \in p.prevents => t >= ShiftStart[s] - p.earlyIn
       /\ "lateIn" \in p.prevents => t <= ShiftStart[s] + p.lateIn
  /\ s # NoShift /\ action = "CLOCK_OUT" =>
       /\ "earlyOut" \in p.prevents => t >= ShiftEnd[s] - p.earlyOut
       /\ "lateOut" \in p.prevents => t <= ShiftEnd[s] + p.lateOut
  /\ action = "START_BREAK" /\ "break" \in p.prevents =>
       WithinScheduledBreak(p, s, t)

NeedsApproval(p, s, action, t) ==
  /\ action \in p.approves
  /\ \/ action = "CLOCK_IN" /\ s = NoShift
     \/ action = "WORK_MORE"
     \/ action = "START_BREAK" /\ ~WithinScheduledBreak(p, s, t)

NeedsQR(p, action) == p.qr /\ action \in {"CLOCK_IN", "CLOCK_OUT", "WORK_MORE"}

-----------------------------------------------------------------------------
(* What a transaction reads *)

Day(t) == t \div DayLength

\* COALESCE(d.decision, e.decision) of the member's i-th event.
Effective(m, i) ==
  IF review[m][i] \in {"APPROVED", "REJECTED"} THEN review[m][i]
                                              ELSE log[m][i].decision

LiveClockIn(m, i) ==
  log[m][i].action = "CLOCK_IN" /\ Effective(m, i) \in {"APPROVED", "PENDING"}

\* Mutant: the decision of a manager is not joined.
ClockInApprovedToday(m) ==
  \E i \in DOMAIN log[m] :
    /\ log[m][i].action = "CLOCK_IN" /\ log[m][i].decision = "APPROVED"
    /\ Day(log[m][i].at) = Day(now)

ClockInRecordedToday(m) ==
  \E i \in DOMAIN log[m] : LiveClockIn(m, i) /\ Day(log[m][i].at) = Day(now)

Available(m) == published \cap Assigned[m]

\* Mutant: a completed session is always shown as not started.
TodayForgets(m) ==
  IF row[m].state = "COMPLETED" THEN "NOT_STARTED" ELSE row[m].state

\* Service.Today: yesterday's COMPLETED is shown as NOT_STARTED.
TodayShows(m) ==
  IF row[m].state = "COMPLETED" /\ ~ClockInRecordedToday(m) THEN "NOT_STARTED"
                                                            ELSE row[m].state

Distance(s) == IF ShiftStart[s] >= now THEN ShiftStart[s] - now
                                       ELSE now - ShiftStart[s]

Nearby(m) == {s \in Available(m) \ EventShifts :
                ShiftStart[s] <= now + Horizon /\ ShiftEnd[s] >= now - Horizon}

\* The shifts resolveShift may return for a request that names shift s; none
\* when the request is refused.
ResolvedShifts(m, s) ==
  LET named == IF s = NoShift THEN row[m].shift ELSE s
  IN  IF named # NoShift THEN {named} \cap Available(m)
      ELSE IF Nearby(m) = {} THEN {NoShift}
      ELSE {c \in Nearby(m) : \A d \in Nearby(m) : Distance(c) <= Distance(d)}

\* Mutant: consumption is not looked at.
UnexpiredNonces(m) == {n \in Nonces : qrExpiry[n] > now}

\* A code that decodes, has not expired and was not consumed by the member.
UsableNonces(m) ==
  {n \in Nonces : qrExpiry[n] > now /\ <<n, m>> \notin qrUsed}

-----------------------------------------------------------------------------
(* Service.Submit, called by the mobile and the kiosk handler *)

\* The key has a stored response: the caller gets it, and nothing changes.
Answered(m, k) == response[m][k] # 0

\* The key is reserved, the state row locked, and every check passes: event,
\* request, state and response are committed together.
Submit(m, k, action, s) ==
  /\ ~Answered(m, k)
  /\ action \in Accepts(row[m].state)
  /\ action = "CLOCK_IN" => ~ClockInRecordedToday(m)
  /\ inForce # NoPolicy
  /\ \E shift \in ResolvedShifts(m, s) :
     \E n \in IF NeedsQR(policies[inForce], action) THEN UsableNonces(m)
                                                    ELSE {NoNonce} :
       LET p        == policies[inForce]
           decision == IF NeedsApproval(p, shift, action, now) THEN "PENDING"
                                                               ELSE "APPROVED"
           next     == NextState(action, decision)
           event    == [action |-> action, decision |-> decision, at |-> now,
                        shift |-> shift, policy |-> inForce, nonce |-> n]
       IN  /\ InWindow(p, shift, action, now)
           /\ log' = [log EXCEPT ![m] = Append(@, event)]
           /\ review' = [review EXCEPT ![m] =
                Append(@, IF decision = "PENDING" THEN "PENDING" ELSE "NONE")]
           /\ row' = [row EXCEPT ![m] =
                [state |-> next,
                 shift |-> IF next \in {"COMPLETED", "PENDING"} THEN NoShift
                                                               ELSE shift,
                 last  |-> Len(log[m]) + 1]]
           /\ response' = [response EXCEPT ![m][k] = Len(log[m]) + 1]
           /\ qrUsed' = IF n = NoNonce THEN qrUsed ELSE qrUsed \cup {<<n, m>>}
  /\ UNCHANGED <<now, published, policies, inForce, qrExpiry, batch>>

IssueDynamicQR(n) ==
  /\ qrExpiry[n] = 0
  /\ qrExpiry' = [qrExpiry EXCEPT ![n] = now + QRLife]
  /\ UNCHANGED <<now, published, policies, inForce, log, review, row, response,
                 qrUsed, batch>>

-----------------------------------------------------------------------------
(* decideAttendanceRequest *)

\* Mutant: a rejected request always leads to NOT_STARTED.
RejectedToStart(e, i, decision) ==
  [state |-> IF decision = "APPROVED" THEN ApprovedState(e.action) ELSE "NOT_STARTED",
   shift |-> IF decision = "APPROVED" THEN e.shift ELSE NoShift,
   last  |-> i]

\* What the decision makes of the state row.
DecidedRow(e, i, decision) ==
  LET resumes == decision = "APPROVED" \/ e.action = "START_BREAK"
  IN  [state |-> IF decision = "APPROVED" THEN ApprovedState(e.action)
                 ELSE CASE e.action = "WORK_MORE"   -> "COMPLETED"
                        [] e.action = "START_BREAK" -> "WORKING"
                        [] OTHER                    -> "NOT_STARTED",
       shift |-> IF resumes THEN e.shift ELSE NoShift,
       last  |-> i]

\* Mutant: a request that was decided can be decided again.
HasRequest(m, i) == review[m][i] # "NONE"

Undecided(m, i) == review[m][i] = "PENDING"

Decide(m, i, decision) ==
  /\ Undecided(m, i)
  /\ review' = [review EXCEPT ![m][i] = decision]
  /\ row' = IF row[m].state = "PENDING" /\ row[m].last = i
            THEN [row EXCEPT ![m] = DecidedRow(log[m][i], i, decision)]
            ELSE row
  /\ UNCHANGED <<now, published, policies, inForce, log, response, qrExpiry,
                 qrUsed, batch>>

-----------------------------------------------------------------------------
(* The auto clock-out worker *)

Cutoff(m) ==
  ShiftEnd[row[m].shift] + policies[log[m][row[m].last].policy].lateOut

\* The members the candidate query returns: on an active shift whose cutoff has
\* passed, under a policy row that says auto_clock_out.
Due(m) ==
  /\ row[m].state \in {"WORKING", "ON_BREAK"}
  /\ row[m].shift # NoShift
  /\ policies[log[m][row[m].last].policy].auto
  /\ Cutoff(m) <= now

\* Mutant: only the last event is compared with the source key.
AutoRecordedLast(m, s) ==
  /\ log[m] # <<>> /\ log[m][Len(log[m])].action = "AUTO_CLOCK_OUT"
  /\ log[m][Len(log[m])].shift = s

\* The source key of member m and shift s exists.
AutoRecorded(m, s) ==
  \E i \in DOMAIN log[m] : log[m][i].action = "AUTO_CLOCK_OUT" /\ log[m][i].shift = s

ReadCandidates(w) ==
  /\ batch[w] = {}
  /\ batch' = [batch EXCEPT ![w] =
       {[member |-> m, shift |-> row[m].shift, cutoff |-> Cutoff(m),
         policy |-> log[m][row[m].last].policy] : m \in {x \in Members : Due(x)}}]
  /\ UNCHANGED <<now, published, policies, inForce, log, review, row, response,
                 qrExpiry, qrUsed>>

\* Mutants: the shift is not compared again; a member on a break is skipped.
StillOpenSomewhere(m, s) == row[m].state \in {"WORKING", "ON_BREAK"}
StillAtWork(m, s) == row[m].state = "WORKING" /\ row[m].shift = s

\* The locked row still has the session that was read.
StillOpen(m, s) == row[m].state \in {"WORKING", "ON_BREAK"} /\ row[m].shift = s

\* autoClockOutCandidate: the row is locked and read again.  A row without a
\* shift cannot be scanned, and that error ends the whole round; a row that is
\* not working on that shift, or an event the source key says exists, is skipped.
AutoClockOut(w, c) ==
  LET m == c.member
      event == [action |-> "AUTO_CLOCK_OUT", decision |-> "APPROVED",
                at |-> c.cutoff, shift |-> c.shift, policy |-> c.policy,
                nonce |-> NoNonce]
  IN  /\ c \in batch[w]
      /\ batch' = [batch EXCEPT ![w] = IF row[m].shift = NoShift THEN {} ELSE @ \ {c}]
      /\ IF StillOpen(m, c.shift) /\ ~AutoRecorded(m, c.shift)
         THEN /\ log' = [log EXCEPT ![m] = Append(@, event)]
              /\ review' = [review EXCEPT ![m] = Append(@, "NONE")]
              /\ row' = [row EXCEPT ![m] =
                   [state |-> "COMPLETED", shift |-> NoShift, last |-> Len(log[m]) + 1]]
         ELSE UNCHANGED <<log, review, row>>
      /\ UNCHANGED <<now, published, policies, inForce, response, qrExpiry, qrUsed>>

\* The process is stopped between two candidates; it starts with none.
RestartWorker(w) ==
  /\ batch[w] # {}
  /\ batch' = [batch EXCEPT ![w] = {}]
  /\ UNCHANGED <<now, published, policies, inForce, log, review, row, response,
                 qrExpiry, qrUsed>>

-----------------------------------------------------------------------------
(* The administrators' handlers the core depends on, and the clock *)

\* createPolicy at organisation scope: the policy assigned so far is archived,
\* and no input sets auto_clock_out.
CreatePolicy(p, input) ==
  /\ policies[p] = NoPolicy
  /\ policies' = [policies EXCEPT ![p] = [input EXCEPT !.auto = FALSE]]
  /\ inForce' = p
  /\ UNCHANGED <<now, published, log, review, row, response, qrExpiry, qrUsed, batch>>

\* updatePolicy changes the row in place, except auto_clock_out.
UpdatePolicy(input) ==
  /\ inForce # NoPolicy
  /\ policies' = [policies EXCEPT ![inForce] = [input EXCEPT !.auto = policies[inForce].auto]]
  /\ UNCHANGED <<now, published, inForce, log, review, row, response, qrExpiry,
                 qrUsed, batch>>

ArchivePolicy ==
  /\ inForce # NoPolicy
  /\ inForce' = NoPolicy
  /\ UNCHANGED <<now, published, policies, log, review, row, response, qrExpiry,
                 qrUsed, batch>>

\* Some member of shift s also has an overlapping published shift.
Conflicts(s) ==
  /\ s \notin EventShifts
  /\ \E m \in Members : \E t \in Available(m) \ (EventShifts \cup {s}) :
       /\ s \in Assigned[m]
       /\ ShiftStart[t] < ShiftEnd[s] /\ ShiftEnd[t] > ShiftStart[s]

PublishShift(s) ==
  /\ ~Conflicts(s)
  /\ published' = published \cup {s}
  /\ UNCHANGED <<now, policies, inForce, log, review, row, response, qrExpiry,
                 qrUsed, batch>>

UnpublishShift(s) ==
  /\ published' = published \ {s}
  /\ UNCHANGED <<now, policies, inForce, log, review, row, response, qrExpiry,
                 qrUsed, batch>>

Tick ==
  /\ now < MaxTime
  /\ now' = now + 1
  /\ UNCHANGED <<published, policies, inForce, log, review, row, response,
                 qrExpiry, qrUsed, batch>>

-----------------------------------------------------------------------------
Init ==
  /\ now = 0
  /\ published \in SUBSET Shifts
  /\ \E r \in SeedRows :
       policies = [p \in PolicyIds |-> IF p = SeedPolicy THEN r ELSE NoPolicy]
  /\ inForce = SeedPolicy
  /\ log = [m \in Members |-> <<>>]
  /\ review = [m \in Members |-> <<>>]
  /\ row = [m \in Members |-> [state |-> "NOT_STARTED", shift |-> NoShift, last |-> 0]]
  /\ response = [m \in Members |-> [k \in Keys |-> 0]]
  /\ qrExpiry = [n \in Nonces |-> 0]
  /\ qrUsed = {}
  /\ batch = [w \in Workers |-> {}]

MemberStep == \E m \in Members, k \in Keys, a \in ActionTypes,
                 s \in Shifts \cup {NoShift} : Submit(m, k, a, s)
ManagerStep == \E m \in Members : \E i \in DOMAIN log[m] :
                 \E d \in {"APPROVED", "REJECTED"} : Decide(m, i, d)
WorkerStep(w) == ReadCandidates(w) \/ (\E c \in batch[w] : AutoClockOut(w, c))
AdminStep ==
  \/ \E n \in Nonces : IssueDynamicQR(n)
  \/ \E p \in PolicyIds, input \in PolicyInputs : CreatePolicy(p, input)
  \/ \E input \in PolicyInputs : UpdatePolicy(input)
  \/ ArchivePolicy
  \/ \E s \in Shifts : PublishShift(s) \/ UnpublishShift(s)

Next ==
  \/ MemberStep
  \/ ManagerStep
  \/ \E w \in Workers : WorkerStep(w) \/ RestartWorker(w)
  \/ AdminStep
  \/ Tick

Spec == Init /\ [][Next]_vars

\* The clock runs, and each ticker keeps calling the worker, which is not
\* stopped before it comes to a member in every single round.
Fairness ==
  /\ WF_vars(Tick)
  /\ \A w \in Workers :
       /\ WF_vars(ReadCandidates(w))
       /\ \A m \in Members :
            SF_vars(\E c \in batch[w] : c.member = m /\ AutoClockOut(w, c))

LiveSpec == Spec /\ Fairness
-----------------------------------------------------------------------------
(* Properties *)

Event ==
  [action: ActionTypes \cup {"AUTO_CLOCK_OUT"}, decision: {"APPROVED", "PENDING"},
   at: Nat, shift: Shifts \cup {NoShift}, policy: PolicyIds,
   nonce: Nonces \cup {NoNonce}]
Reviews == {"NONE", "PENDING", "APPROVED", "REJECTED"}
Candidate == [member: Members, shift: Shifts, cutoff: Nat, policy: PolicyIds]

\* Every variable holds a value its column can hold.
TypeOK ==
  /\ now \in Nat /\ published \subseteq Shifts
  /\ policies \in [PolicyIds -> PolicyRow \cup {NoPolicy}]
  /\ inForce \in PolicyIds \cup {NoPolicy}
  /\ log \in [Members -> Seq(Event)] /\ review \in [Members -> Seq(Reviews)]
  /\ row \in [Members -> [state: States, shift: Shifts \cup {NoShift}, last: Nat]]
  /\ response \in [Members -> [Keys -> Nat]]
  /\ qrExpiry \in [Nonces -> Nat] /\ qrUsed \subseteq Nonces \X Members
  /\ batch \in [Workers -> SUBSET Candidate]

\* The state an event leaves its member in, once its request is decided.
Outcome(e, verdict) ==
  CASE verdict = "PENDING"  -> "PENDING"
    [] verdict = "REJECTED" -> (CASE e.action = "CLOCK_IN"    -> "NOT_STARTED"
                                  [] e.action = "START_BREAK" -> "WORKING"
                                  [] OTHER                    -> "COMPLETED")
    [] verdict \in {"NONE", "APPROVED"} ->
         (CASE e.action \in {"CLOCK_OUT", "AUTO_CLOCK_OUT"} -> "COMPLETED"
            [] e.action = "START_BREAK"                     -> "ON_BREAK"
            [] OTHER                                        -> "WORKING")

StateAfter(m, i) ==
  IF i = 0 THEN "NOT_STARTED" ELSE Outcome(log[m][i], review[m][i])

\* The state row is a cache of the event log and its decisions: it names the
\* last event and holds what that event came to, whoever wrote it last - the
\* member, a manager or the worker.
RowMatchesLog ==
  \A m \in Members :
    /\ row[m].last = Len(log[m]) /\ Len(review[m]) = Len(log[m])
    /\ row[m].state = StateAfter(m, Len(log[m]))

\* A request stays undecided only while it blocks its member: no later event
\* overtakes it, and no decision reaches a row that has moved on.
OnlyLastEventPends ==
  \A m \in Members : \A i \in DOMAIN review[m] :
    review[m][i] = "PENDING" => i = row[m].last /\ row[m].state = "PENDING"

\* Read with the decisions made since, each log is a run of the state machine:
\* every event was legal in the state the events before it came to, and the
\* worker only closed sessions that were open on its shift.
LogIsLegalRun ==
  \A m \in Members : \A i \in DOMAIN log[m] :
    IF log[m][i].action = "AUTO_CLOCK_OUT"
      THEN StateAfter(m, i - 1) \in {"WORKING", "ON_BREAK"} /\
           log[m][i].shift = log[m][i-1].shift
      ELSE log[m][i].action \in Accepts(StateAfter(m, i - 1))

\* A member has at most one clock-in that counts on a local day, however
\* retries, rejections and decisions interleave.
OneClockInPerDay ==
  \A m \in Members : \A i, j \in DOMAIN log[m] :
    LiveClockIn(m, i) /\ LiveClockIn(m, j) /\ Day(log[m][i].at) = Day(log[m][j].at)
      => i = j

\* When the home screen offers a clock-in, Submit does not refuse it as illegal
\* or as already recorded today.
TodayOffersLegalClockIn ==
  \A m \in Members : TodayShows(m) = "NOT_STARTED" =>
    "CLOCK_IN" \in Accepts(row[m].state) /\ ~ClockInRecordedToday(m)

\* A code is consumed by exactly the members whose events it evidences, once
\* each, and before it expires.
CodesAreConsumedOnce ==
  /\ \A n \in Nonces, m \in Members :
       <<n, m>> \in qrUsed <=> \E i \in DOMAIN log[m] : log[m][i].nonce = n
  /\ \A m \in Members : \A i, j \in DOMAIN log[m] :
       log[m][i].nonce # NoNonce =>
         /\ log[m][i].at < qrExpiry[log[m][i].nonce]
         /\ log[m][i].nonce = log[m][j].nonce => i = j

\* The source key lets the worker close a shift once per member, however many
\* processes run it and however late they handle what they read.
AutoOncePerShift ==
  \A m \in Members : \A i, j \in DOMAIN log[m] :
    /\ log[m][i].action = "AUTO_CLOCK_OUT" /\ log[m][j].action = "AUTO_CLOCK_OUT"
    /\ log[m][i].shift = log[m][j].shift
    => i = j

\* History is append-only: events, decisions and stored responses stay as they
\* were written, whatever administrators do to shifts and policies.
HistoryStands ==
  [][\A m \in Members :
       /\ Len(log'[m]) >= Len(log[m])
       /\ \A i \in DOMAIN log[m] :
            /\ log'[m][i] = log[m][i]
            /\ review[m][i] # "PENDING" => review'[m][i] = review[m][i]
       /\ \A k \in Keys : response[m][k] # 0 => response'[m][k] = response[m][k]]_vars

\* The state row and the log implement WorkSession.
Phase(m) ==
  CASE row[m].state \in {"NOT_STARTED", "COMPLETED"} -> "off"
    [] row[m].state = "WORKING"  -> "working"
    [] row[m].state = "ON_BREAK" -> "onBreak"
    [] OTHER -> CASE log[m][row[m].last].action = "CLOCK_IN"    -> "awaitsClockIn"
                  [] log[m][row[m].last].action = "START_BREAK" -> "awaitsBreak"
                  [] OTHER                                      -> "awaitsMore"

Abstract == INSTANCE WorkSession WITH
  Days    <- {Day(t) : t \in 0 .. MaxTime},
  phase   <- [m \in Members |-> Phase(m)],
  counted <- [m \in Members |->
                {Day(log[m][i].at) : i \in {j \in DOMAIN log[m] : LiveClockIn(m, j)}}]
ImplementsWorkSession == Abstract!Spec

\* A session left open past its cutoff under an auto clock-out policy ends, when
\* the worker has not closed that shift for the member before.
OverdueSessionsEnd ==
  \A m \in Members, s \in Shifts :
    (Due(m) /\ row[m].shift = s /\ ~AutoRecorded(m, s)) ~> ~(Due(m) /\ row[m].shift = s)

\* The same without that exception, as the documents have it.
EveryOverdueSessionEnds ==
  \A m \in Members, s \in Shifts :
    (Due(m) /\ row[m].shift = s) ~> ~(Due(m) /\ row[m].shift = s)
=============================================================================
