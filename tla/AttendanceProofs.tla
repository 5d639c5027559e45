-------------------------- MODULE AttendanceProofs --------------------------
(***************************************************************************)
(* What Attendance guarantees for every set of members, shifts, policies,  *)
(* keys, codes and workers, proved with TLAPS.                             *)
(***************************************************************************)
EXTENDS Attendance, SequenceTheorems, TLAPS

\* The actions NeedsApproval can put before a manager.
Reviewable == {"CLOCK_IN", "WORK_MORE", "START_BREAK"}

\* A policy that is in force, or that an event or a candidate names, was created.
PoliciesExist ==
  /\ inForce # NoPolicy => policies[inForce] # NoPolicy
  /\ \A m \in Members : \A i \in DOMAIN log[m] : policies[log[m][i].policy] # NoPolicy
  /\ \A w \in Workers : \A c \in batch[w] : policies[c.policy] # NoPolicy

\* Only reviewable actions carry a request, and the event says so.
RequestsAreReviewable ==
  \A m \in Members : \A i \in DOMAIN log[m] :
    /\ review[m][i] # "NONE" => log[m][i].action \in Reviewable
    /\ review[m][i] = "NONE" => log[m][i].decision = "APPROVED"

\* An open session is on the shift its last event names.
OpenOnLastShift ==
  \A m \in Members : row[m].state \in {"WORKING", "ON_BREAK"} =>
    row[m].shift = log[m][Len(log[m])].shift

\* The inductive invariant.
IInv ==
  /\ TypeOK /\ PoliciesExist /\ RowMatchesLog /\ OnlyLastEventPends
  /\ RequestsAreReviewable /\ OpenOnLastShift

-----------------------------------------------------------------------------
\* What appending to a log does.
LEMMA AppendFacts ==
  ASSUME NEW S, NEW s \in Seq(S), NEW e \in S
  PROVE  /\ Append(s, e) \in Seq(S) /\ Len(Append(s, e)) = Len(s) + 1
         /\ DOMAIN Append(s, e) = 1 .. (Len(s) + 1)
         /\ DOMAIN s = 1 .. Len(s) /\ Len(s) \in Nat
         /\ \A i \in 1 .. Len(s) : Append(s, e)[i] = s[i]
         /\ Append(s, e)[Len(s) + 1] = e
  OBVIOUS

\* What deciding an element of a sequence does.
LEMMA ExceptFacts ==
  ASSUME NEW S, NEW s \in Seq(S), NEW i \in DOMAIN s, NEW e \in S
  PROVE  /\ [s EXCEPT ![i] = e] \in Seq(S) /\ Len([s EXCEPT ![i] = e]) = Len(s)
         /\ DOMAIN [s EXCEPT ![i] = e] = DOMAIN s
         /\ \A j \in DOMAIN s : [s EXCEPT ![i] = e][j] = IF j = i THEN e ELSE s[j]
  BY ExceptSeq

\* Event e and its review r are added to the log of m, whose row becomes st.
Recorded(m, e, r, st) ==
  /\ log' = [log EXCEPT ![m] = Append(@, e)]
  /\ review' = [review EXCEPT ![m] = Append(@, r)]
  /\ row' = [row EXCEPT ![m] = st]

\* The row an accepted submission writes.
SubmittedRow(m, e) ==
  LET next == NextState(e.action, e.decision)
  IN  [state |-> next,
       shift |-> IF next \in {"COMPLETED", "PENDING"} THEN NoShift ELSE e.shift,
       last  |-> Len(log[m]) + 1]

\* The three kinds of step that touch a log, its reviews or its row.
Submitted(m, e, r) ==
  /\ Recorded(m, e, r, SubmittedRow(m, e))
  /\ e.action \in ActionTypes /\ e.action \in Accepts(row[m].state)
  /\ e.action = "CLOCK_IN" => ~ClockInRecordedToday(m)
  /\ e.at = now /\ e.policy = inForce
  /\ inForce \in PolicyIds /\ UNCHANGED policies
  /\ r = "PENDING" => e.action \in Reviewable
  /\ e.decision = IF r = "PENDING" THEN "PENDING" ELSE "APPROVED"
SubmitStep == \E m \in Members, e \in Event, r \in {"NONE", "PENDING"} : Submitted(m, e, r)

AutoClosed(m, e) ==
  /\ Recorded(m, e, "NONE", [state |-> "COMPLETED", shift |-> NoShift,
                             last |-> Len(log[m]) + 1])
  /\ e.action = "AUTO_CLOCK_OUT" /\ e.decision = "APPROVED" /\ e.shift \in Shifts
  /\ StillOpen(m, e.shift) /\ ~AutoRecorded(m, e.shift)
  /\ \E w \in Workers : \E c \in batch[w] : e.policy = c.policy
AutoStep == \E m \in Members, e \in Event : AutoClosed(m, e)

DecideStep ==
  \E m \in Members : \E i \in DOMAIN log[m] :
    \E d \in {"APPROVED", "REJECTED"} : Decide(m, i, d)

\* An accepted submission is one event, recorded now under the policy in force.
LEMMA SubmitAppends ==
  ASSUME TypeOK, NEW m \in Members, NEW k \in Keys, NEW action \in ActionTypes,
         NEW s \in Shifts \cup {NoShift}, Submit(m, k, action, s)
  PROVE  SubmitStep
  PROOF
  <1>1. PICK shift \in ResolvedShifts(m, s),
             n \in IF NeedsQR(policies[inForce], action) THEN UsableNonces(m)
                                                         ELSE {NoNonce} :
          LET p        == policies[inForce]
              decision == IF NeedsApproval(p, shift, action, now) THEN "PENDING"
                                                                  ELSE "APPROVED"
              next     == NextState(action, decision)
              event    == [action |-> action, decision |-> decision, at |-> now,
                           shift |-> shift, policy |-> inForce, nonce |-> n]
          IN  /\ log' = [log EXCEPT ![m] = Append(@, event)]
              /\ review' = [review EXCEPT ![m] =
                   Append(@, IF decision = "PENDING" THEN "PENDING" ELSE "NONE")]
              /\ row' = [row EXCEPT ![m] =
                   [state |-> next,
                    shift |-> IF next \in {"COMPLETED", "PENDING"} THEN NoShift
                                                                  ELSE shift,
                    last  |-> Len(log[m]) + 1]]
    BY DEF Submit
  <1> DEFINE decision == IF NeedsApproval(policies[inForce], shift, action, now)
                         THEN "PENDING" ELSE "APPROVED"
             r == IF decision = "PENDING" THEN "PENDING" ELSE "NONE"
             e == [action |-> action, decision |-> decision, at |-> now,
                   shift |-> shift, policy |-> inForce, nonce |-> n]
  <1>2. inForce \in PolicyIds
    BY DEF Submit, TypeOK
  <1>3. shift \in Shifts \cup {NoShift}
    BY DEF ResolvedShifts, Nearby, Available, TypeOK
  <1>4. n \in Nonces \cup {NoNonce}
    BY DEF UsableNonces
  <1>5. e \in Event
    BY <1>2, <1>3, <1>4 DEF Event, TypeOK
  <1>6. r = "PENDING" => action \in Reviewable
    BY DEF NeedsApproval, Reviewable
  <1>7. Recorded(m, e, r, SubmittedRow(m, e))
    BY <1>1 DEF Recorded, SubmittedRow
  <1>8. /\ action \in Accepts(row[m].state) /\ UNCHANGED policies
        /\ action = "CLOCK_IN" => ~ClockInRecordedToday(m)
    BY DEF Submit
  <1>9. Submitted(m, e, r)
    BY <1>2, <1>6, <1>7, <1>8 DEF Submitted
  <1> QED
    BY <1>5, <1>9 DEF SubmitStep

\* A handled candidate is closed, or nothing but the batch changes.
LEMMA AutoCloses ==
  ASSUME TypeOK, NEW w \in Workers, NEW c \in batch[w], AutoClockOut(w, c)
  PROVE  AutoStep \/ UNCHANGED <<log, review, row>>
  PROOF
  <1> DEFINE m == c.member
             e == [action |-> "AUTO_CLOCK_OUT", decision |-> "APPROVED",
                   at |-> c.cutoff, shift |-> c.shift, policy |-> c.policy,
                   nonce |-> NoNonce]
  <1>1. c \in Candidate
    BY DEF TypeOK
  <1>2. m \in Members /\ e \in Event
    BY <1>1 DEF Candidate, Event
  <1>3. CASE StillOpen(m, c.shift) /\ ~AutoRecorded(m, c.shift)
    <2>1. AutoClosed(m, e)
      BY <1>1, <1>3 DEF AutoClockOut, AutoClosed, Recorded, Candidate
    <2> QED
      BY <2>1, <1>2 DEF AutoStep
  <1>4. CASE ~(StillOpen(m, c.shift) /\ ~AutoRecorded(m, c.shift))
    BY <1>4 DEF AutoClockOut
  <1> QED
    BY <1>3, <1>4

\* Every step is of one of the three kinds or leaves the log, the reviews and
\* the rows alone.
LEMMA StepKinds ==
  ASSUME TypeOK, [Next]_vars
  PROVE  SubmitStep \/ AutoStep \/ DecideStep \/ UNCHANGED <<log, review, row>>
  PROOF
  <1>1. CASE MemberStep
    BY <1>1, SubmitAppends DEF MemberStep
  <1>2. CASE ManagerStep
    BY <1>2 DEF ManagerStep, DecideStep
  <1>3. ASSUME NEW w \in Workers, WorkerStep(w) \/ RestartWorker(w)
        PROVE  AutoStep \/ UNCHANGED <<log, review, row>>
    BY <1>3, AutoCloses DEF WorkerStep, ReadCandidates, RestartWorker
  <1>4. CASE AdminStep
    BY <1>4 DEF AdminStep, IssueDynamicQR, CreatePolicy, UpdatePolicy, ArchivePolicy,
                PublishShift, UnpublishShift
  <1>5. CASE Tick
    BY <1>5 DEF Tick
  <1>6. CASE UNCHANGED vars
    BY <1>6 DEF vars
  <1> QED
    BY <1>1, <1>2, <1>3, <1>4, <1>5, <1>6 DEF Next

-----------------------------------------------------------------------------
(* The initial state *)

LEMMA InitIInv == Init => IInv
  PROOF
  <1> SUFFICES ASSUME Init PROVE IInv
    OBVIOUS
  <1>1. TypeOK
    <2>1. policies \in [PolicyIds -> PolicyRow \cup {NoPolicy}]
      BY PoliciesAreRows DEF Init
    <2>2. inForce \in PolicyIds \cup {NoPolicy}
      BY PoliciesAreRows DEF Init
    <2>3. log \in [Members -> Seq(Event)] /\ review \in [Members -> Seq(Reviews)]
      BY DEF Init
    <2>4. row \in [Members -> [state: States, shift: Shifts \cup {NoShift}, last: Nat]]
      BY DEF Init, States
    <2> QED
      BY <2>1, <2>2, <2>3, <2>4 DEF Init, TypeOK
  <1>2. PoliciesExist
    BY PoliciesAreRows DEF Init, PoliciesExist
  <1>3. RowMatchesLog
    BY DEF Init, RowMatchesLog, StateAfter
  <1> QED
    BY <1>1, <1>2, <1>3
    DEF Init, IInv, OnlyLastEventPends, RequestsAreReviewable, OpenOnLastShift

-----------------------------------------------------------------------------
(* Types *)

\* What the worker reads of a member that is due has the types of a candidate.
LEMMA DueIsTyped ==
  ASSUME IInv, NEW m \in Members, Due(m)
  PROVE  /\ row[m].shift \in Shifts
         /\ Len(log[m]) \in DOMAIN log[m] /\ row[m].last = Len(log[m])
         /\ log[m][row[m].last].policy \in PolicyIds
         /\ policies[log[m][row[m].last].policy] # NoPolicy
         /\ Cutoff(m) \in Nat
  PROOF
  <1>1. row[m].shift \in Shifts
    BY DEF IInv, TypeOK, Due
  <1>2. Len(log[m]) \in DOMAIN log[m] /\ row[m].last = Len(log[m])
    BY DEF IInv, TypeOK, Due, RowMatchesLog, StateAfter
  <1>3. log[m][row[m].last] \in Event
    BY <1>2 DEF IInv, TypeOK
  <1>4. log[m][row[m].last].policy \in PolicyIds
    BY <1>3 DEF Event
  <1>5. policies[log[m][row[m].last].policy] # NoPolicy
    BY <1>2 DEF IInv, PoliciesExist
  <1>6. policies[log[m][row[m].last].policy] \in PolicyRow
    BY <1>4, <1>5 DEF IInv, TypeOK
  <1>7. policies[log[m][row[m].last].policy].lateOut \in Nat
    BY <1>6 DEF PolicyRow
  <1>8. ShiftEnd[row[m].shift] \in Nat
    BY <1>1, ShiftsAreTimed
  <1> QED
    BY <1>1, <1>2, <1>4, <1>5, <1>7, <1>8 DEF Cutoff

\* Recording an event keeps the types of the log, the reviews and the rows.
LEMMA RecordedTypes ==
  ASSUME TypeOK, NEW m \in Members, NEW e \in Event, NEW r \in Reviews,
         NEW st \in [state: States, shift: Shifts \cup {NoShift}, last: Nat],
         Recorded(m, e, r, st)
  PROVE  /\ log' \in [Members -> Seq(Event)] /\ review' \in [Members -> Seq(Reviews)]
         /\ row' \in [Members -> [state: States, shift: Shifts \cup {NoShift}, last: Nat]]
  PROOF
  <1>1. Append(log[m], e) \in Seq(Event) /\ Append(review[m], r) \in Seq(Reviews)
    BY AppendFacts DEF TypeOK
  <1> QED
    BY <1>1 DEF TypeOK, Recorded

LEMMA LogTypes ==
  ASSUME TypeOK, RowMatchesLog,
         SubmitStep \/ AutoStep \/ DecideStep \/ UNCHANGED <<log, review, row>>
  PROVE  /\ log' \in [Members -> Seq(Event)] /\ review' \in [Members -> Seq(Reviews)]
         /\ row' \in [Members -> [state: States, shift: Shifts \cup {NoShift}, last: Nat]]
  PROOF
  <1>1. CASE SubmitStep
    <2>1. PICK m \in Members, e \in Event, r \in {"NONE", "PENDING"} : Submitted(m, e, r)
      BY <1>1 DEF SubmitStep
    <2>2. NextState(e.action, e.decision) \in States
      BY DEF NextState, ApprovedState, States
    <2>3. e.shift \in Shifts \cup {NoShift} /\ Len(log[m]) + 1 \in Nat
      BY DEF TypeOK, Event
    <2>4. SubmittedRow(m, e) \in [state: States, shift: Shifts \cup {NoShift}, last: Nat]
      BY <2>2, <2>3 DEF SubmittedRow
    <2> QED
      BY <2>1, <2>4, RecordedTypes DEF Submitted, Reviews
  <1>2. CASE AutoStep
    <2>1. PICK m \in Members, e \in Event : AutoClosed(m, e)
      BY <1>2 DEF AutoStep
    <2>2. [state |-> "COMPLETED", shift |-> NoShift, last |-> Len(log[m]) + 1]
            \in [state: States, shift: Shifts \cup {NoShift}, last: Nat]
      BY DEF TypeOK, States
    <2> QED
      BY <2>1, <2>2, RecordedTypes DEF AutoClosed, Reviews
  <1>3. CASE DecideStep
    <2>0. PICK m \in Members : \E i \in DOMAIN log[m] :
            \E d \in {"APPROVED", "REJECTED"} : Decide(m, i, d)
      BY <1>3 DEF DecideStep
    <2>1. PICK i \in DOMAIN log[m], d \in {"APPROVED", "REJECTED"} : Decide(m, i, d)
      BY <2>0
    <2>2. log[m][i] \in Event /\ i \in Nat
      BY DEF TypeOK
    <2>3. DecidedRow(log[m][i], i, d)
            \in [state: States, shift: Shifts \cup {NoShift}, last: Nat]
      BY <2>2 DEF DecidedRow, ApprovedState, States, Event
    <2>4. row' \in [Members -> [state: States, shift: Shifts \cup {NoShift}, last: Nat]]
      BY <2>1, <2>3 DEF Decide, TypeOK
    <2>5. [review[m] EXCEPT ![i] = d] \in Seq(Reviews)
      <3>1. i \in DOMAIN review[m] /\ review[m] \in Seq(Reviews) /\ d \in Reviews
        BY DEF TypeOK, RowMatchesLog, Reviews
      <3> QED
        BY <3>1, ExceptFacts
    <2>6. review' \in [Members -> Seq(Reviews)]
      BY <2>1, <2>5 DEF Decide, TypeOK
    <2> QED
      BY <2>1, <2>4, <2>6 DEF Decide, TypeOK
  <1>4. CASE UNCHANGED <<log, review, row>>
    BY <1>4 DEF TypeOK
  <1> QED
    BY <1>1, <1>2, <1>3, <1>4

LEMMA TypesStay == IInv /\ [Next]_vars => TypeOK'
  PROOF
  <1> SUFFICES ASSUME IInv, [Next]_vars PROVE TypeOK'
    OBVIOUS
  <1>t. TypeOK /\ RowMatchesLog
    BY DEF IInv
  <1>1. /\ log' \in [Members -> Seq(Event)] /\ review' \in [Members -> Seq(Reviews)]
        /\ row' \in [Members -> [state: States, shift: Shifts \cup {NoShift}, last: Nat]]
    BY <1>t, StepKinds, LogTypes
  <1>2. CASE MemberStep
    <2>1. PICK m \in Members, k \in Keys, a \in ActionTypes, s \in Shifts \cup {NoShift} :
            Submit(m, k, a, s)
      BY <1>2 DEF MemberStep
    <2>2. response' \in [Members -> [Keys -> Nat]]
      <3>1. Len(log[m]) + 1 \in Nat
        BY <1>t DEF TypeOK
      <3>2. response' = [response EXCEPT ![m][k] = Len(log[m]) + 1]
        BY <2>1 DEF Submit
      <3> QED
        BY <1>t, <3>1, <3>2 DEF TypeOK
    <2>3. qrUsed' \subseteq Nonces \X Members
      <3>1. PICK shift \in ResolvedShifts(m, s),
                 n \in IF NeedsQR(policies[inForce], a) THEN UsableNonces(m) ELSE {NoNonce} :
              qrUsed' = IF n = NoNonce THEN qrUsed ELSE qrUsed \cup {<<n, m>>}
        BY <2>1 DEF Submit
      <3>2. n \in Nonces \cup {NoNonce}
        BY DEF UsableNonces
      <3> QED
        BY <1>t, <3>1, <3>2 DEF TypeOK
    <2> QED
      BY <1>t, <1>1, <2>1, <2>2, <2>3 DEF Submit, TypeOK
  <1>3. CASE ManagerStep
    BY <1>t, <1>1, <1>3 DEF ManagerStep, Decide, TypeOK
  <1>4. ASSUME NEW w \in Workers, WorkerStep(w) \/ RestartWorker(w)
        PROVE  TypeOK'
    <2>1. batch' \in [Workers -> SUBSET Candidate]
      <3>1. CASE ReadCandidates(w)
        <4>1. {[member |-> m, shift |-> row[m].shift, cutoff |-> Cutoff(m),
                policy |-> log[m][row[m].last].policy] : m \in {x \in Members : Due(x)}}
                 \subseteq Candidate
          BY DueIsTyped DEF Candidate
        <4> QED
          BY <1>t, <3>1, <4>1 DEF ReadCandidates, TypeOK
      <3>2. ASSUME NEW c \in batch[w], AutoClockOut(w, c)
            PROVE  batch' \in [Workers -> SUBSET Candidate]
        BY <1>t, <3>2 DEF AutoClockOut, TypeOK
      <3>3. CASE RestartWorker(w)
        BY <1>t, <3>3 DEF RestartWorker, TypeOK
      <3> QED
        BY <1>4, <3>1, <3>2, <3>3 DEF WorkerStep
    <2> QED
      BY <1>t, <1>1, <1>4, <2>1
      DEF WorkerStep, ReadCandidates, AutoClockOut, RestartWorker, TypeOK
  <1>5. CASE AdminStep
    <2>1. ASSUME NEW n \in Nonces, IssueDynamicQR(n) PROVE TypeOK'
      BY <1>t, <1>1, <2>1, BoundsAreNatural DEF IssueDynamicQR, TypeOK
    <2>2. ASSUME NEW p \in PolicyIds, NEW input \in PolicyInputs, CreatePolicy(p, input)
          PROVE  TypeOK'
      <3>1. [input EXCEPT !.auto = FALSE] \in PolicyRow
        BY PoliciesAreRows DEF PolicyRow
      <3> QED
        BY <1>t, <1>1, <2>2, <3>1 DEF CreatePolicy, TypeOK
    <2>3. ASSUME NEW input \in PolicyInputs, UpdatePolicy(input) PROVE TypeOK'
      <3>1. policies[inForce] \in PolicyRow
        BY <2>3 DEF UpdatePolicy, IInv, TypeOK, PoliciesExist
      <3>2. [input EXCEPT !.auto = policies[inForce].auto] \in PolicyRow
        BY <3>1, PoliciesAreRows DEF PolicyRow
      <3> QED
        BY <1>t, <1>1, <2>3, <3>2 DEF UpdatePolicy, TypeOK
    <2>4. ASSUME ArchivePolicy PROVE TypeOK'
      BY <1>t, <1>1, <2>4 DEF ArchivePolicy, TypeOK
    <2>5. ASSUME NEW s \in Shifts, PublishShift(s) \/ UnpublishShift(s) PROVE TypeOK'
      BY <1>t, <1>1, <2>5 DEF PublishShift, UnpublishShift, TypeOK
    <2> QED
      BY <1>5, <2>1, <2>2, <2>3, <2>4, <2>5 DEF AdminStep
  <1>6. CASE Tick
    BY <1>t, <1>1, <1>6 DEF Tick, TypeOK
  <1>7. CASE UNCHANGED vars
    BY <1>t, <1>7 DEF vars, TypeOK
  <1> QED
    BY <1>2, <1>3, <1>4, <1>5, <1>6, <1>7 DEF Next

-----------------------------------------------------------------------------
(* Policies *)

\* No step takes a policy away; the one in force stays a created one.
LEMMA PoliciesStay ==
  ASSUME IInv, [Next]_vars
  PROVE  /\ \A p \in PolicyIds : policies[p] # NoPolicy => policies'[p] # NoPolicy
         /\ inForce' # NoPolicy => policies'[inForce'] # NoPolicy
  PROOF
  <1>t. TypeOK /\ PoliciesExist
    BY DEF IInv
  <1>1. ASSUME NEW p \in PolicyIds, NEW input \in PolicyInputs, CreatePolicy(p, input)
        PROVE  /\ \A q \in PolicyIds : policies[q] # NoPolicy => policies'[q] # NoPolicy
               /\ inForce' # NoPolicy => policies'[inForce'] # NoPolicy
    <2>1. [input EXCEPT !.auto = FALSE] \in PolicyRow
      BY PoliciesAreRows DEF PolicyRow
    <2>2. [input EXCEPT !.auto = FALSE] # NoPolicy
      BY <2>1, PoliciesAreRows
    <2> QED
      BY <1>t, <1>1, <2>2 DEF CreatePolicy, TypeOK
  <1>2. ASSUME NEW input \in PolicyInputs, UpdatePolicy(input)
        PROVE  /\ \A q \in PolicyIds : policies[q] # NoPolicy => policies'[q] # NoPolicy
               /\ inForce' # NoPolicy => policies'[inForce'] # NoPolicy
    <2>1. policies[inForce] \in PolicyRow
      BY <1>t, <1>2 DEF UpdatePolicy, TypeOK, PoliciesExist
    <2>2. [input EXCEPT !.auto = policies[inForce].auto] \in PolicyRow
      BY <2>1, PoliciesAreRows DEF PolicyRow
    <2>3. [input EXCEPT !.auto = policies[inForce].auto] # NoPolicy
      BY <2>2, PoliciesAreRows
    <2> QED
      BY <1>t, <1>2, <2>3 DEF UpdatePolicy, TypeOK
  <1>3. CASE UNCHANGED <<policies, inForce>> \/ ArchivePolicy
    BY <1>t, <1>3 DEF ArchivePolicy, PoliciesExist
  <1> QED
    BY <1>1, <1>2, <1>3
    DEF Next, vars, MemberStep, Submit, ManagerStep, Decide, WorkerStep, ReadCandidates,
        AutoClockOut, RestartWorker, AdminStep, IssueDynamicQR, PublishShift,
        UnpublishShift, Tick

LEMMA PoliciesExistStay == IInv /\ [Next]_vars => PoliciesExist'
  PROOF
  <1> SUFFICES ASSUME IInv, [Next]_vars PROVE PoliciesExist'
    OBVIOUS
  <1>t. TypeOK /\ PoliciesExist /\ RowMatchesLog /\ TypeOK'
    BY TypesStay DEF IInv
  <1>1. SubmitStep \/ AutoStep \/ DecideStep \/ UNCHANGED <<log, review, row>>
    BY <1>t, StepKinds
  <1>2. \A m \in Members : \A i \in DOMAIN log'[m] : policies[log'[m][i].policy] # NoPolicy
    <2>1. ASSUME NEW m \in Members, NEW e \in Event, policies[e.policy] # NoPolicy,
                 log' = [log EXCEPT ![m] = Append(@, e)]
          PROVE  \A x \in Members : \A i \in DOMAIN log'[x] :
                   policies[log'[x][i].policy] # NoPolicy
      <3>1. log \in [Members -> Seq(Event)]
        BY <1>t DEF TypeOK
      <3>2. \A i \in DOMAIN log'[m] : policies[log'[m][i].policy] # NoPolicy
        BY <1>t, <2>1, <3>1, AppendFacts DEF PoliciesExist
      <3> QED
        BY <1>t, <2>1, <3>1, <3>2 DEF PoliciesExist
    <2>2. CASE SubmitStep
      <3>1. PICK m \in Members, e \in Event, r \in {"NONE", "PENDING"} : Submitted(m, e, r)
        BY <2>2 DEF SubmitStep
      <3>2. policies[e.policy] # NoPolicy
        BY <1>t, <3>1, PoliciesAreRows DEF Submitted, PoliciesExist
      <3> QED
        BY <2>1, <3>1, <3>2 DEF Submitted, Recorded
    <2>3. CASE AutoStep
      <3>1. PICK m \in Members, e \in Event : AutoClosed(m, e)
        BY <2>3 DEF AutoStep
      <3>2. policies[e.policy] # NoPolicy
        BY <1>t, <3>1 DEF AutoClosed, PoliciesExist
      <3> QED
        BY <2>1, <3>1, <3>2 DEF AutoClosed, Recorded
    <2>4. CASE DecideStep \/ UNCHANGED <<log, review, row>>
      BY <1>t, <2>4 DEF DecideStep, Decide, PoliciesExist
    <2> QED
      BY <1>1, <2>2, <2>3, <2>4
  <1>3. \A m \in Members : \A i \in DOMAIN log'[m] : policies'[log'[m][i].policy] # NoPolicy
    <2>1. \A m \in Members : \A i \in DOMAIN log'[m] : log'[m][i] \in Event
      BY <1>t DEF TypeOK
    <2> QED
      BY <1>2, <2>1, PoliciesStay DEF Event
  <1>4. \A w \in Workers : \A c \in batch'[w] : policies[c.policy] # NoPolicy
    <2>1. ASSUME NEW w \in Workers, ReadCandidates(w)
          PROVE  \A v \in Workers : \A c \in batch'[v] : policies[c.policy] # NoPolicy
      <3>1. \A m \in Members : Due(m) => policies[log[m][row[m].last].policy] # NoPolicy
        BY DueIsTyped
      <3>2. \A c \in batch'[w] : policies[c.policy] # NoPolicy
        BY <1>t, <2>1, <3>1 DEF ReadCandidates, TypeOK
      <3> QED
        BY <1>t, <2>1, <3>2 DEF ReadCandidates, TypeOK, PoliciesExist
    <2>2. ASSUME NEW w \in Workers, NEW c \in batch[w], AutoClockOut(w, c)
          PROVE  \A v \in Workers : \A x \in batch'[v] : policies[x.policy] # NoPolicy
      <3>1. \A v \in Workers : batch'[v] \subseteq batch[v]
        BY <1>t, <2>2 DEF AutoClockOut, TypeOK
      <3> QED
        BY <1>t, <3>1 DEF PoliciesExist
    <2>3. ASSUME NEW w \in Workers, RestartWorker(w)
          PROVE  \A v \in Workers : \A x \in batch'[v] : policies[x.policy] # NoPolicy
      BY <1>t, <2>3 DEF RestartWorker, TypeOK, PoliciesExist
    <2>4. CASE UNCHANGED batch
      BY <1>t, <2>4 DEF PoliciesExist
    <2> QED
      BY <2>1, <2>2, <2>3, <2>4
      DEF Next, vars, MemberStep, Submit, ManagerStep, Decide, WorkerStep, AdminStep,
          IssueDynamicQR, CreatePolicy, UpdatePolicy, ArchivePolicy, PublishShift,
          UnpublishShift, Tick
  <1>5. \A w \in Workers : \A c \in batch'[w] : policies'[c.policy] # NoPolicy
    <2>1. \A w \in Workers : \A c \in batch'[w] : c \in Candidate
      BY <1>t DEF TypeOK
    <2> QED
      BY <1>4, <2>1, PoliciesStay DEF Candidate
  <1> QED
    BY <1>3, <1>5, PoliciesStay DEF PoliciesExist

-----------------------------------------------------------------------------
(* The row, the log and the requests *)

\* A member without an undecided request has none anywhere in the log.
LEMMA NothingPends ==
  ASSUME IInv, NEW m \in Members, row[m].state # "PENDING"
  PROVE  \A i \in DOMAIN review[m] : review[m][i] # "PENDING"
  BY DEF IInv, OnlyLastEventPends

\* What the invariant says of one member.
MemberInv(m) ==
  /\ row[m].last = Len(log[m]) /\ Len(review[m]) = Len(log[m])
  /\ row[m].state = StateAfter(m, Len(log[m]))
  /\ \A i \in DOMAIN review[m] :
       review[m][i] = "PENDING" => i = row[m].last /\ row[m].state = "PENDING"
  /\ \A i \in DOMAIN log[m] :
       /\ review[m][i] # "NONE" => log[m][i].action \in Reviewable
       /\ review[m][i] = "NONE" => log[m][i].decision = "APPROVED"
  /\ row[m].state \in {"WORKING", "ON_BREAK"} => row[m].shift = log[m][Len(log[m])].shift

LEMMA MemberInvs ==
  RowMatchesLog /\ OnlyLastEventPends /\ RequestsAreReviewable /\ OpenOnLastShift
    <=> \A m \in Members : MemberInv(m)
  BY DEF RowMatchesLog, OnlyLastEventPends, RequestsAreReviewable, OpenOnLastShift, MemberInv

\* A recorded event keeps it, if no request was open, if only a reviewable
\* event opens one, and if the row is what the event comes to.
LEMMA RecordedKeeps ==
  ASSUME IInv, NEW m \in Members, NEW e \in Event, NEW r \in {"NONE", "PENDING"},
         NEW st \in [state: States, shift: Shifts \cup {NoShift}, last: Nat],
         Recorded(m, e, r, st), row[m].state # "PENDING",
         st.last = Len(log[m]) + 1, st.state = Outcome(e, r),
         st.state \in {"WORKING", "ON_BREAK"} => st.shift = e.shift,
         r = "PENDING" => e.action \in Reviewable,
         r = "NONE" => e.decision = "APPROVED"
  PROVE  \A x \in Members : MemberInv(x)'
  PROOF
  <1>t. /\ log \in [Members -> Seq(Event)] /\ review \in [Members -> Seq(Reviews)]
        /\ row \in [Members -> [state: States, shift: Shifts \cup {NoShift}, last: Nat]]
        /\ \A x \in Members : MemberInv(x)
    BY MemberInvs DEF IInv, TypeOK
  <1>1. ASSUME NEW x \in Members, x # m PROVE MemberInv(x)'
    BY <1>t, <1>1 DEF Recorded, MemberInv, StateAfter
  <1>2. MemberInv(m)'
    <2>1. /\ log'[m] = Append(log[m], e) /\ review'[m] = Append(review[m], r)
          /\ row'[m] = st
      BY <1>t DEF Recorded
    <2>2. /\ Len(log'[m]) = Len(log[m]) + 1 /\ DOMAIN log'[m] = 1 .. (Len(log[m]) + 1)
          /\ \A i \in 1 .. Len(log[m]) : log'[m][i] = log[m][i]
          /\ log'[m][Len(log[m]) + 1] = e
          /\ DOMAIN log[m] = 1 .. Len(log[m]) /\ Len(log[m]) \in Nat
      BY <1>t, <2>1, AppendFacts
    <2>3. /\ Len(review'[m]) = Len(log[m]) + 1 /\ DOMAIN review'[m] = 1 .. (Len(log[m]) + 1)
          /\ \A i \in 1 .. Len(log[m]) : review'[m][i] = review[m][i]
          /\ review'[m][Len(log[m]) + 1] = r
          /\ DOMAIN review[m] = 1 .. Len(log[m])
      <3>1. Len(review[m]) = Len(log[m]) /\ review[m] \in Seq(Reviews) /\ r \in Reviews
        BY <1>t DEF MemberInv, Reviews
      <3> QED
        BY <2>1, <3>1, AppendFacts
    <2>4. row'[m].last = Len(log'[m]) /\ Len(review'[m]) = Len(log'[m])
      BY <2>1, <2>2, <2>3
    <2>5. row'[m].state = StateAfter(m, Len(log[m]))'
      BY <2>1, <2>2, <2>3 DEF StateAfter, Outcome
    <2>6. \A i \in DOMAIN review'[m] :
            review'[m][i] = "PENDING" => i = row'[m].last /\ row'[m].state = "PENDING"
      <3>1. ASSUME NEW i \in DOMAIN review'[m], review'[m][i] = "PENDING"
            PROVE  i = Len(log[m]) + 1 /\ r = "PENDING"
        <4>1. CASE i \in 1 .. Len(log[m])
          BY <2>3, <3>1, <4>1, NothingPends
        <4>2. CASE i = Len(log[m]) + 1
          BY <2>3, <3>1, <4>2
        <4> QED
          BY <2>2, <2>3, <4>1, <4>2
      <3>2. r = "PENDING" => st.state = "PENDING"
        BY DEF Outcome
      <3> QED
        BY <2>1, <3>1, <3>2
    <2>7. \A i \in DOMAIN log'[m] :
            /\ review'[m][i] # "NONE" => log'[m][i].action \in Reviewable
            /\ review'[m][i] = "NONE" => log'[m][i].decision = "APPROVED"
      <3> TAKE i \in DOMAIN log'[m]
      <3>1. CASE i \in 1 .. Len(log[m])
        <4>1. /\ review[m][i] # "NONE" => log[m][i].action \in Reviewable
              /\ review[m][i] = "NONE" => log[m][i].decision = "APPROVED"
          BY <1>t, <2>2, <3>1 DEF MemberInv
        <4>2. log'[m][i] = log[m][i] /\ review'[m][i] = review[m][i]
          BY <2>2, <2>3, <3>1
        <4> QED
          BY <4>1, <4>2
      <3>2. CASE i = Len(log[m]) + 1
        BY <2>2, <2>3, <3>2
      <3> QED
        BY <2>2, <3>1, <3>2
    <2>8. row'[m].state \in {"WORKING", "ON_BREAK"} => row'[m].shift = log'[m][Len(log'[m])].shift
      BY <2>1, <2>2
    <2> QED
      BY <2>4, <2>5, <2>6, <2>7, <2>8 DEF MemberInv
  <1> QED
    BY <1>1, <1>2

\* A decision falls on the last event, and makes of the row what it says.
LEMMA DecideKeeps ==
  ASSUME IInv, NEW m \in Members, NEW i \in DOMAIN log[m],
         NEW d \in {"APPROVED", "REJECTED"}, Decide(m, i, d)
  PROVE  /\ \A x \in Members : MemberInv(x)'
         /\ i = Len(log[m])
         /\ Len(review'[m]) = Len(review[m])
         /\ \A j \in DOMAIN log[m] : review'[m][j] = IF j = i THEN d ELSE review[m][j]
         /\ \A x \in Members : x # m => review'[x] = review[x]
  PROOF
  <1>t. /\ log \in [Members -> Seq(Event)] /\ review \in [Members -> Seq(Reviews)]
        /\ row \in [Members -> [state: States, shift: Shifts \cup {NoShift}, last: Nat]]
        /\ \A x \in Members : MemberInv(x)
    BY MemberInvs DEF IInv, TypeOK
  <1>1. DOMAIN log[m] = 1 .. Len(log[m]) /\ DOMAIN review[m] = DOMAIN log[m]
    BY <1>t DEF MemberInv
  <1>2. i = Len(log[m]) /\ row[m].state = "PENDING" /\ row[m].last = i
    BY <1>t, <1>1 DEF Decide, Undecided, MemberInv
  <1>3. /\ Len(review'[m]) = Len(review[m]) /\ DOMAIN review'[m] = DOMAIN review[m]
        /\ \A j \in DOMAIN log[m] : review'[m][j] = IF j = i THEN d ELSE review[m][j]
    <2>1. review[m] \in Seq(Reviews) /\ i \in DOMAIN review[m] /\ d \in Reviews
      BY <1>t, <1>1 DEF Reviews
    <2>2. review'[m] = [review[m] EXCEPT ![i] = d]
      BY <1>t DEF Decide
    <2> QED
      BY <1>1, <2>1, <2>2, ExceptFacts
  <1>4. \A x \in Members : x # m => review'[x] = review[x] /\ row'[x] = row[x]
    BY <1>t DEF Decide
  <1>5. row'[m] = DecidedRow(log[m][i], i, d) /\ log' = log
    BY <1>t, <1>2 DEF Decide
  <1>6. ASSUME NEW x \in Members, x # m PROVE MemberInv(x)'
    BY <1>t, <1>4, <1>5, <1>6 DEF MemberInv, StateAfter
  <1>7. MemberInv(m)'
    <2>1. log[m][i].action \in Reviewable
      BY <1>t DEF Decide, Undecided, MemberInv
    <2>2. row'[m].last = Len(log'[m]) /\ Len(review'[m]) = Len(log'[m])
      BY <1>t, <1>2, <1>3, <1>5 DEF MemberInv, DecidedRow
    <2>3. row'[m].state = StateAfter(m, Len(log[m]))'
      <3>1. Len(log'[m]) # 0 /\ log'[m][i] = log[m][i] /\ review'[m][i] = d
        BY <1>1, <1>2, <1>3, <1>5
      <3>2. DecidedRow(log[m][i], i, d).state = Outcome(log[m][i], d)
        BY <2>1 DEF DecidedRow, ApprovedState, Outcome, Reviewable
      <3> QED
        BY <1>2, <1>5, <3>1, <3>2 DEF StateAfter
    <2>4. \A j \in DOMAIN review'[m] : review'[m][j] # "PENDING"
      BY <1>t, <1>1, <1>2, <1>3 DEF MemberInv
    <2>5. \A j \in DOMAIN log'[m] :
            /\ review'[m][j] # "NONE" => log'[m][j].action \in Reviewable
            /\ review'[m][j] = "NONE" => log'[m][j].decision = "APPROVED"
      BY <1>t, <1>3, <1>5, <2>1 DEF MemberInv
    <2>6. row'[m].state \in {"WORKING", "ON_BREAK"} =>
            row'[m].shift = log'[m][Len(log'[m])].shift
      BY <1>2, <1>5, <2>1 DEF DecidedRow, ApprovedState, Reviewable
    <2> QED
      BY <1>5, <2>2, <2>3, <2>4, <2>5, <2>6 DEF MemberInv
  <1> QED
    BY <1>2, <1>3, <1>4, <1>6, <1>7

LEMMA MemberInvsStay == IInv /\ [Next]_vars => \A m \in Members : MemberInv(m)'
  PROOF
  <1> SUFFICES ASSUME IInv, [Next]_vars PROVE \A m \in Members : MemberInv(m)'
    OBVIOUS
  <1>t. TypeOK /\ \A m \in Members : MemberInv(m)
    BY MemberInvs DEF IInv
  <1>1. SubmitStep \/ AutoStep \/ DecideStep \/ UNCHANGED <<log, review, row>>
    BY <1>t, StepKinds
  <1>2. CASE SubmitStep
    <2>1. PICK m \in Members, e \in Event, r \in {"NONE", "PENDING"} : Submitted(m, e, r)
      BY <1>2 DEF SubmitStep
    <2>2. row[m].state # "PENDING"
      BY <2>1 DEF Submitted, Accepts
    <2>3. NextState(e.action, e.decision) = Outcome(e, r)
      <3>1. e.action \in ActionTypes /\ e.decision = IF r = "PENDING" THEN "PENDING"
                                                                   ELSE "APPROVED"
        BY <2>1 DEF Submitted
      <3>2. CASE r = "PENDING"
        BY <3>1, <3>2 DEF NextState, Outcome
      <3>3. CASE r = "NONE"
        <4>1. NextState(e.action, e.decision) = ApprovedState(e.action)
          BY <3>1, <3>3 DEF NextState
        <4>2. ApprovedState(e.action) = Outcome(e, r)
          BY <3>1, <3>3 DEF ApprovedState, Outcome, ActionTypes
        <4> QED
          BY <4>1, <4>2
      <3> QED
        BY <3>2, <3>3
    <2>4. Outcome(e, r) \in States
      BY DEF Outcome, States
    <2>5. SubmittedRow(m, e) \in [state: States, shift: Shifts \cup {NoShift}, last: Nat]
      <3>1. e.shift \in Shifts \cup {NoShift} /\ Len(log[m]) + 1 \in Nat
        BY <1>t DEF TypeOK, Event
      <3> QED
        BY <2>3, <2>4, <3>1 DEF SubmittedRow
    <2>6. /\ SubmittedRow(m, e).last = Len(log[m]) + 1
          /\ SubmittedRow(m, e).state = Outcome(e, r)
          /\ SubmittedRow(m, e).state \in {"WORKING", "ON_BREAK"} =>
               SubmittedRow(m, e).shift = e.shift
      BY <2>3 DEF SubmittedRow
    <2> QED
      BY <2>1, <2>2, <2>5, <2>6, RecordedKeeps DEF Submitted
  <1>3. CASE AutoStep
    <2>1. PICK m \in Members, e \in Event : AutoClosed(m, e)
      BY <1>3 DEF AutoStep
    <2> DEFINE st == [state |-> "COMPLETED", shift |-> NoShift, last |-> Len(log[m]) + 1]
    <2>2. st \in [state: States, shift: Shifts \cup {NoShift}, last: Nat]
      BY <1>t DEF TypeOK, States
    <2>3. row[m].state # "PENDING" /\ st.state = Outcome(e, "NONE")
      BY <2>1 DEF AutoClosed, StillOpen, Outcome
    <2>4. Recorded(m, e, "NONE", st) /\ e.decision = "APPROVED"
      BY <2>1 DEF AutoClosed
    <2> QED
      BY <2>2, <2>3, <2>4, RecordedKeeps
  <1>4. CASE DecideStep
    BY <1>4, DecideKeeps DEF DecideStep
  <1>5. CASE UNCHANGED <<log, review, row>>
    BY <1>t, <1>5 DEF MemberInv, StateAfter
  <1> QED
    BY <1>1, <1>2, <1>3, <1>4, <1>5

LEMMA IInvStays == IInv /\ [Next]_vars => IInv'
  PROOF
  <1> SUFFICES ASSUME IInv, [Next]_vars PROVE IInv'
    OBVIOUS
  <1>1. (RowMatchesLog /\ OnlyLastEventPends /\ RequestsAreReviewable /\ OpenOnLastShift)'
    BY MemberInvsStay
    DEF MemberInv, RowMatchesLog, OnlyLastEventPends, RequestsAreReviewable, OpenOnLastShift
  <1> QED
    BY <1>1, TypesStay, PoliciesExistStay DEF IInv

\* The invariant holds in every reachable state, for any constants.
THEOREM Invariance == Spec => []IInv
  BY InitIInv, IInvStays, PTL DEF Spec

\* Every column keeps its type.
THEOREM TypeCorrect == Spec => []TypeOK
  <1>1. IInv => TypeOK
    BY DEF IInv
  <1> QED
    BY <1>1, Invariance, PTL

\* The state row always says what the log and its decisions come to.
THEOREM RowIsCache == Spec => []RowMatchesLog
  <1>1. IInv => RowMatchesLog
    BY DEF IInv
  <1> QED
    BY <1>1, Invariance, PTL

\* An undecided request is always the last event of a waiting member.
THEOREM RequestsBlock == Spec => []OnlyLastEventPends
  <1>1. IInv => OnlyLastEventPends
    BY DEF IInv
  <1> QED
    BY <1>1, Invariance, PTL

-----------------------------------------------------------------------------
(* The history *)

\* After a recording, everything is as before except for one new last event.
LEMMA GrowFacts ==
  ASSUME IInv, NEW m \in Members, NEW e \in Event, NEW r \in Reviews, NEW st,
         Recorded(m, e, r, st)
  PROVE  /\ \A x \in Members : x # m => log'[x] = log[x] /\ review'[x] = review[x]
         /\ Len(log[m]) \in Nat /\ DOMAIN log[m] = 1 .. Len(log[m])
         /\ DOMAIN log'[m] = DOMAIN log[m] \cup {Len(log[m]) + 1}
         /\ Len(log[m]) + 1 \notin DOMAIN log[m] /\ Len(log'[m]) = Len(log[m]) + 1
         /\ \A i \in DOMAIN log[m] : log'[m][i] = log[m][i] /\ review'[m][i] = review[m][i]
         /\ log'[m][Len(log[m]) + 1] = e /\ review'[m][Len(log[m]) + 1] = r
  PROOF
  <1>1. /\ log \in [Members -> Seq(Event)] /\ review \in [Members -> Seq(Reviews)]
        /\ Len(review[m]) = Len(log[m])
    BY DEF IInv, TypeOK, RowMatchesLog
  <1>2. log'[m] = Append(log[m], e) /\ review'[m] = Append(review[m], r)
    BY <1>1 DEF Recorded
  <1>3. \A x \in Members : x # m => log'[x] = log[x] /\ review'[x] = review[x]
    BY <1>1 DEF Recorded
  <1>4. /\ Len(log[m]) \in Nat /\ DOMAIN log[m] = 1 .. Len(log[m])
        /\ DOMAIN log'[m] = 1 .. (Len(log[m]) + 1) /\ Len(log'[m]) = Len(log[m]) + 1
        /\ \A i \in DOMAIN log[m] : log'[m][i] = log[m][i]
        /\ log'[m][Len(log[m]) + 1] = e
    BY <1>1, <1>2, AppendFacts
  <1>5. /\ \A i \in 1 .. Len(review[m]) : review'[m][i] = review[m][i]
        /\ review'[m][Len(review[m]) + 1] = r
    BY <1>1, <1>2, AppendFacts
  <1> QED
    BY <1>1, <1>3, <1>4, <1>5

\* Events and settled reviews never change; a member's log grows by at most one
\* event in a step.
LEMMA HistoryStep ==
  ASSUME IInv, [Next]_vars
  PROVE  \A m \in Members :
           /\ Len(log'[m]) >= Len(log[m])
           /\ \A i \in DOMAIN log[m] :
                /\ log'[m][i] = log[m][i]
                /\ review[m][i] # "PENDING" => review'[m][i] = review[m][i]
  PROOF
  <1>t. TypeOK /\ \A m \in Members : Len(log[m]) \in Nat
    BY DEF IInv, TypeOK
  <1>1. SubmitStep \/ AutoStep \/ DecideStep \/ UNCHANGED <<log, review, row>>
    BY <1>t, StepKinds
  <1>2. ASSUME NEW m \in Members, NEW e \in Event, NEW r \in Reviews, NEW st,
               Recorded(m, e, r, st)
        PROVE  \A x \in Members :
                 /\ Len(log'[x]) >= Len(log[x])
                 /\ \A i \in DOMAIN log[x] :
                      /\ log'[x][i] = log[x][i]
                      /\ review[x][i] # "PENDING" => review'[x][i] = review[x][i]
    BY <1>t, <1>2, GrowFacts
  <1>3. CASE SubmitStep
    BY <1>2, <1>3 DEF SubmitStep, Submitted, Reviews
  <1>4. CASE AutoStep
    BY <1>2, <1>4 DEF AutoStep, AutoClosed, Reviews
  <1>5. CASE DecideStep
    <2>1. PICK m \in Members : \E i \in DOMAIN log[m] :
            \E d \in {"APPROVED", "REJECTED"} : Decide(m, i, d)
      BY <1>5 DEF DecideStep
    <2>2. PICK i \in DOMAIN log[m], d \in {"APPROVED", "REJECTED"} : Decide(m, i, d)
      BY <2>1
    <2>3. log' = log /\ review[m][i] = "PENDING"
      BY <2>2 DEF Decide, Undecided
    <2> QED
      BY <1>t, <2>2, <2>3, DecideKeeps
  <1>6. CASE UNCHANGED <<log, review, row>>
    BY <1>t, <1>6
  <1> QED
    BY <1>1, <1>3, <1>4, <1>5, <1>6

\* History is append-only: no step of any actor changes an event, a decision or
\* a stored response.
THEOREM HistoryIsAppendOnly == Spec => HistoryStands
  PROOF
  <1>1. ASSUME IInv, [Next]_vars
        PROVE  [\A m \in Members :
                 /\ Len(log'[m]) >= Len(log[m])
                 /\ \A i \in DOMAIN log[m] :
                      /\ log'[m][i] = log[m][i]
                      /\ review[m][i] # "PENDING" => review'[m][i] = review[m][i]
                 /\ \A k \in Keys : response[m][k] # 0 =>
                      response'[m][k] = response[m][k]]_vars
    <2>1. \A m \in Members, k \in Keys : response[m][k] # 0 => response'[m][k] = response[m][k]
      <3>1. CASE MemberStep
        BY <1>1, <3>1 DEF MemberStep, Submit, Answered, IInv, TypeOK
      <3>2. CASE UNCHANGED response
        BY <3>2
      <3> QED
        BY <1>1, <3>1, <3>2
        DEF Next, vars, ManagerStep, Decide, WorkerStep, ReadCandidates, AutoClockOut,
            RestartWorker, AdminStep, IssueDynamicQR, CreatePolicy, UpdatePolicy,
            ArchivePolicy, PublishShift, UnpublishShift, Tick
    <2> QED
      BY <1>1, <2>1, HistoryStep
  <1> QED
    BY <1>1, Invariance, PTL DEF Spec, HistoryStands

LEMMA OneClockInStays == IInv /\ OneClockInPerDay /\ [Next]_vars => OneClockInPerDay'
  PROOF
  <1> SUFFICES ASSUME IInv, OneClockInPerDay, [Next]_vars PROVE OneClockInPerDay'
    OBVIOUS
  <1>1. SubmitStep \/ AutoStep \/ DecideStep \/ UNCHANGED <<log, review, row>>
    BY StepKinds DEF IInv
  <1>2. CASE SubmitStep
    <2>1. PICK m \in Members, e \in Event, r \in {"NONE", "PENDING"} : Submitted(m, e, r)
      BY <1>2 DEF SubmitStep
    <2>2. Recorded(m, e, r, SubmittedRow(m, e)) /\ r \in Reviews
      BY <2>1 DEF Submitted, Reviews
    <2>n. PICK n : n = Len(log[m]) + 1
      OBVIOUS
    <2>3. \A i \in DOMAIN log[m] : LiveClockIn(m, i)' <=> LiveClockIn(m, i)
      BY <2>2, GrowFacts DEF LiveClockIn, Effective
    <2>4. \A i \in DOMAIN log[m] :
            LiveClockIn(m, n)' /\ LiveClockIn(m, i) => Day(log[m][i].at) # Day(e.at)
      BY <2>1, <2>2, <2>n, GrowFacts DEF LiveClockIn, Submitted, ClockInRecordedToday
    <2>5. \A i, j \in DOMAIN log'[m] :
            LiveClockIn(m, i)' /\ LiveClockIn(m, j)' /\ Day(log'[m][i].at) = Day(log'[m][j].at)
              => i = j
      <3>1. DOMAIN log'[m] = DOMAIN log[m] \cup {n} /\ log'[m][n] = e
        BY <2>2, <2>n, GrowFacts
      <3>2. \A i \in DOMAIN log[m] : log'[m][i] = log[m][i]
        BY <2>2, GrowFacts
      <3> QED
        BY <2>3, <2>4, <3>1, <3>2 DEF OneClockInPerDay
    <2>6. \A x \in Members : x # m => \A i \in DOMAIN log'[x] :
            log'[x] = log[x] /\ (LiveClockIn(x, i)' <=> LiveClockIn(x, i))
      BY <2>2, GrowFacts DEF LiveClockIn, Effective
    <2> QED
      BY <2>5, <2>6 DEF OneClockInPerDay, Day
  <1>3. CASE AutoStep
    <2>1. PICK m \in Members, e \in Event : AutoClosed(m, e)
      BY <1>3 DEF AutoStep
    <2>2. PICK st : Recorded(m, e, "NONE", st)
      BY <2>1 DEF AutoClosed
    <2>3. e.action # "CLOCK_IN"
      BY <2>1 DEF AutoClosed
    <2>4. \A i \in DOMAIN log'[m] : LiveClockIn(m, i)' =>
            i \in DOMAIN log[m] /\ LiveClockIn(m, i) /\ log'[m][i] = log[m][i]
      BY <2>2, <2>3, GrowFacts DEF LiveClockIn, Effective, Reviews
    <2>5. \A x \in Members : x # m => \A i \in DOMAIN log'[x] :
            log'[x] = log[x] /\ (LiveClockIn(x, i)' <=> LiveClockIn(x, i))
      BY <2>2, GrowFacts DEF LiveClockIn, Effective, Reviews
    <2> QED
      BY <2>4, <2>5 DEF OneClockInPerDay, Day
  <1>4. CASE DecideStep
    <2>1. PICK m \in Members : \E i \in DOMAIN log[m] :
            \E d \in {"APPROVED", "REJECTED"} : Decide(m, i, d)
      BY <1>4 DEF DecideStep
    <2>2. PICK i \in DOMAIN log[m], d \in {"APPROVED", "REJECTED"} : Decide(m, i, d)
      BY <2>1
    <2>3. log' = log
      BY <2>2 DEF Decide
    <2>4. log[m][i].decision \in {"APPROVED", "PENDING"} /\ review[m][i] = "PENDING"
      <3>1. log[m][i] \in Event
        BY DEF IInv, TypeOK
      <3> QED
        BY <2>2, <3>1 DEF Decide, Undecided, Event
    <2>5. \A x \in Members : \A j \in DOMAIN log[x] : LiveClockIn(x, j)' => LiveClockIn(x, j)
      BY <2>2, <2>3, <2>4, DecideKeeps DEF LiveClockIn, Effective
    <2> QED
      BY <2>3, <2>5 DEF OneClockInPerDay, Day
  <1>5. CASE UNCHANGED <<log, review, row>>
    BY <1>5 DEF OneClockInPerDay, LiveClockIn, Effective, Day
  <1> QED
    BY <1>1, <1>2, <1>3, <1>4, <1>5

\* However retries, decisions and automatic closings interleave, a member has at
\* most one clock-in that counts on a day.
THEOREM OneClockIn == Spec => []OneClockInPerDay
  PROOF
  <1>1. Init => OneClockInPerDay
    BY DEF Init, OneClockInPerDay
  <1> QED
    BY <1>1, OneClockInStays, Invariance, PTL DEF Spec

\* One event of m's log is legal after those before it.
LegalAt(m, i) ==
  IF log[m][i].action = "AUTO_CLOCK_OUT"
    THEN StateAfter(m, i - 1) \in {"WORKING", "ON_BREAK"} /\ log[m][i].shift = log[m][i-1].shift
    ELSE log[m][i].action \in Accepts(StateAfter(m, i - 1))

LEMMA LegalRunStays == IInv /\ LogIsLegalRun /\ [Next]_vars => LogIsLegalRun'
  PROOF
  <1> SUFFICES ASSUME IInv, LogIsLegalRun, [Next]_vars PROVE LogIsLegalRun'
    OBVIOUS
  <1>t. \A m \in Members : \A i \in DOMAIN log[m] : LegalAt(m, i)
    BY DEF LogIsLegalRun, LegalAt
  <1>1. SubmitStep \/ AutoStep \/ DecideStep \/ UNCHANGED <<log, review, row>>
    BY StepKinds DEF IInv
  <1>2. \A m \in Members : row[m].state = StateAfter(m, Len(log[m]))
    BY DEF IInv, RowMatchesLog
  \* A recorded event that is legal after the state of the row keeps the run legal.
  <1>3. ASSUME NEW m \in Members, NEW e \in Event, NEW r \in Reviews, NEW st,
               Recorded(m, e, r, st),
               IF e.action = "AUTO_CLOCK_OUT"
                 THEN row[m].state \in {"WORKING", "ON_BREAK"} /\ e.shift = log[m][Len(log[m])].shift
                 ELSE e.action \in Accepts(row[m].state)
        PROVE  LogIsLegalRun'
    <2>n. PICK n : n = Len(log[m])
      OBVIOUS
    <2>1. /\ DOMAIN log[m] = 1 .. n /\ n \in Nat /\ DOMAIN log'[m] = 1 .. (n + 1)
          /\ \A i \in 1 .. n : log'[m][i] = log[m][i] /\ review'[m][i] = review[m][i]
          /\ log'[m][n + 1] = e
      BY <1>3, <2>n, GrowFacts
    <2>2. \A i \in 0 .. n : StateAfter(m, i)' = StateAfter(m, i)
      BY <2>1 DEF StateAfter
    <2>3. \A i \in 1 .. n : LegalAt(m, i)'
      <3> TAKE i \in 1 .. n
      <3>1. LegalAt(m, i) /\ i - 1 \in 0 .. n /\ (i - 1 = 0 \/ i - 1 \in 1 .. n)
        BY <1>t, <2>1
      <3>2. i - 1 = 0 => ~(StateAfter(m, i - 1) \in {"WORKING", "ON_BREAK"})
        BY DEF StateAfter
      <3> QED
        BY <2>1, <2>2, <3>1, <3>2 DEF LegalAt
    <2>4. LegalAt(m, n + 1)'
      <3>1. StateAfter(m, n)' = row[m].state
        BY <1>2, <2>n, <2>1, <2>2
      <3>2. n = 0 => ~(row[m].state \in {"WORKING", "ON_BREAK"})
        BY <1>2, <2>n DEF StateAfter
      <3>3. n + 1 - 1 = n /\ (n = 0 \/ n \in 1 .. n)
        BY <2>1
      <3> QED
        BY <1>3, <2>n, <2>1, <3>1, <3>2, <3>3 DEF LegalAt
    <2>5. \A x \in Members : x # m => \A i \in DOMAIN log'[x] : LegalAt(x, i)'
      BY <1>t, <1>3, GrowFacts DEF LegalAt, StateAfter
    <2>6. \A i \in DOMAIN log'[m] : LegalAt(m, i)'
      BY <2>1, <2>3, <2>4
    <2> QED
      BY <2>5, <2>6 DEF LogIsLegalRun, LegalAt
  <1>4. CASE SubmitStep
    <2>1. PICK m \in Members, e \in Event, r \in {"NONE", "PENDING"} : Submitted(m, e, r)
      BY <1>4 DEF SubmitStep
    <2>2. e.action # "AUTO_CLOCK_OUT" /\ e.action \in Accepts(row[m].state) /\ r \in Reviews
      BY <2>1 DEF Submitted, ActionTypes, Reviews
    <2> QED
      BY <1>3, <2>1, <2>2 DEF Submitted
  <1>5. CASE AutoStep
    <2>1. PICK m \in Members, e \in Event : AutoClosed(m, e)
      BY <1>5 DEF AutoStep
    <2>2. row[m].state \in {"WORKING", "ON_BREAK"} /\ e.shift = log[m][Len(log[m])].shift
      BY <2>1 DEF AutoClosed, StillOpen, IInv, OpenOnLastShift
    <2> QED
      BY <1>3, <2>1, <2>2 DEF AutoClosed, Reviews
  <1>6. CASE DecideStep
    <2>1. PICK m \in Members : \E i \in DOMAIN log[m] :
            \E d \in {"APPROVED", "REJECTED"} : Decide(m, i, d)
      BY <1>6 DEF DecideStep
    <2>2. PICK n \in DOMAIN log[m], d \in {"APPROVED", "REJECTED"} : Decide(m, n, d)
      BY <2>1
    <2>3. /\ log' = log /\ n = Len(log[m])
          /\ \A x \in Members : \A j \in DOMAIN log[x] : (x # m \/ j # n) =>
               review'[x][j] = review[x][j]
      <3>1. log' = log
        BY <2>2 DEF Decide
      <3> QED
        BY <2>2, <3>1, DecideKeeps
    <2>4. \A x \in Members : Len(log[x]) \in Nat /\ DOMAIN log[x] = 1 .. Len(log[x])
      BY DEF IInv, TypeOK
    <2>5. ASSUME NEW x \in Members, NEW i \in DOMAIN log[x]
          PROVE  StateAfter(x, i - 1)' = StateAfter(x, i - 1)
      <3>1. i - 1 = 0 \/ (i - 1 \in DOMAIN log[x] /\ (x # m \/ i - 1 # n))
        BY <2>3, <2>4
      <3> QED
        BY <2>3, <3>1 DEF StateAfter
    <2> QED
      BY <1>t, <2>3, <2>5 DEF LogIsLegalRun, LegalAt
  <1>7. CASE UNCHANGED <<log, review, row>>
    BY <1>t, <1>7 DEF LogIsLegalRun, LegalAt, StateAfter
  <1> QED
    BY <1>1, <1>4, <1>5, <1>6, <1>7

\* Read with the decisions made since, every log is a run of the state machine.
THEOREM LegalRun == Spec => []LogIsLegalRun
  PROOF
  <1>1. Init => LogIsLegalRun
    BY DEF Init, LogIsLegalRun
  <1> QED
    BY <1>1, LegalRunStays, Invariance, PTL DEF Spec

LEMMA AutoOnceStays == IInv /\ AutoOncePerShift /\ [Next]_vars => AutoOncePerShift'
  PROOF
  <1> SUFFICES ASSUME IInv, AutoOncePerShift, [Next]_vars PROVE AutoOncePerShift'
    OBVIOUS
  <1>1. SubmitStep \/ AutoStep \/ DecideStep \/ UNCHANGED <<log, review, row>>
    BY StepKinds DEF IInv
  <1>2. ASSUME NEW m \in Members, NEW e \in Event, NEW r \in Reviews, NEW st,
               Recorded(m, e, r, st), e.action = "AUTO_CLOCK_OUT" => ~AutoRecorded(m, e.shift)
        PROVE  AutoOncePerShift'
    <2>1. \A i \in DOMAIN log[m] : e.action = "AUTO_CLOCK_OUT" =>
            ~(log[m][i].action = "AUTO_CLOCK_OUT" /\ log[m][i].shift = e.shift)
      BY <1>2 DEF AutoRecorded
    <2>2. PICK n : /\ DOMAIN log'[m] = DOMAIN log[m] \cup {n} /\ log'[m][n] = e
                   /\ \A i \in DOMAIN log[m] : log'[m][i] = log[m][i]
      BY <1>2, GrowFacts
    <2>3. \A x \in Members : x # m => log'[x] = log[x]
      BY <1>2, GrowFacts
    <2>4. ASSUME NEW i \in DOMAIN log'[m], NEW j \in DOMAIN log'[m],
                 log'[m][i].action = "AUTO_CLOCK_OUT", log'[m][j].action = "AUTO_CLOCK_OUT",
                 log'[m][i].shift = log'[m][j].shift
          PROVE  i = j
      <3>1. CASE i \in DOMAIN log[m] /\ j \in DOMAIN log[m]
        BY <2>2, <2>4, <3>1 DEF AutoOncePerShift
      <3>2. CASE i = n \/ j = n
        BY <2>1, <2>2, <2>4, <3>2
      <3> QED
        BY <2>2, <3>1, <3>2
    <2> QED
      BY <2>3, <2>4 DEF AutoOncePerShift
  <1>3. CASE SubmitStep
    BY <1>2, <1>3 DEF SubmitStep, Submitted, ActionTypes, Reviews
  <1>4. CASE AutoStep
    BY <1>2, <1>4 DEF AutoStep, AutoClosed, Reviews
  <1>5. CASE DecideStep \/ UNCHANGED <<log, review, row>>
    BY <1>5 DEF DecideStep, Decide, AutoOncePerShift
  <1> QED
    BY <1>1, <1>3, <1>4, <1>5

\* However many workers run, and however stale what they read, a shift is closed
\* automatically at most once for a member.
THEOREM AutoOnce == Spec => []AutoOncePerShift
  PROOF
  <1>1. Init => AutoOncePerShift
    BY DEF Init, AutoOncePerShift
  <1> QED
    BY <1>1, AutoOnceStays, Invariance, PTL DEF Spec

-----------------------------------------------------------------------------
(* Dynamic QR codes *)

\* Event e is recorded for m, and uses the code it names.
UsesCode(m, e) ==
  /\ log' = [log EXCEPT ![m] = Append(@, e)]
  /\ UNCHANGED qrExpiry
  /\ \/ e.nonce = NoNonce /\ UNCHANGED qrUsed
     \/ /\ e.nonce \in UsableNonces(m) /\ e.at = now
        /\ qrUsed' = qrUsed \cup {<<e.nonce, m>>}

IssuesCode ==
  /\ UNCHANGED <<log, qrUsed>>
  /\ \/ UNCHANGED qrExpiry
     \/ \E n \in Nonces : qrExpiry[n] = 0 /\ \E t : qrExpiry' = [qrExpiry EXCEPT ![n] = t]

\* A step uses at most one code, for the one event it records, or issues one.
LEMMA CodeSteps ==
  ASSUME TypeOK, [Next]_vars
  PROVE  IssuesCode \/ \E m \in Members, e \in Event : UsesCode(m, e)
  PROOF
  <1>1. ASSUME NEW m \in Members, NEW k \in Keys, NEW a \in ActionTypes,
               NEW s \in Shifts \cup {NoShift}, Submit(m, k, a, s)
        PROVE  \E e \in Event : UsesCode(m, e)
    <2>1. PICK shift \in ResolvedShifts(m, s),
               n \in IF NeedsQR(policies[inForce], a) THEN UsableNonces(m) ELSE {NoNonce} :
            LET p        == policies[inForce]
                decision == IF NeedsApproval(p, shift, a, now) THEN "PENDING" ELSE "APPROVED"
                event    == [action |-> a, decision |-> decision, at |-> now,
                             shift |-> shift, policy |-> inForce, nonce |-> n]
            IN  /\ log' = [log EXCEPT ![m] = Append(@, event)]
                /\ qrUsed' = IF n = NoNonce THEN qrUsed ELSE qrUsed \cup {<<n, m>>}
      BY <1>1 DEF Submit
    <2> DEFINE e == [action |-> a,
                     decision |-> IF NeedsApproval(policies[inForce], shift, a, now)
                                  THEN "PENDING" ELSE "APPROVED",
                     at |-> now, shift |-> shift, policy |-> inForce, nonce |-> n]
    <2>2. n \in Nonces \cup {NoNonce} /\ (n = NoNonce \/ n \in UsableNonces(m))
      BY DEF UsableNonces
    <2>3. shift \in Shifts \cup {NoShift} /\ inForce \in PolicyIds
      BY <1>1 DEF ResolvedShifts, Nearby, Available, Submit, TypeOK
    <2>4. e \in Event
      BY <2>2, <2>3 DEF Event, TypeOK
    <2>5. UsesCode(m, e)
      <3>1. /\ log' = [log EXCEPT ![m] = Append(@, e)] /\ e.nonce = n /\ e.at = now
            /\ qrUsed' = IF n = NoNonce THEN qrUsed ELSE qrUsed \cup {<<n, m>>}
        BY <2>1
      <3>2. UNCHANGED qrExpiry
        BY <1>1 DEF Submit
      <3> HIDE DEF e
      <3> QED
        BY <2>2, <3>1, <3>2 DEF UsesCode
    <2> QED
      BY <2>4, <2>5
  <1>2. ASSUME NEW w \in Workers, NEW c \in batch[w], AutoClockOut(w, c)
        PROVE  IssuesCode \/ \E m \in Members, e \in Event : UsesCode(m, e)
    <2> DEFINE m == c.member
               e == [action |-> "AUTO_CLOCK_OUT", decision |-> "APPROVED",
                     at |-> c.cutoff, shift |-> c.shift, policy |-> c.policy,
                     nonce |-> NoNonce]
    <2>1. m \in Members /\ e \in Event /\ e.nonce = NoNonce
      BY DEF TypeOK, Candidate, Event
    <2>2. UNCHANGED log \/ log' = [log EXCEPT ![m] = Append(@, e)]
      BY <1>2 DEF AutoClockOut
    <2>3. UNCHANGED <<qrExpiry, qrUsed>>
      BY <1>2 DEF AutoClockOut
    <2> QED
      BY <2>1, <2>2, <2>3 DEF IssuesCode, UsesCode
  <1>3. ASSUME NEW n \in Nonces, IssueDynamicQR(n)
        PROVE  IssuesCode
    BY <1>3 DEF IssueDynamicQR, IssuesCode
  <1>4. CASE \/ ManagerStep \/ Tick \/ UNCHANGED vars
             \/ \E w \in Workers : ReadCandidates(w) \/ RestartWorker(w)
             \/ \E p \in PolicyIds, input \in PolicyInputs : CreatePolicy(p, input)
             \/ \E input \in PolicyInputs : UpdatePolicy(input)
             \/ ArchivePolicy
             \/ \E s \in Shifts : PublishShift(s) \/ UnpublishShift(s)
    BY <1>4 DEF vars, IssuesCode, ManagerStep, Decide, Tick, ReadCandidates, RestartWorker,
                CreatePolicy, UpdatePolicy, ArchivePolicy, PublishShift, UnpublishShift
  <1> QED
    BY <1>1, <1>2, <1>3, <1>4 DEF Next, MemberStep, WorkerStep, AdminStep

LEMMA CodesStay == IInv /\ CodesAreConsumedOnce /\ [Next]_vars => CodesAreConsumedOnce'
  PROOF
  <1> SUFFICES ASSUME IInv, CodesAreConsumedOnce, [Next]_vars PROVE CodesAreConsumedOnce'
    OBVIOUS
  <1>t. TypeOK /\ \A m \in Members : \A i \in DOMAIN log[m] : log[m][i] \in Event
    BY DEF IInv, TypeOK
  <1>1. CASE IssuesCode
    <2>1. \A m \in Members : \A i \in DOMAIN log[m] : log[m][i].nonce # NoNonce =>
            qrExpiry'[log[m][i].nonce] = qrExpiry[log[m][i].nonce]
      <3> SUFFICES ASSUME NEW m \in Members, NEW i \in DOMAIN log[m], log[m][i].nonce # NoNonce
                   PROVE  qrExpiry'[log[m][i].nonce] = qrExpiry[log[m][i].nonce]
        OBVIOUS
      <3>1. log[m][i].at \in Nat /\ log[m][i].nonce \in Nonces
        BY <1>t DEF Event
      <3>2. log[m][i].at < qrExpiry[log[m][i].nonce]
        BY DEF CodesAreConsumedOnce
      <3>3. qrExpiry[log[m][i].nonce] # 0
        BY <3>1, <3>2
      <3> QED
        BY <1>t, <1>1, <3>1, <3>3 DEF IssuesCode, TypeOK
    <2> QED
      BY <1>1, <2>1 DEF IssuesCode, CodesAreConsumedOnce
  <1>2. ASSUME NEW m \in Members, NEW e \in Event, UsesCode(m, e)
        PROVE  CodesAreConsumedOnce'
    <2>1. PICK n : n = Len(log[m]) + 1
      OBVIOUS
    <2>2. /\ DOMAIN log'[m] = DOMAIN log[m] \cup {n} /\ n \notin DOMAIN log[m]
          /\ \A i \in DOMAIN log[m] : log'[m][i] = log[m][i]
          /\ log'[m][n] = e
          /\ \A x \in Members : x # m => log'[x] = log[x]
      <3>1. log[m] \in Seq(Event) /\ log'[m] = Append(log[m], e)
        BY <1>t, <1>2 DEF UsesCode, TypeOK
      <3>2. \A x \in Members : x # m => log'[x] = log[x]
        BY <1>t, <1>2 DEF UsesCode, TypeOK
      <3>3. /\ DOMAIN Append(log[m], e) = 1 .. n /\ DOMAIN log[m] = 1 .. (n - 1) /\ n \in Nat
            /\ \A i \in 1 .. (n - 1) : Append(log[m], e)[i] = log[m][i]
            /\ Append(log[m], e)[n] = e
        BY <2>1, <3>1, AppendFacts
      <3> QED
        BY <3>1, <3>2, <3>3
    <2>3. /\ qrExpiry' = qrExpiry
          /\ \/ e.nonce = NoNonce /\ qrUsed' = qrUsed
             \/ /\ e.nonce \in Nonces /\ e.nonce # NoNonce /\ e.at < qrExpiry[e.nonce]
                /\ <<e.nonce, m>> \notin qrUsed
                /\ qrUsed' = qrUsed \cup {<<e.nonce, m>>}
      BY <1>2, <1>t, BoundsAreNatural DEF UsesCode, UsableNonces, TypeOK
    <2>4. \A i \in DOMAIN log[m] : e.nonce # NoNonce => log[m][i].nonce # e.nonce
      BY <1>t, <2>3 DEF CodesAreConsumedOnce
    <2>5. \A c \in Nonces, x \in Members :
            <<c, x>> \in qrUsed' <=> \E i \in DOMAIN log'[x] : log'[x][i].nonce = c
      <3> SUFFICES ASSUME NEW c \in Nonces, NEW x \in Members
                   PROVE  <<c, x>> \in qrUsed' <=> \E i \in DOMAIN log'[x] : log'[x][i].nonce = c
        OBVIOUS
      <3>1. c # NoNonce
        BY BoundsAreNatural
      <3>2. CASE x # m
        BY <2>2, <2>3, <3>2 DEF CodesAreConsumedOnce
      <3>3. CASE x = m
        <4>1. <<c, m>> \in qrUsed' <=> <<c, m>> \in qrUsed \/ c = e.nonce
          BY <2>3, <3>1
        <4>2. (\E i \in DOMAIN log'[m] : log'[m][i].nonce = c) <=>
                (\E i \in DOMAIN log[m] : log[m][i].nonce = c) \/ c = e.nonce
          BY <2>2
        <4> QED
          BY <3>3, <4>1, <4>2 DEF CodesAreConsumedOnce
      <3> QED
        BY <3>2, <3>3
    <2>6. ASSUME NEW i \in DOMAIN log'[m], NEW j \in DOMAIN log'[m], log'[m][i].nonce # NoNonce
          PROVE  /\ log'[m][i].at < qrExpiry[log'[m][i].nonce]
                 /\ log'[m][i].nonce = log'[m][j].nonce => i = j
      <3>1. CASE i \in DOMAIN log[m] /\ j \in DOMAIN log[m]
        BY <2>2, <2>6, <3>1 DEF CodesAreConsumedOnce
      <3>2. CASE i = n /\ j \in DOMAIN log[m]
        BY <2>2, <2>3, <2>4, <2>6, <3>2
      <3>3. CASE i \in DOMAIN log[m] /\ j = n
        BY <2>2, <2>4, <2>6, <3>3 DEF CodesAreConsumedOnce
      <3>4. CASE i = n /\ j = n
        BY <2>2, <2>3, <2>6, <3>4
      <3> QED
        BY <2>2, <3>1, <3>2, <3>3, <3>4
    <2>7. \A x \in Members : x # m => \A i, j \in DOMAIN log'[x] :
            log'[x][i].nonce # NoNonce =>
              /\ log'[x][i].at < qrExpiry[log'[x][i].nonce]
              /\ log'[x][i].nonce = log'[x][j].nonce => i = j
      BY <2>2 DEF CodesAreConsumedOnce
    <2> QED
      BY <2>3, <2>5, <2>6, <2>7 DEF CodesAreConsumedOnce
  <1> QED
    BY <1>t, <1>1, <1>2, CodeSteps

\* A QR code evidences one event of a member, recorded before it expired, whatever the member
\* sends again and however many members use the same code.
THEOREM CodesOnce == Spec => []CodesAreConsumedOnce
  PROOF
  <1>1. Init => CodesAreConsumedOnce
    BY DEF Init, CodesAreConsumedOnce
  <1> QED
    BY <1>1, CodesStay, Invariance, PTL DEF Spec

-----------------------------------------------------------------------------
(* Attendance implements WorkSession: the state row and the log of every   *)
(* member, with all that managers, the worker and administrators do, show  *)
(* the member no more than what WorkSession promises.                      *)

\* Clock-ins are recorded in the order of the clock, which has not reached its bound.
ClockInsInOrder ==
  /\ now <= MaxTime
  /\ \A m \in Members : \A i \in DOMAIN log[m] :
       log[m][i].action = "CLOCK_IN" =>
         /\ log[m][i].at <= now
         /\ \A j \in DOMAIN log[m] :
              log[m][j].action = "CLOCK_IN" /\ i <= j => log[m][i].at <= log[m][j].at

\* Whoever has left NOT_STARTED has a clock-in that counts.
StartedByClockIn ==
  \A m \in Members : row[m].state # "NOT_STARTED" => \E i \in DOMAIN log[m] : LiveClockIn(m, i)

RInv == IInv /\ OneClockInPerDay /\ ClockInsInOrder /\ StartedByClockIn

Live(m) == {j \in DOMAIN log[m] : LiveClockIn(m, j)}
CountedOf(m) == {Day(log[m][i].at) : i \in Live(m)}

-----------------------------------------------------------------------------
(* The clock and the calendar *)

LEMMA ClockRuns == ASSUME IInv, ClockInsInOrder, [Next]_vars PROVE now <= now' /\ now' <= MaxTime
  PROOF
  <1>1. now \in Nat /\ MaxTime \in Nat /\ now <= MaxTime
    BY BoundsAreNatural DEF IInv, TypeOK, ClockInsInOrder
  <1>2. now' = now \/ (now < MaxTime /\ now' = now + 1)
    BY DEF Next, vars, MemberStep, Submit, ManagerStep, Decide, WorkerStep, ReadCandidates,
           AutoClockOut, RestartWorker, AdminStep, IssueDynamicQR, CreatePolicy, UpdatePolicy,
           ArchivePolicy, PublishShift, UnpublishShift, Tick
  <1> QED
    BY <1>1, <1>2

LEMMA DaysFollow ==
  ASSUME NEW s \in Nat, NEW t \in Nat, s <= t
  PROVE  Day(s) \in Int /\ Day(t) \in Int /\ Day(s) <= Day(t)
  BY BoundsAreNatural DEF Day

-----------------------------------------------------------------------------
(* What a clock-in that counts is *)

LEMMA LiveIs ==
  ASSUME IInv, NEW m \in Members, NEW i \in DOMAIN log[m]
  PROVE  /\ LiveClockIn(m, i) <=> log[m][i].action = "CLOCK_IN" /\ review[m][i] # "REJECTED"
         /\ log[m][i].at \in Nat
  PROOF
  <1>1. log[m][i] \in Event
    BY DEF IInv, TypeOK
  <1> QED
    BY <1>1 DEF LiveClockIn, Effective, Event

\* Recording an event adds the clock-in it may be, and changes no other.
LEMMA LiveGrows ==
  ASSUME IInv, NEW m \in Members, NEW e \in Event, NEW r \in {"NONE", "PENDING"}, NEW st,
         Recorded(m, e, r, st)
  PROVE  /\ \A x \in Members : x # m => CountedOf(x)' = CountedOf(x) /\ Live(x)' = Live(x)
         /\ Live(m)' = IF e.action = "CLOCK_IN" THEN Live(m) \cup {Len(log[m]) + 1} ELSE Live(m)
         /\ CountedOf(m)' = IF e.action = "CLOCK_IN" THEN CountedOf(m) \cup {Day(e.at)}
                                                     ELSE CountedOf(m)
  PROOF
  <1>r. r \in Reviews
    BY DEF Reviews
  <1>1. \A x \in Members : x # m => log'[x] = log[x] /\ review'[x] = review[x]
    BY <1>r, GrowFacts
  <1>2. PICK n : n = Len(log[m]) + 1
    OBVIOUS
  <1>3. /\ DOMAIN log'[m] = DOMAIN log[m] \cup {n} /\ n \notin DOMAIN log[m]
        /\ \A i \in DOMAIN log[m] : log'[m][i] = log[m][i] /\ review'[m][i] = review[m][i]
        /\ log'[m][n] = e /\ review'[m][n] = r
    BY <1>r, <1>2, GrowFacts
  <1>4. \A i \in DOMAIN log[m] : LiveClockIn(m, i)' <=> LiveClockIn(m, i)
    BY <1>3 DEF LiveClockIn, Effective
  <1>5. LiveClockIn(m, n)' <=> e.action = "CLOCK_IN"
    BY <1>3 DEF LiveClockIn, Effective, Event
  <1>6. Live(m)' = IF e.action = "CLOCK_IN" THEN Live(m) \cup {n} ELSE Live(m)
    BY <1>3, <1>4, <1>5 DEF Live
  <1>7. \A x \in Members : x # m => CountedOf(x)' = CountedOf(x) /\ Live(x)' = Live(x)
    BY <1>1 DEF CountedOf, Live, LiveClockIn, Effective, Day
  <1>8. Live(m) \subseteq DOMAIN log[m]
    BY DEF Live
  <1>9. CountedOf(m)' = IF e.action = "CLOCK_IN" THEN CountedOf(m) \cup {Day(e.at)}
                                                 ELSE CountedOf(m)
    BY <1>3, <1>6, <1>8 DEF CountedOf, Day
  <1> QED
    BY <1>2, <1>6, <1>7, <1>9

\* A decision takes away the clock-in it rejects, and no other.
LEMMA LiveShrinks ==
  ASSUME IInv, OneClockInPerDay, NEW m \in Members, NEW n \in DOMAIN log[m],
         NEW d \in {"APPROVED", "REJECTED"}, Decide(m, n, d)
  PROVE  /\ \A x \in Members : x # m => CountedOf(x)' = CountedOf(x) /\ Live(x)' = Live(x)
         /\ d = "REJECTED" /\ log[m][n].action = "CLOCK_IN" =>
              n \in Live(m) /\ CountedOf(m)' = CountedOf(m) \ {Day(log[m][n].at)}
         /\ ~(d = "REJECTED" /\ log[m][n].action = "CLOCK_IN") =>
              Live(m)' = Live(m) /\ CountedOf(m)' = CountedOf(m)
  PROOF
  <1>1. /\ log' = log /\ review[m][n] = "PENDING"
        /\ \A x \in Members : x # m => review'[x] = review[x]
        /\ \A j \in DOMAIN log[m] : review'[m][j] = IF j = n THEN d ELSE review[m][j]
    BY DecideKeeps DEF Decide, Undecided
  <1>2. \A x \in Members : x # m => CountedOf(x)' = CountedOf(x) /\ Live(x)' = Live(x)
    BY <1>1 DEF CountedOf, Live, LiveClockIn, Effective, Day
  <1>3. \A j \in DOMAIN log[m] : j # n => (LiveClockIn(m, j)' <=> LiveClockIn(m, j))
    BY <1>1 DEF LiveClockIn, Effective
  <1>4. LiveClockIn(m, n) <=> log[m][n].action = "CLOCK_IN"
    BY <1>1, LiveIs
  <1>5. LiveClockIn(m, n)' <=> log[m][n].action = "CLOCK_IN" /\ d # "REJECTED"
    BY <1>1 DEF LiveClockIn, Effective
  <1>6. CASE d = "REJECTED" /\ log[m][n].action = "CLOCK_IN"
    <2>1. n \in Live(m) /\ Live(m)' = Live(m) \ {n}
      BY <1>1, <1>3, <1>4, <1>5, <1>6 DEF Live
    <2>2. \A j \in Live(m) : Day(log[m][j].at) = Day(log[m][n].at) => j = n
      BY <2>1 DEF OneClockInPerDay, Live
    <2>3. CountedOf(m)' = {Day(log[m][i].at) : i \in Live(m) \ {n}}
      BY <1>1, <2>1 DEF CountedOf, Day
    <2> QED
      BY <1>2, <1>6, <2>1, <2>2, <2>3 DEF CountedOf
  <1>7. CASE ~(d = "REJECTED" /\ log[m][n].action = "CLOCK_IN")
    <2>1. Live(m)' = Live(m)
      BY <1>1, <1>3, <1>4, <1>5, <1>7 DEF Live
    <2> QED
      BY <1>1, <1>2, <1>7, <2>1 DEF CountedOf, Day
  <1> QED
    BY <1>6, <1>7

-----------------------------------------------------------------------------
(* The invariant *)

LEMMA InitRInv == Init => RInv
  PROOF
  <1> SUFFICES ASSUME Init PROVE RInv
    OBVIOUS
  <1>1. ClockInsInOrder
    BY BoundsAreNatural DEF Init, ClockInsInOrder
  <1>2. OneClockInPerDay /\ StartedByClockIn
    BY DEF Init, OneClockInPerDay, StartedByClockIn
  <1> QED
    BY <1>1, <1>2, InitIInv DEF RInv

LEMMA OrderStays == RInv /\ [Next]_vars => ClockInsInOrder'
  PROOF
  <1> SUFFICES ASSUME RInv, [Next]_vars PROVE ClockInsInOrder'
    OBVIOUS
  <1>t. IInv /\ ClockInsInOrder /\ TypeOK
    BY DEF RInv, IInv
  <1>1. SubmitStep \/ AutoStep \/ DecideStep \/ UNCHANGED <<log, review, row>>
    BY <1>t, StepKinds
  <1>2. /\ now <= now' /\ now' <= MaxTime /\ now \in Nat /\ now' \in Nat
        /\ \A m \in Members : \A i \in DOMAIN log[m] : log[m][i].at \in Nat
    BY <1>t, ClockRuns, LiveIs, TypesStay DEF TypeOK
  <1>3. ASSUME log' = log
        PROVE  ClockInsInOrder'
    BY <1>t, <1>2, <1>3 DEF ClockInsInOrder
  <1>4. ASSUME NEW m \in Members, NEW e \in Event, NEW r \in {"NONE", "PENDING"}, NEW st,
               Recorded(m, e, r, st), e.action = "CLOCK_IN" => e.at = now
        PROVE  ClockInsInOrder'
    <2>1. \A x \in Members : x # m => log'[x] = log[x]
      BY <1>t, <1>4, GrowFacts DEF Reviews
    <2>2. PICK n : n = Len(log[m]) + 1
      OBVIOUS
    <2>3. /\ DOMAIN log[m] = 1 .. (n - 1) /\ DOMAIN log'[m] = 1 .. n /\ n \in Nat
          /\ \A i \in DOMAIN log[m] : log'[m][i] = log[m][i]
          /\ log'[m][n] = e
      BY <1>t, <1>4, <2>2, GrowFacts DEF Reviews
    <2>4. ASSUME NEW i \in DOMAIN log'[m], log'[m][i].action = "CLOCK_IN"
          PROVE  /\ log'[m][i].at <= now
                 /\ \A j \in DOMAIN log'[m] : log'[m][j].action = "CLOCK_IN" /\ i <= j =>
                      log'[m][i].at <= log'[m][j].at
      <3>1. CASE i = n
        BY <1>2, <1>4, <2>3, <2>4, <3>1
      <3>2. CASE i \in DOMAIN log[m]
        BY <1>t, <1>4, <2>3, <2>4, <3>2 DEF ClockInsInOrder
      <3> QED
        BY <2>3, <3>1, <3>2
    <2>5. \A i \in DOMAIN log'[m] : log'[m][i].at \in Nat
      BY <1>2, <2>3 DEF Event
    <2>6. \A i \in DOMAIN log'[m] : log'[m][i].action = "CLOCK_IN" => log'[m][i].at <= now'
      BY <1>2, <2>4, <2>5
    <2>7. \A x \in Members : x # m => \A i \in DOMAIN log'[x] :
            log'[x][i].action = "CLOCK_IN" => log'[x][i].at <= now'
      BY <1>t, <1>2, <2>1 DEF ClockInsInOrder
    <2>8. \A x \in Members : x # m => \A i, j \in DOMAIN log'[x] :
            log'[x][i].action = "CLOCK_IN" /\ log'[x][j].action = "CLOCK_IN" /\ i <= j =>
              log'[x][i].at <= log'[x][j].at
      BY <1>t, <2>1 DEF ClockInsInOrder
    <2> QED
      BY <1>2, <2>4, <2>6, <2>7, <2>8 DEF ClockInsInOrder
  <1>5. CASE SubmitStep
    BY <1>4, <1>5 DEF SubmitStep, Submitted
  <1>6. CASE AutoStep
    BY <1>4, <1>6 DEF AutoStep, AutoClosed
  <1> QED
    BY <1>1, <1>3, <1>5, <1>6 DEF DecideStep, Decide

LEMMA StartedStays == RInv /\ [Next]_vars => StartedByClockIn'
  PROOF
  <1> SUFFICES ASSUME RInv, [Next]_vars PROVE StartedByClockIn'
    OBVIOUS
  <1>t. /\ IInv /\ TypeOK /\ OneClockInPerDay
        /\ \A m \in Members : row[m].state # "NOT_STARTED" => Live(m) # {}
    BY DEF RInv, IInv, StartedByClockIn, Live
  <1>1. SubmitStep \/ AutoStep \/ DecideStep \/ UNCHANGED <<log, review, row>>
    BY <1>t, StepKinds
  <1>2. SUFFICES \A m \in Members : row'[m].state # "NOT_STARTED" => Live(m)' # {}
    BY DEF StartedByClockIn, Live
  <1>3. ASSUME NEW m \in Members, NEW e \in Event, NEW r \in {"NONE", "PENDING"}, NEW st,
               Recorded(m, e, r, st), e.action = "CLOCK_IN" \/ row[m].state # "NOT_STARTED"
        PROVE  \A x \in Members : row'[x].state # "NOT_STARTED" => Live(x)' # {}
    <2>1. \A x \in Members : x # m => row'[x] = row[x]
      BY <1>t, <1>3 DEF Recorded, TypeOK
    <2> QED
      BY <1>t, <1>3, <2>1, LiveGrows
  <1>4. CASE SubmitStep
    BY <1>3, <1>4 DEF SubmitStep, Submitted, Accepts
  <1>5. CASE AutoStep
    BY <1>3, <1>5 DEF AutoStep, AutoClosed, StillOpen
  <1>6. CASE DecideStep
    <2>1. PICK m \in Members : \E i \in DOMAIN log[m] :
            \E d \in {"APPROVED", "REJECTED"} : Decide(m, i, d)
      BY <1>6 DEF DecideStep
    <2>2. PICK n \in DOMAIN log[m], d \in {"APPROVED", "REJECTED"} : Decide(m, n, d)
      BY <2>1
    <2>3. row[m].state = "PENDING" /\ row[m].last = n
      BY <1>t, <2>2, DecideKeeps DEF Decide, Undecided, IInv, RowMatchesLog, OnlyLastEventPends
    <2>4. row' = [row EXCEPT ![m] = DecidedRow(log[m][n], n, d)]
      BY <2>2, <2>3 DEF Decide
    <2>5. d = "REJECTED" /\ log[m][n].action = "CLOCK_IN" => row'[m].state = "NOT_STARTED"
      BY <1>t, <2>4 DEF DecidedRow, TypeOK
    <2>6. \A x \in Members : x # m => row'[x] = row[x]
      BY <1>t, <2>4 DEF TypeOK
    <2> QED
      BY <1>t, <2>2, <2>3, <2>5, <2>6, LiveShrinks
  <1>7. CASE UNCHANGED <<log, review, row>>
    BY <1>t, <1>7 DEF Live, LiveClockIn, Effective
  <1> QED
    BY <1>1, <1>4, <1>5, <1>6, <1>7

LEMMA RInvariance == Spec => []RInv
  PROOF
  <1>1. RInv /\ [Next]_vars => RInv'
    BY IInvStays, OneClockInStays, OrderStays, StartedStays DEF RInv
  <1> QED
    BY <1>1, InitRInv, PTL DEF Spec

-----------------------------------------------------------------------------
(* One member takes a step of WorkSession *)

\* The member's phase changes, and nobody else's.
LEMMA Enters ==
  ASSUME NEW m \in Members, NEW from, NEW to,
         Phase(m) \in from, Phase(m)' = to,
         \A x \in Members : x # m => Phase(x)' = Phase(x)
  PROVE  Abstract!Enter(m, from, to)
  PROOF
  <1>1. [x \in Members |-> Phase(x)][m] = Phase(m)
    OBVIOUS
  <1>2. [x \in Members |-> Phase(x)]' = [[x \in Members |-> Phase(x)] EXCEPT ![m] = to]
    OBVIOUS
  <1> QED
    BY <1>1, <1>2 DEF Abstract!Enter

\* The days of everyone but the member stay, and hers become S.
LEMMA Counts ==
  ASSUME NEW m \in Members, NEW S, CountedOf(m)' = S,
         \A x \in Members : x # m => CountedOf(x)' = CountedOf(x)
  PROVE  [x \in Members |-> CountedOf(x)]' = [[x \in Members |-> CountedOf(x)] EXCEPT ![m] = S]
  OBVIOUS

\* The moves of a member that leave her days alone.
Moves ==
  {<<"working", "onBreak">>, <<"working", "awaitsBreak">>, <<"onBreak", "working">>,
   <<"working", "off">>, <<"onBreak", "off">>, <<"awaitsClockIn", "working">>,
   <<"awaitsMore", "working">>, <<"awaitsBreak", "working">>, <<"awaitsBreak", "onBreak">>,
   <<"awaitsMore", "off">>}

LEMMA Carries ==
  ASSUME NEW m \in Members, <<Phase(m), Phase(m)'>> \in Moves,
         \A x \in Members : x # m => Phase(x)' = Phase(x),
         \A x \in Members : CountedOf(x)' = CountedOf(x)
  PROVE  Abstract!Next
  PROOF
  <1>1. \A from : Phase(m) \in from => Abstract!Enter(m, from, Phase(m)')
    BY Enters
  <1>2. UNCHANGED [x \in Members |-> CountedOf(x)]
    OBVIOUS
  <1>3. Abstract!Carry(m)
    BY <1>1, <1>2 DEF Abstract!Carry, Moves, CountedOf, Live
  <1> QED
    BY <1>3 DEF Abstract!Next

LEMMA ClocksIn ==
  ASSUME RInv, [Next]_vars, NEW m \in Members,
         Phase(m) = "off", Phase(m)' \in {"working", "awaitsClockIn"},
         CountedOf(m)' = CountedOf(m) \cup {Day(now)}, ~ClockInRecordedToday(m),
         \A x \in Members : x # m => Phase(x)' = Phase(x) /\ CountedOf(x)' = CountedOf(x)
  PROVE  Abstract!Next
  PROOF
  <1>t. IInv /\ now \in Nat
    BY DEF RInv, IInv, TypeOK
  <1>1. PICK day \in {Day(t) : t \in 0 .. MaxTime} : day = Day(now)
    BY <1>t, BoundsAreNatural DEF RInv, ClockInsInOrder
  <1>2. \A d \in CountedOf(m) : d < Day(now)
    <2> SUFFICES ASSUME NEW i \in Live(m) PROVE Day(log[m][i].at) < Day(now)
      BY DEF CountedOf
    <2>1. i \in DOMAIN log[m] /\ LiveClockIn(m, i)
      BY DEF Live
    <2>2. log[m][i].action = "CLOCK_IN" /\ log[m][i].at \in Nat
      BY <1>t, <2>1, LiveIs
    <2>3. log[m][i].at <= now
      BY <2>1, <2>2 DEF RInv, ClockInsInOrder
    <2>4. Day(log[m][i].at) # Day(now)
      BY <2>1 DEF ClockInRecordedToday
    <2>5. /\ Day(log[m][i].at) \in Int /\ Day(now) \in Int
          /\ Day(log[m][i].at) <= Day(now)
      BY <1>t, <2>2, <2>3, DaysFollow
    <2> QED
      BY <2>4, <2>5
  <1>3. Abstract!Enter(m, {"off"}, Phase(m)')
    BY Enters
  <1>4. [x \in Members |-> CountedOf(x)]' =
          [[x \in Members |-> CountedOf(x)] EXCEPT ![m] = CountedOf(m) \cup {day}]
    BY <1>1, Counts
  <1>5. Abstract!ClockIn(m, day)
    BY <1>1, <1>2, <1>3, <1>4 DEF Abstract!ClockIn, CountedOf, Live
  <1> QED
    BY <1>5 DEF Abstract!Next

LEMMA WorksMore ==
  ASSUME NEW m \in Members, CountedOf(m) # {},
         Phase(m) = "off", Phase(m)' \in {"working", "awaitsMore"},
         \A x \in Members : x # m => Phase(x)' = Phase(x),
         \A x \in Members : CountedOf(x)' = CountedOf(x)
  PROVE  Abstract!Next
  PROOF
  <1>1. Abstract!Enter(m, {"off"}, Phase(m)')
    BY Enters
  <1>2. UNCHANGED [x \in Members |-> CountedOf(x)]
    OBVIOUS
  <1>3. Abstract!WorkMore(m)
    BY <1>1, <1>2 DEF Abstract!WorkMore, CountedOf, Live
  <1> QED
    BY <1>3 DEF Abstract!Next

LEMMA Rejects ==
  ASSUME NEW m \in Members, NEW day \in CountedOf(m), \A d \in CountedOf(m) : d <= day,
         Phase(m) = "awaitsClockIn", Phase(m)' = "off",
         CountedOf(m)' = CountedOf(m) \ {day},
         \A x \in Members : x # m => Phase(x)' = Phase(x) /\ CountedOf(x)' = CountedOf(x)
  PROVE  Abstract!Next
  PROOF
  <1>1. Abstract!Enter(m, {"awaitsClockIn"}, "off")
    BY Enters
  <1>2. [x \in Members |-> CountedOf(x)]' =
          [[x \in Members |-> CountedOf(x)] EXCEPT ![m] = CountedOf(m) \ {day}]
    BY Counts
  <1>3. Abstract!RejectClockIn(m)
    BY <1>1, <1>2 DEF Abstract!RejectClockIn, CountedOf, Live
  <1> QED
    BY <1>3 DEF Abstract!Next

-----------------------------------------------------------------------------
(* Every step is one of these, or shows nothing *)

\* A recording moves the phase of its member only, to what the new event comes to.
LEMMA RecordedPhases ==
  ASSUME IInv, NEW m \in Members, NEW e \in Event, NEW r \in {"NONE", "PENDING"}, NEW st,
         Recorded(m, e, r, st), st.last = Len(log[m]) + 1
  PROVE  /\ \A x \in Members : x # m => Phase(x)' = Phase(x)
         /\ row'[m] = st /\ log'[m][row'[m].last] = e
  PROOF
  <1>1. \A x \in Members : x # m => log'[x] = log[x]
    BY GrowFacts DEF Reviews
  <1>2. row'[m] = st /\ \A x \in Members : x # m => row'[x] = row[x]
    BY DEF Recorded, IInv, TypeOK
  <1>3. log'[m][Len(log[m]) + 1] = e
    BY GrowFacts DEF Reviews
  <1> QED
    BY <1>1, <1>2, <1>3 DEF Phase

LEMMA SubmitImplements == ASSUME RInv, [Next]_vars, SubmitStep PROVE Abstract!Next
  PROOF
  <1>t. IInv /\ \A x \in Members : row[x].state # "NOT_STARTED" => Live(x) # {}
    BY DEF RInv, StartedByClockIn, Live
  <1>1. PICK m \in Members, e \in Event, r \in {"NONE", "PENDING"} : Submitted(m, e, r)
    BY DEF SubmitStep
  <1>2. /\ Recorded(m, e, r, SubmittedRow(m, e)) /\ e.at = now
        /\ e.action \in ActionTypes /\ e.action \in Accepts(row[m].state)
        /\ e.action = "CLOCK_IN" => ~ClockInRecordedToday(m)
        /\ r = "PENDING" => e.action \in Reviewable
        /\ e.decision = IF r = "PENDING" THEN "PENDING" ELSE "APPROVED"
    BY <1>1 DEF Submitted
  <1>3. /\ \A x \in Members : x # m => Phase(x)' = Phase(x)
        /\ row'[m].state = NextState(e.action, e.decision)
        /\ log'[m][row'[m].last] = e
    BY <1>t, <1>2, RecordedPhases DEF SubmittedRow
  <1>4. /\ \A x \in Members : x # m => CountedOf(x)' = CountedOf(x)
        /\ CountedOf(m)' = IF e.action = "CLOCK_IN" THEN CountedOf(m) \cup {Day(e.at)}
                                                    ELSE CountedOf(m)
    BY <1>t, <1>2, LiveGrows
  <1>5. CASE e.action = "CLOCK_IN"
    <2>1. Phase(m) = "off" /\ Phase(m)' \in {"working", "awaitsClockIn"}
      BY <1>2, <1>3, <1>5 DEF Phase, Accepts, NextState, ApprovedState
    <2> QED
      BY <1>2, <1>3, <1>4, <1>5, <2>1, ClocksIn
  <1>6. CASE e.action = "WORK_MORE"
    <2>1. /\ Phase(m) = "off" /\ Phase(m)' \in {"working", "awaitsMore"}
          /\ row[m].state = "COMPLETED"
      BY <1>2, <1>3, <1>6 DEF Phase, Accepts, NextState, ApprovedState
    <2>2. CountedOf(m) # {}
      BY <1>t, <2>1 DEF CountedOf
    <2> QED
      BY <1>3, <1>4, <1>6, <2>1, <2>2, WorksMore
  <1>7. CASE e.action \in {"CLOCK_OUT", "START_BREAK", "END_BREAK"}
    <2>1. <<Phase(m), Phase(m)'>> \in Moves
      BY <1>2, <1>3, <1>7 DEF Phase, Accepts, NextState, ApprovedState, Reviewable, Moves
    <2> QED
      BY <1>3, <1>4, <1>7, <2>1, Carries
  <1> QED
    BY <1>2, <1>5, <1>6, <1>7 DEF ActionTypes

LEMMA AutoImplements == ASSUME RInv, AutoStep PROVE Abstract!Next
  PROOF
  <1>t. IInv
    BY DEF RInv
  <1>1. PICK m \in Members, e \in Event : AutoClosed(m, e)
    BY DEF AutoStep
  <1> DEFINE st == [state |-> "COMPLETED", shift |-> NoShift, last |-> Len(log[m]) + 1]
  <1>2. Recorded(m, e, "NONE", st) /\ e.action # "CLOCK_IN" /\ row[m].state \in {"WORKING", "ON_BREAK"}
    BY <1>1 DEF AutoClosed, StillOpen
  <1>3. (\A x \in Members : x # m => Phase(x)' = Phase(x)) /\ row'[m] = st
    BY <1>t, <1>2, RecordedPhases
  <1>4. \A x \in Members : CountedOf(x)' = CountedOf(x)
    BY <1>t, <1>2, LiveGrows
  <1>5. <<Phase(m), Phase(m)'>> \in Moves
    BY <1>2, <1>3 DEF Phase, Moves
  <1> QED
    BY <1>3, <1>4, <1>5, Carries

LEMMA DecideImplements == ASSUME RInv, DecideStep PROVE Abstract!Next
  PROOF
  <1>t. IInv /\ TypeOK /\ OneClockInPerDay
    BY DEF RInv, IInv
  <1>1. PICK m \in Members : \E i \in DOMAIN log[m] :
          \E d \in {"APPROVED", "REJECTED"} : Decide(m, i, d)
    BY DEF DecideStep
  <1>2. PICK n \in DOMAIN log[m], d \in {"APPROVED", "REJECTED"} : Decide(m, n, d)
    BY <1>1
  <1>3. row[m].state = "PENDING" /\ row[m].last = n /\ n = Len(log[m]) /\ log' = log
    BY <1>t, <1>2, DecideKeeps DEF Decide, Undecided, IInv, RowMatchesLog, OnlyLastEventPends
  <1>4. log[m][n].action \in Reviewable
    BY <1>t, <1>2 DEF Decide, Undecided, IInv, RequestsAreReviewable
  <1>5. row' = [row EXCEPT ![m] = DecidedRow(log[m][n], n, d)]
    BY <1>2, <1>3 DEF Decide
  <1>6. row'[m] = DecidedRow(log[m][n], n, d) /\ \A x \in Members : x # m => row'[x] = row[x]
    BY <1>t, <1>5 DEF TypeOK
  <1>7. \A x \in Members : x # m => Phase(x)' = Phase(x)
    BY <1>3, <1>6 DEF Phase
  <1>8. CASE d = "REJECTED" /\ log[m][n].action = "CLOCK_IN"
    <2> DEFINE day == Day(log[m][n].at)
    <2>1. /\ n \in Live(m) /\ CountedOf(m)' = CountedOf(m) \ {day}
          /\ \A x \in Members : x # m => CountedOf(x)' = CountedOf(x)
      BY <1>t, <1>2, <1>8, LiveShrinks
    <2>2. day \in CountedOf(m)
      BY <2>1 DEF CountedOf
    <2>3. \A c \in CountedOf(m) : c <= day
      <3> SUFFICES ASSUME NEW i \in Live(m) PROVE Day(log[m][i].at) <= day
        BY DEF CountedOf
      <3>1. /\ i \in DOMAIN log[m] /\ log[m][i].action = "CLOCK_IN"
            /\ log[m][i].at \in Nat /\ log[m][n].at \in Nat
        BY <1>t, LiveIs DEF Live
      <3>2. i <= n
        BY <1>t, <1>3, <3>1 DEF TypeOK
      <3>3. log[m][i].at <= log[m][n].at
        BY <1>8, <3>1, <3>2 DEF RInv, ClockInsInOrder
      <3> QED
        BY <3>1, <3>3, DaysFollow
    <2>4. Phase(m) = "awaitsClockIn" /\ Phase(m)' = "off"
      BY <1>3, <1>6, <1>8 DEF Phase, DecidedRow
    <2> HIDE DEF day
    <2> QED
      BY <1>7, <2>1, <2>2, <2>3, <2>4, Rejects
  <1>9. CASE ~(d = "REJECTED" /\ log[m][n].action = "CLOCK_IN")
    <2>1. \A x \in Members : CountedOf(x)' = CountedOf(x)
      BY <1>t, <1>2, <1>9, LiveShrinks
    <2>2. <<Phase(m), Phase(m)'>> \in Moves
      BY <1>3, <1>4, <1>6, <1>9 DEF Phase, DecidedRow, ApprovedState, Reviewable, Moves
    <2> QED
      BY <1>7, <2>1, <2>2, Carries
  <1> QED
    BY <1>8, <1>9

LEMMA StepImplements ==
  RInv /\ [Next]_vars =>
    [Abstract!Next]_<<[m \in Members |-> Phase(m)], [m \in Members |-> CountedOf(m)]>>
  PROOF
  <1> SUFFICES ASSUME RInv, [Next]_vars
               PROVE  [Abstract!Next]_<<[m \in Members |-> Phase(m)],
                                        [m \in Members |-> CountedOf(m)]>>
    OBVIOUS
  <1>1. SubmitStep \/ AutoStep \/ DecideStep \/ UNCHANGED <<log, review, row>>
    BY StepKinds DEF RInv, IInv
  <1>2. CASE UNCHANGED <<log, review, row>>
    BY <1>2 DEF Phase, CountedOf, Live, LiveClockIn, Effective, Day
  <1> QED
    BY <1>1, <1>2, SubmitImplements, AutoImplements, DecideImplements

LEMMA InitImplements == Init => Abstract!Init
  BY DEF Init, Abstract!Init, Phase

\* The attendance core keeps WorkSession's promises for every set of members, shifts, policies
\* and codes, whatever members, managers, workers and administrators do, and in what order.
THEOREM Implements == Spec => ImplementsWorkSession
  PROOF
  <1>1. RInv /\ [Next]_vars =>
          [Abstract!Next]_<<[m \in Members |-> Phase(m)],
                            [m \in Members |->
                               {Day(log[m][i].at) : i \in {j \in DOMAIN log[m] : LiveClockIn(m, j)}}]>>
    BY StepImplements DEF CountedOf, Live
  <1> QED
    BY <1>1, InitImplements, RInvariance, PTL DEF Spec, ImplementsWorkSession, Abstract!Spec

-----------------------------------------------------------------------------
(* What the home screen offers *)

\* A member who is back to NOT_STARTED has no clock-in of today that counts.
NoneToday ==
  \A m \in Members : row[m].state = "NOT_STARTED" =>
    \A i \in DOMAIN log[m] : LiveClockIn(m, i) => Day(log[m][i].at) < Day(now)

LEMMA NoneTodayStays == RInv /\ NoneToday /\ [Next]_vars => NoneToday'
  PROOF
  <1> SUFFICES ASSUME RInv, NoneToday, [Next]_vars,
                      NEW m \in Members, row'[m].state = "NOT_STARTED",
                      NEW i \in DOMAIN log'[m], LiveClockIn(m, i)'
               PROVE  Day(log'[m][i].at) < Day(now')
    BY DEF NoneToday, Day
  <1>t. IInv /\ TypeOK /\ OneClockInPerDay /\ ClockInsInOrder
    BY DEF RInv, IInv
  <1>1. SubmitStep \/ AutoStep \/ DecideStep \/ UNCHANGED <<log, review, row>>
    BY <1>t, StepKinds
  <1>2. Day(now) \in Int /\ Day(now') \in Int /\ Day(now) <= Day(now')
    BY <1>t, ClockRuns, TypesStay, DaysFollow DEF TypeOK
  \* A row no step has touched: the clock only runs on.
  <1>3. ASSUME row'[m] = row[m], log'[m] = log[m], LiveClockIn(m, i)
        PROVE  Day(log'[m][i].at) < Day(now')
    <2>1. Day(log[m][i].at) < Day(now)
      BY <1>3 DEF NoneToday
    <2>2. Day(log[m][i].at) \in Int
      BY <1>t, <1>3, LiveIs, DaysFollow
    <2> QED
      BY <1>2, <1>3, <2>1, <2>2
  <1>4. ASSUME NEW x \in Members, NEW e \in Event, NEW r \in {"NONE", "PENDING"}, NEW st,
               Recorded(x, e, r, st), st.state # "NOT_STARTED"
        PROVE  Day(log'[m][i].at) < Day(now')
    <2>1. x # m
      BY <1>t, <1>4 DEF Recorded, TypeOK
    <2>2. row'[m] = row[m]
      BY <1>t, <1>4, <2>1 DEF Recorded, TypeOK
    <2>3. log'[m] = log[m] /\ review'[m] = review[m]
      BY <1>t, <1>4, <2>1, GrowFacts DEF Reviews
    <2> QED
      BY <1>3, <2>2, <2>3 DEF LiveClockIn, Effective
  <1>5. CASE SubmitStep
    <2>1. PICK x \in Members, e \in Event, r \in {"NONE", "PENDING"} : Submitted(x, e, r)
      BY <1>5 DEF SubmitStep
    <2>2. SubmittedRow(x, e).state # "NOT_STARTED"
      BY DEF SubmittedRow, NextState, ApprovedState
    <2> QED
      BY <1>4, <2>1, <2>2 DEF Submitted
  <1>6. CASE AutoStep
    BY <1>4, <1>6 DEF AutoStep, AutoClosed
  <1>7. CASE DecideStep
    <2>1. PICK x \in Members : \E j \in DOMAIN log[x] :
            \E d \in {"APPROVED", "REJECTED"} : Decide(x, j, d)
      BY <1>7 DEF DecideStep
    <2>2. PICK n \in DOMAIN log[x], d \in {"APPROVED", "REJECTED"} : Decide(x, n, d)
      BY <2>1
    <2>3. /\ row[x].state = "PENDING" /\ row[x].last = n /\ n = Len(log[x]) /\ log' = log
          /\ row' = [row EXCEPT ![x] = DecidedRow(log[x][n], n, d)]
      BY <1>t, <2>2, DecideKeeps
      DEF Decide, Undecided, IInv, RowMatchesLog, OnlyLastEventPends
    <2>4. CASE x # m
      <3>1. row'[m] = row[m] /\ log'[m] = log[m] /\ review'[m] = review[m]
        BY <1>t, <2>2, <2>3, <2>4, DecideKeeps DEF TypeOK
      <3> QED
        BY <1>3, <3>1 DEF LiveClockIn, Effective
    <2>5. CASE x = m
      <3>1. row'[m] = DecidedRow(log[m][n], n, d)
        BY <1>t, <2>3, <2>5 DEF TypeOK
      <3>2. log[m][n].action \in Reviewable
        BY <1>t, <2>2, <2>5 DEF Decide, Undecided, IInv, RequestsAreReviewable
      <3>3. d = "REJECTED" /\ log[m][n].action = "CLOCK_IN"
        BY <3>1, <3>2 DEF DecidedRow, ApprovedState, Reviewable
      <3>4. n \in Live(m) /\ Day(log[m][i].at) \in CountedOf(m) \ {Day(log[m][n].at)}
        <4>1. n \in Live(m) /\ CountedOf(m)' = CountedOf(m) \ {Day(log[m][n].at)}
          BY <1>t, <2>2, <2>5, <3>3, LiveShrinks
        <4>2. Day(log[m][i].at)' \in CountedOf(m)'
          BY DEF CountedOf, Live
        <4> QED
          BY <2>3, <4>1, <4>2 DEF Day
      <3>5. i \in DOMAIN log[m] /\ log[m][i].action = "CLOCK_IN"
        BY <2>3 DEF LiveClockIn
      <3>6. i <= n /\ log[m][i].at \in Nat /\ log[m][n].at \in Nat
        BY <1>t, <2>3, <2>5, <3>5, LiveIs DEF TypeOK
      <3>7. log[m][i].at <= log[m][n].at /\ log[m][n].at <= now /\ now \in Nat
        BY <1>t, <2>5, <3>3, <3>5, <3>6 DEF ClockInsInOrder, TypeOK
      <3>8. /\ Day(log[m][i].at) \in Int /\ Day(log[m][n].at) \in Int
            /\ Day(log[m][i].at) <= Day(log[m][n].at) /\ Day(log[m][n].at) <= Day(now)
        BY <3>6, <3>7, DaysFollow
      <3> QED
        BY <1>2, <2>3, <3>4, <3>8
    <2> QED
      BY <2>4, <2>5
  <1>8. CASE UNCHANGED <<log, review, row>>
    BY <1>3, <1>8 DEF LiveClockIn, Effective
  <1> QED
    BY <1>1, <1>5, <1>6, <1>7, <1>8

\* The home screen never offers a clock-in that Submit refuses: neither as illegal in the
\* member's state, nor because a clock-in of today counts already.
THEOREM OffersLegalClockIn == Spec => []TodayOffersLegalClockIn
  PROOF
  <1>1. Init => NoneToday
    BY DEF Init, NoneToday
  <1>2. Spec => []NoneToday
    BY <1>1, NoneTodayStays, RInvariance, PTL DEF Spec
  <1>3. RInv /\ NoneToday => TodayOffersLegalClockIn
    <2> SUFFICES ASSUME RInv, NoneToday, NEW m \in Members, TodayShows(m) = "NOT_STARTED"
                 PROVE  "CLOCK_IN" \in Accepts(row[m].state) /\ ~ClockInRecordedToday(m)
      BY DEF TodayOffersLegalClockIn
    <2>1. CASE row[m].state = "COMPLETED" /\ ~ClockInRecordedToday(m)
      BY <2>1 DEF Accepts
    <2>2. CASE row[m].state = "NOT_STARTED"
      <3>1. \A i \in DOMAIN log[m] : LiveClockIn(m, i) => Day(log[m][i].at) # Day(now)
        <4> TAKE i \in DOMAIN log[m]
        <4>1. log[m][i].at \in Nat /\ now \in Nat
          BY LiveIs DEF RInv, IInv, TypeOK
        <4>2. Day(log[m][i].at) \in Int /\ Day(now) \in Int
          BY <4>1, DaysFollow
        <4> QED
          BY <2>2, <4>2 DEF NoneToday
      <3> QED
        BY <2>2, <3>1 DEF Accepts, ClockInRecordedToday
    <2> QED
      BY <2>1, <2>2 DEF TodayShows
  <1> QED
    BY <1>2, <1>3, RInvariance, PTL
=============================================================================
