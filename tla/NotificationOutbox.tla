------------------------- MODULE NotificationOutbox -------------------------
(***************************************************************************)
(* Announcements and their push notifications.  Publishing writes one row  *)
(* of notification_outbox a recipient; a worker in every API process reads *)
(* the rows that are due, claims them one after the other and sends each   *)
(* to the devices of its recipient.  A worker keeps what it has read       *)
(* between its statements, and may stop between any two of them.           *)
(*                                                                         *)
(* available_at is kept as the minutes still to wait for it.               *)
(***************************************************************************)
EXTENDS Integers, FiniteSets

CONSTANTS
  Rows,         \* ids of notification_outbox
  Members,      \* active organization_memberships
  Recipient,    \* [Rows -> Members], the notification's membership
  Tokens,       \* push tokens of devices
  Workers,      \* API processes
  MaxAttempts,  \* attempts<10
  Nobody, Idle

Status == {"NONE", "PENDING", "PROCESSING", "FAILED", "SENT"}
Open == {"PENDING", "FAILED"}

\* 1 << min(attempts, 8) minutes, for attempts from 1.
Backoff(attempts) == <<2, 4, 8, 16, 32, 64, 128, 256>>[IF attempts < 8 THEN attempts ELSE 8]

\* A claimed row: the attempts read with it and, once they are read, the tokens
\* of the recipient and those of them still to be sent to.
Job == [row: Rows, at: {"claimed", "sending"}, attempts: Nat,
        tokens: SUBSET Tokens, todo: SUBSET Tokens]

ASSUME WorkersAreFinite == IsFiniteSet(Workers) /\ Workers # {}
ASSUME RowsHaveRecipients == Recipient \in [Rows -> Members] /\ Nobody \notin Members
ASSUME AttemptsAreBounded == MaxAttempts \in Nat \ {0}
ASSUME IdleIsNoJob == Idle \notin Job

VARIABLES
  status, attempts, wait,  \* the columns of notification_outbox
  holder,                  \* device_registrations: the user a token is stored for
  batch,                   \* the ids a worker has read and not handled
  job,                     \* the row a worker is delivering
  copies                   \* how often a device was given the notification of a row

rowVars == <<status, attempts, wait>>
vars == <<status, attempts, wait, holder, batch, job, copies>>

-----------------------------------------------------------------------------
(* enqueueAnnouncementTx, registerDevice, revokeDevice *)

\* One transaction writes the rows of all recipients.
Publish(S) ==
  /\ \A r \in S : status[r] = "NONE"
  /\ \A r, s \in S : r # s => Recipient[r] # Recipient[s]
  /\ status' = [r \in Rows |-> IF r \in S THEN "PENDING" ELSE status[r]]
  /\ UNCHANGED <<attempts, wait, holder, batch, job, copies>>

\* The unique key over the hash of the token: a token stored for another user
\* stays his, and the request is answered with an error.
RegisterDevice(m, t) ==
  /\ holder[t] = Nobody
  /\ holder' = [holder EXCEPT ![t] = m]
  /\ UNCHANGED <<status, attempts, wait, batch, job, copies>>

RevokeDevice(t) ==
  /\ holder[t] # Nobody
  /\ holder' = [holder EXCEPT ![t] = Nobody]
  /\ UNCHANGED <<status, attempts, wait, batch, job, copies>>

-----------------------------------------------------------------------------
(* RunNotificationOutboxOnce *)

\* Mutant: rows are retried without end.
DueForever == {r \in Rows : status[r] \in Open /\ wait[r] = 0}
\* Mutant: a failed row is not read again.
DueOnce == {r \in Rows : status[r] = "PENDING" /\ wait[r] = 0}

Due == {r \in Rows : status[r] \in Open /\ attempts[r] < MaxAttempts /\ wait[r] = 0}

ReadDue(w) ==
  /\ batch[w] = {} /\ job[w] = Idle /\ Due # {}
  /\ batch' = [batch EXCEPT ![w] = Due]
  /\ UNCHANGED <<status, attempts, wait, holder, job, copies>>

-----------------------------------------------------------------------------
(* deliverOutbox *)

\* Mutant: the status is not read again under the lock.
ClaimAnyway(r) == status[r] # "NONE"

Claimable(r) == status[r] \in Open

\* The row is locked, read again, and marked; a row another worker has taken
\* or finished is left alone.
Claim(w, r) ==
  /\ job[w] = Idle /\ r \in batch[w]
  /\ batch' = [batch EXCEPT ![w] = @ \ {r}]
  /\ IF Claimable(r)
     THEN /\ status' = [status EXCEPT ![r] = "PROCESSING"]
          /\ job' = [job EXCEPT ![w] = [row |-> r, at |-> "claimed", attempts |-> attempts[r],
                                        tokens |-> {}, todo |-> {}]]
     ELSE UNCHANGED <<status, job>>
  /\ UNCHANGED <<attempts, wait, holder, copies>>

TokensOf(m) == {t \in Tokens : holder[t] = m}

ReadTokens(w) ==
  /\ job[w] # Idle /\ job[w].at = "claimed"
  /\ LET tokens == TokensOf(Recipient[job[w].row])
     IN  job' = [job EXCEPT ![w].at = "sending", ![w].tokens = tokens, ![w].todo = tokens]
  /\ UNCHANGED <<status, attempts, wait, holder, batch, copies>>

Sending(w) == job[w] # Idle /\ job[w].at = "sending"

Deliver(w, t) == copies' = [copies EXCEPT ![job[w].row][t] = @ + 1]

\* Mutant: the loop does not go on to the next token.
SendAgain(w, t) ==
  /\ Sending(w) /\ t \in job[w].todo
  /\ Deliver(w, t)
  /\ UNCHANGED <<status, attempts, wait, holder, batch, job>>

Send(w, t) ==
  /\ Sending(w) /\ t \in job[w].todo
  /\ Deliver(w, t)
  /\ job' = [job EXCEPT ![w].todo = @ \ {t}]
  /\ UNCHANGED <<status, attempts, wait, holder, batch>>

\* The first error ends the delivery; the provider may have taken the message
\* and only its answer be lost.
SendFails(w, t) ==
  /\ Sending(w) /\ t \in job[w].todo
  /\ \/ Deliver(w, t)
     \/ UNCHANGED copies
  /\ LET r == job[w].row
         n == job[w].attempts + 1
     IN  /\ status' = [status EXCEPT ![r] = "FAILED"]
         /\ attempts' = [attempts EXCEPT ![r] = n]
         /\ wait' = [wait EXCEPT ![r] = Backoff(n)]
  /\ job' = [job EXCEPT ![w] = Idle]
  /\ UNCHANGED <<holder, batch>>

\* Mutant: the row is marked before the loop has ended.
FinishEarly(w) ==
  /\ Sending(w)
  /\ status' = [status EXCEPT ![job[w].row] = "SENT"]
  /\ attempts' = [attempts EXCEPT ![job[w].row] = @ + 1]
  /\ job' = [job EXCEPT ![w] = Idle]
  /\ UNCHANGED <<wait, holder, batch, copies>>

Finish(w) ==
  /\ Sending(w) /\ job[w].todo = {}
  /\ status' = [status EXCEPT ![job[w].row] = "SENT"]
  /\ attempts' = [attempts EXCEPT ![job[w].row] = @ + 1]
  /\ job' = [job EXCEPT ![w] = Idle]
  /\ UNCHANGED <<wait, holder, batch, copies>>

\* The process stops, or a statement returns an error and ends the round.
Stop(w) ==
  /\ batch[w] # {} \/ job[w] # Idle
  /\ batch' = [batch EXCEPT ![w] = {}]
  /\ job' = [job EXCEPT ![w] = Idle]
  /\ UNCHANGED <<status, attempts, wait, holder, copies>>

Tick ==
  /\ \E r \in Rows : wait[r] > 0
  /\ wait' = [r \in Rows |-> IF wait[r] > 0 THEN wait[r] - 1 ELSE 0]
  /\ UNCHANGED <<status, attempts, holder, batch, job, copies>>

-----------------------------------------------------------------------------
Init ==
  /\ status = [r \in Rows |-> "NONE"]
  /\ attempts = [r \in Rows |-> 0]
  /\ wait = [r \in Rows |-> 0]
  /\ holder = [t \in Tokens |-> Nobody]
  /\ batch = [w \in Workers |-> {}]
  /\ job = [w \in Workers |-> Idle]
  /\ copies = [r \in Rows |-> [t \in Tokens |-> 0]]

Delivers(w) ==
  \/ ReadTokens(w)
  \/ \E t \in Tokens : Send(w, t) \/ SendFails(w, t)
  \/ Finish(w)

Devices ==
  \E t \in Tokens : RevokeDevice(t) \/ \E m \in Members : RegisterDevice(m, t)

Next ==
  \/ \E S \in SUBSET Rows \ {{}} : Publish(S)
  \/ Devices
  \/ \E w \in Workers :
       ReadDue(w) \/ (\E r \in Rows : Claim(w, r)) \/ Delivers(w) \/ Stop(w)
  \/ Tick

Spec == Init /\ [][Next]_vars

\* Time passes, a process that runs works, and not every round is interrupted
\* before it comes to a given row.
Fairness ==
  /\ WF_vars(Tick)
  /\ \A w \in Workers :
       /\ WF_vars(ReadDue(w)) /\ WF_vars(Delivers(w))
       /\ \A r \in Rows : SF_vars(Claim(w, r))

LiveSpec == Spec /\ Fairness
-----------------------------------------------------------------------------
(* Properties *)

TypeOK ==
  /\ status \in [Rows -> Status] /\ attempts \in [Rows -> Nat] /\ wait \in [Rows -> Nat]
  /\ holder \in [Tokens -> Members \cup {Nobody}]
  /\ batch \in [Workers -> SUBSET Rows]
  /\ job \in [Workers -> Job \cup {Idle}]
  /\ copies \in [Rows -> [Tokens -> Nat]]

\* A row is delivered by one worker at a time, the one that set it PROCESSING,
\* however old the list it took the row from.
OneWorkerPerRow ==
  \A v, w \in Workers :
    job[w] # Idle =>
      /\ status[job[w].row] = "PROCESSING" /\ attempts[job[w].row] = job[w].attempts
      /\ v # w /\ job[v] # Idle => job[v].row # job[w].row

\* The bound on the retries is checked when the list is read and not when a row
\* is claimed, so each other worker can add one attempt, and no more.
RetriesAreBounded ==
  \A r \in Rows : attempts[r] <= MaxAttempts + Cardinality(Workers) - 1

\* A device is given a notification at most once an attempt: what a failure on
\* one device repeats on the others is bounded by the attempts.
CopiesAreBounded ==
  \A r \in Rows, t \in Tokens :
    copies[r][t] <= attempts[r] + IF status[r] = "PROCESSING" THEN 1 ELSE 0

\* A row becomes SENT when every device its recipient had, when the tokens were
\* read, was given the notification, and never changes again.
SentToAll ==
  [][\A r \in Rows :
       /\ status[r] # "SENT" /\ status'[r] = "SENT" =>
            \E w \in Workers : /\ job[w] # Idle /\ job[w].row = r
                               /\ \A t \in job[w].tokens : copies[r][t] > 0
       /\ status[r] = "SENT" =>
            status'[r] = "SENT" /\ attempts'[r] = attempts[r] /\ copies'[r] = copies[r]]_vars

Exhausted(r) == status[r] = "FAILED" /\ attempts[r] >= MaxAttempts

\* The worker that claimed the row has stopped.
Abandoned(r) ==
  status[r] = "PROCESSING" /\ \A w \in Workers : job[w] = Idle \/ job[w].row # r

\* A notification is sent, or its attempts are used up, or its worker stopped.
RowsEnd ==
  \A r \in Rows :
    (status[r] = "PENDING") ~> (status[r] = "SENT" \/ Exhausted(r) \/ Abandoned(r))

\* The outbox as the database design describes it: a row goes on from PROCESSING
\* to SENT or to one of its FAILED retries.
ProcessingEnds ==
  \A r \in Rows : (status[r] = "PROCESSING") ~> (status[r] \in {"SENT", "FAILED"})

\* A failed row is not tried again before its back-off is over.
BackoffIsKept ==
  [][\A r \in Rows : status[r] = "FAILED" /\ status'[r] = "PROCESSING" => wait[r] = 0]_vars
=============================================================================
