---------------------------- MODULE OutboxProofs ----------------------------
(***************************************************************************)
(* Theorems about the two outboxes:                                        *)
(*   - the server's (NotificationOutbox), for every set of rows, tokens    *)
(*     and workers and every number of attempts;                           *)
(*   - the phone's (OfflineOutbox), for any memberships on the phone, any  *)
(*     number of presses and of troubles, and either policy.               *)
(***************************************************************************)
EXTENDS NotificationOutbox, OfflineOutbox, FiniteSetTheorems, SequenceTheorems, TLAPS

\* What a delivery has and has not sent.
JobAgrees(w) ==
  job[w] # Idle =>
    LET r == job[w].row
    IN  /\ r \notin batch[w]
        /\ job[w].todo \subseteq job[w].tokens
        /\ job[w].at = "claimed" => \A t \in Tokens : copies[r][t] <= attempts[r]
        /\ \A t \in job[w].todo : copies[r][t] <= attempts[r]
        /\ \A t \in job[w].tokens \ job[w].todo : copies[r][t] > 0
JobsAgree == \A w \in Workers : JobAgrees(w)

\* The workers that have the row on their list or are delivering it.
Engaged(r) == {w \in Workers : r \in batch[w] \/ (job[w] # Idle /\ job[w].row = r)}

\* Past the bound every attempt costs one of the workers that read the row before.
RetriesLeft ==
  \A r \in Rows :
    attempts[r] < MaxAttempts \/
    attempts[r] + Cardinality(Engaged(r)) <= MaxAttempts + Cardinality(Workers) - 1

IInv == TypeOK /\ OneWorkerPerRow /\ JobsAgree /\ CopiesAreBounded /\ RetriesLeft

-----------------------------------------------------------------------------
LEMMA EngagedIsFinite ==
  ASSUME NEW r
  PROVE  /\ IsFiniteSet(Engaged(r)) /\ Cardinality(Engaged(r)) \in Nat
         /\ Cardinality(Workers) \in Nat /\ Cardinality(Workers) > 0
<1>1. Engaged(r) \in SUBSET Workers BY DEF Engaged
<1>2. IsFiniteSet(Engaged(r)) BY <1>1, FS_Subset, WorkersAreFinite
<1>3. Cardinality(Workers) \in Nat /\ Cardinality(Workers) # 0
  BY FS_CardinalityType, FS_EmptySet, WorkersAreFinite
<1> QED BY <1>2, <1>3, FS_CardinalityType

LEMMA JobType ==
  ASSUME TypeOK, NEW w \in Workers, job[w] # Idle
  PROVE  /\ job[w] \in Job /\ job[w].row \in Rows /\ job[w].attempts \in Nat
         /\ job[w].at \in {"claimed", "sending"}
         /\ job[w].tokens \subseteq Tokens /\ job[w].todo \subseteq Tokens
BY DEF TypeOK, Job

\* RetriesLeft is kept when no row is engaged by more workers, unless it is due,
\* and an attempt is counted only when a worker lets go of the row.
LEMMA RetriesKept ==
  ASSUME TypeOK, TypeOK', RetriesLeft,
         \A r \in Rows :
           \/ attempts'[r] = attempts[r]
              /\ (attempts[r] < MaxAttempts \/ Engaged(r)' \subseteq Engaged(r))
           \/ attempts'[r] = attempts[r] + 1
              /\ \E w \in Engaged(r) : Engaged(r)' \subseteq Engaged(r) \ {w}
  PROVE  RetriesLeft'
<1> SUFFICES ASSUME NEW r \in Rows
             PROVE  \/ attempts'[r] < MaxAttempts
                    \/ attempts'[r] + Cardinality(Engaged(r)')
                         <= MaxAttempts + Cardinality(Workers) - 1
  BY DEF RetriesLeft
<1> DEFINE E == Engaged(r)
<1>1. attempts[r] \in Nat /\ MaxAttempts \in Nat BY AttemptsAreBounded DEF TypeOK
<1>2. E \subseteq Workers BY DEF Engaged
<1>3. IsFiniteSet(E) /\ Cardinality(E) \in Nat /\ Cardinality(Workers) \in Nat
  BY EngagedIsFinite
<1>4. \/ attempts[r] < MaxAttempts
      \/ attempts[r] + Cardinality(E) <= MaxAttempts + Cardinality(Workers) - 1
  BY DEF RetriesLeft
<1>5. ASSUME NEW S, S \subseteq E
      PROVE  Cardinality(S) \in Nat /\ Cardinality(S) <= Cardinality(E)
  BY <1>3, <1>5, FS_Subset, FS_CardinalityType
<1>6. ASSUME NEW S, NEW w \in E, S \subseteq E \ {w}
      PROVE  /\ Cardinality(S) \in Nat /\ Cardinality(S) <= Cardinality(E) - 1
             /\ Cardinality(S) <= Cardinality(Workers) - 1
  <2>1. Cardinality(E \ {w}) = Cardinality(E) - 1 /\ IsFiniteSet(E \ {w})
    BY <1>3, FS_RemoveElement
  <2>2. Cardinality(S) \in Nat /\ Cardinality(S) <= Cardinality(E \ {w})
    BY <1>6, <2>1, FS_Subset, FS_CardinalityType
  <2>3. Cardinality(E) <= Cardinality(Workers) BY <1>2, FS_Subset, WorkersAreFinite
  <2> QED BY <1>3, <2>1, <2>2, <2>3
<1>7. CASE /\ attempts'[r] = attempts[r]
           /\ (attempts[r] < MaxAttempts \/ Engaged(r)' \subseteq E)
  <2>1. CASE attempts[r] < MaxAttempts BY <1>7, <2>1
  <2>2. CASE Engaged(r)' \subseteq E
    <3>1. Cardinality(Engaged(r)') \in Nat /\ Cardinality(Engaged(r)') <= Cardinality(E)
      BY <1>5, <2>2
    <3> HIDE DEF E
    <3> QED BY <1>1, <1>3, <1>4, <1>7, <3>1
  <2> QED BY <1>7, <2>1, <2>2
<1>8. ASSUME attempts'[r] = attempts[r] + 1,
             NEW w \in E, Engaged(r)' \subseteq E \ {w}
      PROVE  \/ attempts'[r] < MaxAttempts
             \/ attempts'[r] + Cardinality(Engaged(r)')
                  <= MaxAttempts + Cardinality(Workers) - 1
  <2>1. /\ Cardinality(Engaged(r)') \in Nat /\ Cardinality(Engaged(r)') <= Cardinality(E) - 1
        /\ Cardinality(Engaged(r)') <= Cardinality(Workers) - 1
    BY <1>6, <1>8
  <2> HIDE DEF E
  <2> QED BY <1>1, <1>3, <1>4, <1>8, <2>1
<1> QED BY <1>7, <1>8

-----------------------------------------------------------------------------
(* The steps of a worker *)

LEMMA ReadDueKeeps ==
  ASSUME IInv, NEW w \in Workers, ReadDue(w)
  PROVE  IInv'
<1> USE DEF IInv, ReadDue
<1>1. batch'[w] = Due /\ \A v \in Workers \ {w} : batch'[v] = batch[v] BY DEF TypeOK
<1>2. TypeOK' BY DEF TypeOK, Due
<1>3. OneWorkerPerRow' BY DEF OneWorkerPerRow
<1>4. JobsAgree' BY <1>1 DEF JobsAgree, JobAgrees
<1>5. CopiesAreBounded' BY DEF CopiesAreBounded
<1>6. \A r \in Rows : attempts[r] < MaxAttempts \/ Engaged(r)' \subseteq Engaged(r)
  BY <1>1 DEF Due, Engaged
<1>7. RetriesLeft' BY <1>2, <1>6, RetriesKept
<1> QED BY <1>2, <1>3, <1>4, <1>5, <1>7

LEMMA ClaimKeeps ==
  ASSUME IInv, NEW w \in Workers, NEW r \in Rows, Claim(w, r)
  PROVE  IInv'
<1> USE DEF IInv
<1> DEFINE new == [row |-> r, at |-> "claimed", attempts |-> attempts[r],
                   tokens |-> {}, todo |-> {}]
<1>1. /\ job[w] = Idle /\ r \in batch[w] /\ batch' = [batch EXCEPT ![w] = @ \ {r}]
      /\ UNCHANGED <<attempts, wait, holder, copies>>
  BY DEF Claim
<1>2. /\ batch'[w] = batch[w] \ {r}
      /\ \A v \in Workers \ {w} : batch'[v] = batch[v]
  BY <1>1 DEF TypeOK
<1>3. CASE ~Claimable(r)
  <2>1. UNCHANGED <<status, job>> BY <1>3 DEF Claim
  <2>2. TypeOK' BY <1>1, <2>1 DEF TypeOK
  <2>3. OneWorkerPerRow' BY <1>1, <2>1 DEF OneWorkerPerRow
  <2>4. JobsAgree' BY <1>1, <1>2, <2>1 DEF JobsAgree, JobAgrees
  <2>5. CopiesAreBounded' BY <1>1, <2>1 DEF CopiesAreBounded
  <2>6. \A q \in Rows : Engaged(q)' \subseteq Engaged(q) BY <1>2, <2>1 DEF Engaged
  <2>7. RetriesLeft' BY <1>1, <2>2, <2>6, RetriesKept
  <2> QED BY <2>2, <2>3, <2>4, <2>5, <2>7
<1>4. CASE Claimable(r)
  <2>1. status' = [status EXCEPT ![r] = "PROCESSING"] /\ job' = [job EXCEPT ![w] = new]
    BY <1>4 DEF Claim
  <2>2. /\ new \in Job /\ new.row = r /\ new.attempts = attempts[r] /\ new.at = "claimed"
        /\ new.tokens = {} /\ new.todo = {}
    BY DEF Job, TypeOK
  <2> HIDE DEF new
  <2>3. /\ job'[w] = new /\ \A v \in Workers \ {w} : job'[v] = job[v]
        /\ status'[r] = "PROCESSING" /\ \A q \in Rows \ {r} : status'[q] = status[q]
        /\ new # Idle
    BY <2>1, <2>2, IdleIsNoJob DEF TypeOK
  <2>4. status[r] \in {"PENDING", "FAILED"} BY <1>4 DEF Claimable, Open
  <2>5. \A v \in Workers : job[v] # Idle => job[v].row # r
    BY <2>4 DEF OneWorkerPerRow
  <2>6. TypeOK' BY <1>1, <2>1, <2>2 DEF TypeOK, Status
  <2>7. \A v \in Workers : job[v] # Idle => job[v].row \in Rows BY JobType
  <2>8. OneWorkerPerRow' BY <1>1, <2>2, <2>3, <2>5, <2>7 DEF OneWorkerPerRow
  <2>9. \A t \in Tokens : copies[r][t] <= attempts[r]
    BY <2>4 DEF CopiesAreBounded, TypeOK
  <2>10. JobAgrees(w)' BY <1>1, <1>2, <2>2, <2>3, <2>9 DEF JobAgrees
  <2>11. JobsAgree' BY <1>1, <1>2, <2>3, <2>10 DEF JobsAgree, JobAgrees
  <2>12. CopiesAreBounded' BY <1>1, <2>3, <2>9 DEF CopiesAreBounded, TypeOK
  <2>13. \A q \in Rows : Engaged(q)' \subseteq Engaged(q)
    BY <1>1, <1>2, <2>2, <2>3 DEF Engaged
  <2>14. RetriesLeft' BY <1>1, <2>6, <2>13, RetriesKept
  <2> QED BY <2>6, <2>8, <2>11, <2>12, <2>14
<1> QED BY <1>3, <1>4

LEMMA ReadTokensKeeps ==
  ASSUME IInv, NEW w \in Workers, ReadTokens(w)
  PROVE  IInv'
<1> USE DEF IInv
<1>1. PICK tokens \in SUBSET Tokens :
        job' = [job EXCEPT ![w].at = "sending", ![w].tokens = tokens, ![w].todo = tokens]
  BY DEF ReadTokens, TokensOf
<1>2. /\ job[w] # Idle /\ job[w].at = "claimed"
      /\ UNCHANGED <<status, attempts, wait, holder, batch, copies>>
  BY DEF ReadTokens
<1>3. job[w] \in Job BY <1>2, JobType
<1>4. /\ job'[w] \in Job /\ job'[w].row = job[w].row /\ job'[w].attempts = job[w].attempts
      /\ job'[w].at = "sending" /\ job'[w].tokens = tokens /\ job'[w].todo = tokens
      /\ \A v \in Workers \ {w} : job'[v] = job[v]
  BY <1>1, <1>3 DEF TypeOK, Job
<1>5. job'[w] # Idle BY <1>4, IdleIsNoJob
<1>6. TypeOK'
  <2>1. job' = [v \in Workers |-> job'[v]] BY <1>1 DEF TypeOK
  <2>2. \A v \in Workers : job'[v] \in Job \cup {Idle} BY <1>4 DEF TypeOK
  <2>3. job' \in [Workers -> Job \cup {Idle}] BY <2>1, <2>2
  <2> QED BY <1>2, <2>3 DEF TypeOK
<1>7. OneWorkerPerRow' BY <1>2, <1>4, <1>5 DEF OneWorkerPerRow
<1>8. JobAgrees(w)'
  <2>1. JobAgrees(w) BY DEF JobsAgree
  <2> QED BY <1>2, <1>4, <2>1 DEF JobAgrees
<1>9. JobsAgree' BY <1>2, <1>4, <1>8 DEF JobsAgree, JobAgrees
<1>10. CopiesAreBounded' BY <1>2 DEF CopiesAreBounded
<1>11. \A r \in Rows : Engaged(r)' \subseteq Engaged(r)
  BY <1>2, <1>4, <1>5 DEF Engaged
<1>12. RetriesLeft' BY <1>2, <1>6, <1>11, RetriesKept
<1> QED BY <1>6, <1>7, <1>9, <1>10, <1>12

LEMMA SendKeeps ==
  ASSUME IInv, NEW w \in Workers, NEW t \in Tokens, Send(w, t)
  PROVE  IInv'
<1> USE DEF IInv
<1> DEFINE r == job[w].row
<1>1. /\ job[w] # Idle /\ t \in job[w].todo
      /\ copies' = [copies EXCEPT ![r][t] = @ + 1]
      /\ job' = [job EXCEPT ![w].todo = @ \ {t}]
      /\ UNCHANGED <<status, attempts, wait, holder, batch>>
  BY DEF Send, Sending, Deliver
<1>2. job[w] \in Job /\ r \in Rows /\ job[w].tokens \subseteq Tokens
  BY <1>1, JobType
<1>3. JobAgrees(w) BY DEF JobsAgree
<1> HIDE DEF r
<1>4. /\ copies'[r][t] = copies[r][t] + 1
      /\ \A u \in Tokens \ {t} : copies'[r][u] = copies[r][u]
      /\ \A q \in Rows \ {r} : copies'[q] = copies[q]
      /\ copies' \in [Rows -> [Tokens -> Nat]]
  BY <1>1, <1>2 DEF TypeOK
<1>5. /\ job'[w] \in Job /\ job'[w].row = r /\ job'[w].attempts = job[w].attempts
      /\ job'[w].at = job[w].at /\ job'[w].tokens = job[w].tokens
      /\ job'[w].todo = job[w].todo \ {t}
      /\ \A v \in Workers \ {w} : job'[v] = job[v]
  BY <1>1, <1>2 DEF TypeOK, Job, r
<1>6. job'[w] # Idle BY <1>5, IdleIsNoJob
<1>7. TypeOK'
  <2>1. job' = [v \in Workers |-> job'[v]] BY <1>1 DEF TypeOK
  <2>2. \A v \in Workers : job'[v] \in Job \cup {Idle} BY <1>5 DEF TypeOK
  <2>3. job' \in [Workers -> Job \cup {Idle}] BY <2>1, <2>2
  <2> QED BY <1>1, <1>4, <2>3 DEF TypeOK
<1>8. OneWorkerPerRow' BY <1>1, <1>5, <1>6 DEF OneWorkerPerRow, r
<1>9. status[r] = "PROCESSING" /\ attempts[r] \in Nat /\ copies[r] \in [Tokens -> Nat]
  BY <1>1, <1>2 DEF OneWorkerPerRow, TypeOK, r
<1>10. copies[r][t] <= attempts[r] BY <1>1, <1>3 DEF JobAgrees, r
<1>11. job[w].at = "sending" BY DEF Send, Sending
<1>12. JobAgrees(w)'
  <2>1. \A u \in job[w].todo \ {t} : copies'[r][u] <= attempts[r]
    BY <1>1, <1>2, <1>3, <1>4 DEF JobAgrees, r, TypeOK
  <2>2. \A u \in job[w].tokens \ (job[w].todo \ {t}) : copies'[r][u] > 0
    BY <1>1, <1>2, <1>3, <1>4, <1>9 DEF JobAgrees, r
  <2> QED BY <1>1, <1>3, <1>5, <1>11, <2>1, <2>2 DEF JobAgrees, r
<1>13. \A v \in Workers \ {w} : JobAgrees(v)'
  <2>1. \A v \in Workers \ {w} : job[v] # Idle => job[v].row # r /\ job[v].row \in Rows
    BY <1>1, JobType DEF OneWorkerPerRow, r
  <2> QED BY <1>1, <1>4, <1>5, <2>1 DEF JobsAgree, JobAgrees
<1>14. JobsAgree' BY <1>12, <1>13 DEF JobsAgree
<1>15. CopiesAreBounded'
  <2>1. \A u \in Tokens : copies'[r][u] <= attempts[r] + 1
    BY <1>2, <1>4, <1>9, <1>10 DEF CopiesAreBounded
  <2> QED BY <1>1, <1>4, <1>9, <2>1 DEF CopiesAreBounded
<1>16. \A q \in Rows : Engaged(q)' \subseteq Engaged(q)
  BY <1>1, <1>5, <1>6 DEF Engaged, r
<1>17. RetriesLeft' BY <1>1, <1>7, <1>16, RetriesKept
<1> QED BY <1>7, <1>8, <1>14, <1>15, <1>17

LEMMA BackoffType == ASSUME NEW n \in Nat \ {0} PROVE Backoff(n) \in Nat
<1>1. (IF n < 8 THEN n ELSE 8) \in 1 .. 8 OBVIOUS
<1>2. \A k \in 1 .. 8 : <<2, 4, 8, 16, 32, 64, 128, 256>>[k] \in Nat OBVIOUS
<1> QED BY <1>1, <1>2 DEF Backoff

\* A delivery ends: its row leaves PROCESSING with one attempt more.
LEMMA EndKeeps ==
  ASSUME IInv, NEW w \in Workers, Sending(w), NEW s \in {"FAILED", "SENT"},
         status' = [status EXCEPT ![job[w].row] = s],
         attempts' = [attempts EXCEPT ![job[w].row] = @ + 1],
         wait' \in [Rows -> Nat], UNCHANGED <<holder, batch>>,
         job' = [job EXCEPT ![w] = Idle],
         UNCHANGED copies \/ \E t \in job[w].todo : Deliver(w, t)
  PROVE  IInv'
<1> USE DEF IInv
<1> PICK r : r = job[w].row OBVIOUS
<1>1. /\ job[w] # Idle /\ r \in Rows /\ job[w].todo \subseteq Tokens /\ r = job[w].row
      /\ UNCHANGED <<holder, batch>>
  BY JobType DEF Sending
<1>2. JobAgrees(w) BY DEF JobsAgree
<1>3. status[r] = "PROCESSING" BY <1>1 DEF OneWorkerPerRow
<1>4. /\ status'[r] = s /\ attempts'[r] = attempts[r] + 1 /\ attempts[r] \in Nat
      /\ \A q \in Rows \ {r} : status'[q] = status[q] /\ attempts'[q] = attempts[q]
      /\ job'[w] = Idle /\ \A v \in Workers \ {w} : job'[v] = job[v]
  BY <1>1 DEF TypeOK
<1>5. /\ copies' \in [Rows -> [Tokens -> Nat]]
      /\ \A q \in Rows \ {r} : copies'[q] = copies[q]
      /\ \A u \in Tokens : copies'[r][u] <= attempts[r] + 1
  <2>1. \A u \in Tokens : copies[r][u] <= attempts[r] + 1 /\ copies[r][u] \in Nat
    BY <1>1, <1>3 DEF CopiesAreBounded, TypeOK
  <2>2. CASE UNCHANGED copies BY <2>1, <2>2 DEF TypeOK
  <2>3. ASSUME NEW t \in job[w].todo, Deliver(w, t)
        PROVE  /\ copies' \in [Rows -> [Tokens -> Nat]]
               /\ \A q \in Rows \ {r} : copies'[q] = copies[q]
               /\ \A u \in Tokens : copies'[r][u] <= attempts[r] + 1
    <3>1. copies' = [copies EXCEPT ![r][t] = @ + 1] BY <2>3 DEF Deliver
    <3>2. copies[r][t] <= attempts[r] BY <1>1, <1>2 DEF JobAgrees
    <3>3. t \in Tokens BY <1>1
    <3> QED BY <1>1, <1>4, <2>1, <3>1, <3>2, <3>3 DEF TypeOK
  <2> QED BY <2>2, <2>3
<1>6. TypeOK'
  <2>1. status' \in [Rows -> Status] BY <1>1 DEF TypeOK, Status
  <2>2. attempts' \in [Rows -> Nat] BY <1>1, <1>4 DEF TypeOK
  <2>3. job' \in [Workers -> Job \cup {Idle}] BY DEF TypeOK
  <2> QED BY <1>1, <1>5, <2>1, <2>2, <2>3 DEF TypeOK
<1>7. \A v \in Workers \ {w} : job[v] # Idle => job[v].row # r /\ job[v].row \in Rows
  BY <1>1, JobType DEF OneWorkerPerRow
<1>8. OneWorkerPerRow' BY <1>4, <1>7 DEF OneWorkerPerRow
<1>9. JobsAgree' BY <1>4, <1>5, <1>7 DEF JobsAgree, JobAgrees
<1>10. CopiesAreBounded' BY <1>4, <1>5 DEF CopiesAreBounded
<1>11. \A q \in Rows : Engaged(q)' \subseteq Engaged(q) BY <1>4 DEF Engaged
<1>12. w \in Engaged(r) /\ Engaged(r)' \subseteq Engaged(r) \ {w}
  BY <1>1, <1>2, <1>4 DEF Engaged, JobAgrees
<1>13. RetriesLeft' BY <1>4, <1>6, <1>11, <1>12, RetriesKept
<1> QED BY <1>6, <1>8, <1>9, <1>10, <1>13

LEMMA SendFailsKeeps ==
  ASSUME IInv, NEW w \in Workers, NEW t \in Tokens, SendFails(w, t)
  PROVE  IInv'
<1> USE DEF IInv
<1>1. Sending(w) /\ t \in job[w].todo BY DEF SendFails
<1>2. job[w] # Idle /\ job[w].row \in Rows /\ job[w].attempts \in Nat
  BY <1>1, JobType DEF Sending
<1>3. job[w].attempts = attempts[job[w].row] BY <1>2 DEF OneWorkerPerRow
<1>4. attempts' = [attempts EXCEPT ![job[w].row] = @ + 1]
  BY <1>2, <1>3 DEF SendFails, TypeOK
<1>5. wait' \in [Rows -> Nat]
  <2>1. Backoff(job[w].attempts + 1) \in Nat
    <3>1. job[w].attempts + 1 \in Nat \ {0} BY <1>2
    <3> QED BY <3>1, BackoffType
  <2>2. wait' = [wait EXCEPT ![job[w].row] = Backoff(job[w].attempts + 1)] BY DEF SendFails
  <2> QED BY <2>1, <2>2 DEF TypeOK
<1>6. /\ status' = [status EXCEPT ![job[w].row] = "FAILED"]
      /\ job' = [job EXCEPT ![w] = Idle] /\ UNCHANGED <<holder, batch>>
      /\ UNCHANGED copies \/ Deliver(w, t)
  BY DEF SendFails
<1> QED BY <1>1, <1>4, <1>5, <1>6, EndKeeps

LEMMA FinishKeeps ==
  ASSUME IInv, NEW w \in Workers, Finish(w)
  PROVE  IInv'
<1>1. wait' \in [Rows -> Nat] BY DEF Finish, IInv, TypeOK
<1> QED BY <1>1, EndKeeps DEF Finish

LEMMA StopKeeps ==
  ASSUME IInv, NEW w \in Workers, Stop(w)
  PROVE  IInv'
<1> USE DEF IInv, Stop
<1>1. /\ batch'[w] = {} /\ job'[w] = Idle
      /\ \A v \in Workers \ {w} : batch'[v] = batch[v] /\ job'[v] = job[v]
  BY DEF TypeOK
<1>2. TypeOK' BY DEF TypeOK
<1>3. OneWorkerPerRow' BY <1>1 DEF OneWorkerPerRow
<1>4. JobsAgree' BY <1>1 DEF JobsAgree, JobAgrees
<1>5. CopiesAreBounded' BY DEF CopiesAreBounded
<1>6. \A r \in Rows : Engaged(r)' \subseteq Engaged(r) BY <1>1 DEF Engaged
<1>7. RetriesLeft' BY <1>2, <1>6, RetriesKept
<1> QED BY <1>2, <1>3, <1>4, <1>5, <1>7

\* A step that touches neither a delivery nor a row that was written.
LEMMA OutsideKeeps ==
  ASSUME IInv, TypeOK', UNCHANGED <<attempts, batch, job, copies>>,
         \A r \in Rows : status'[r] = status[r] \/ status[r] = "NONE"
  PROVE  IInv'
<1> USE DEF IInv
<1>1. \A w \in Workers : job[w] # Idle => job[w].row \in Rows BY JobType
<1>2. OneWorkerPerRow' BY <1>1 DEF OneWorkerPerRow
<1>3. JobsAgree' BY DEF JobsAgree, JobAgrees
<1>4. CopiesAreBounded' BY DEF CopiesAreBounded, TypeOK
<1>5. \A r \in Rows : Engaged(r)' \subseteq Engaged(r) BY DEF Engaged
<1>6. RetriesLeft' BY <1>5, RetriesKept
<1> QED BY <1>2, <1>3, <1>4, <1>6

LEMMA StepKeeps ==
  ASSUME IInv, [Next]_vars
  PROVE  IInv'
<1>1. TypeOK BY DEF IInv
<1>2. ASSUME NEW S \in SUBSET Rows, Publish(S)
      PROVE  IInv'
  <2>1. TypeOK' BY <1>1, <1>2 DEF Publish, TypeOK, Status
  <2> QED BY <1>2, <2>1, OutsideKeeps DEF Publish
<1>3. CASE Devices
  <2>1. TypeOK' BY <1>1, <1>3 DEF Devices, RegisterDevice, RevokeDevice, TypeOK
  <2> QED BY <1>3, <2>1, OutsideKeeps DEF Devices, RegisterDevice, RevokeDevice
<1>4. ASSUME NEW w \in Workers,
             ReadDue(w) \/ (\E r \in Rows : Claim(w, r)) \/ Delivers(w) \/ Stop(w)
      PROVE  IInv'
  BY <1>4, ReadDueKeeps, ClaimKeeps, ReadTokensKeeps, SendKeeps, SendFailsKeeps, FinishKeeps,
     StopKeeps DEF Delivers
<1>5. CASE Tick
  <2>1. TypeOK' BY <1>1, <1>5 DEF Tick, TypeOK
  <2> QED BY <1>5, <2>1, OutsideKeeps DEF Tick
<1>6. CASE UNCHANGED vars
  <2>1. TypeOK' BY <1>1, <1>6 DEF vars, TypeOK
  <2> QED BY <1>6, <2>1, OutsideKeeps DEF vars
<1> QED BY <1>2, <1>3, <1>4, <1>5, <1>6 DEF Next

LEMMA InitHolds == Init => IInv
<1> SUFFICES ASSUME Init PROVE IInv OBVIOUS
<1>1. TypeOK BY DEF Init, TypeOK, Status
<1>2. OneWorkerPerRow /\ JobsAgree BY DEF Init, OneWorkerPerRow, JobsAgree, JobAgrees
<1>3. CopiesAreBounded BY DEF Init, CopiesAreBounded
<1>4. RetriesLeft BY AttemptsAreBounded DEF Init, RetriesLeft
<1> QED BY <1>1, <1>2, <1>3, <1>4 DEF IInv

\* The inductive invariant of the outbox holds in every reachable state.
THEOREM Invariance == Spec => []IInv
BY InitHolds, StepKeeps, PTL DEF Spec

\* Every column and every worker's list keeps its type.
THEOREM TypeCorrect == Spec => []TypeOK
<1>1. IInv => TypeOK BY DEF IInv
<1> QED BY <1>1, Invariance, PTL

\* deliverOutbox reads the status again under the row's lock, so however old the
\* lists of the workers are, no two of them deliver one row.
THEOREM Exclusive == Spec => []OneWorkerPerRow
<1>1. IInv => OneWorkerPerRow BY DEF IInv
<1> QED BY <1>1, Invariance, PTL

\* A row is tried at most MaxAttempts times and once more for every worker but one.
THEOREM BoundedRetries == Spec => []RetriesAreBounded
<1>1. ASSUME IInv, NEW r \in Rows
      PROVE  attempts[r] <= MaxAttempts + Cardinality(Workers) - 1
  <2>1. attempts[r] \in Nat /\ MaxAttempts \in Nat
    BY <1>1, AttemptsAreBounded DEF IInv, TypeOK
  <2>2. \/ attempts[r] < MaxAttempts
        \/ attempts[r] + Cardinality(Engaged(r)) <= MaxAttempts + Cardinality(Workers) - 1
    BY <1>1 DEF IInv, RetriesLeft
  <2>3. /\ Cardinality(Engaged(r)) \in Nat
        /\ Cardinality(Workers) \in Nat /\ Cardinality(Workers) > 0
    BY EngagedIsFinite
  <2> QED BY <2>1, <2>2, <2>3
<1>2. IInv => RetriesAreBounded BY <1>1 DEF RetriesAreBounded
<1> QED BY <1>2, Invariance, PTL

\* A device is given a notification at most once for every attempt.
THEOREM BoundedCopies == Spec => []CopiesAreBounded
<1>1. IInv => CopiesAreBounded BY DEF IInv
<1> QED BY <1>1, Invariance, PTL

\* A row is marked SENT only by a worker that has given the notification to every
\* device whose token it read, and then stays as it is.
THEOREM SentReachesAll == Spec => SentToAll
<1> DEFINE Marked(r) == status[r] # "SENT" /\ status'[r] = "SENT" =>
             \E w \in Workers : /\ job[w] # Idle /\ job[w].row = r
                                /\ \A t \in job[w].tokens : copies[r][t] > 0
           Stays(r) == status[r] = "SENT" =>
             status'[r] = "SENT" /\ attempts'[r] = attempts[r] /\ copies'[r] = copies[r]
           All == \A r \in Rows :
             /\ status[r] # "SENT" /\ status'[r] = "SENT" =>
                  \E w \in Workers : /\ job[w] # Idle /\ job[w].row = r
                                     /\ \A t \in job[w].tokens : copies[r][t] > 0
             /\ status[r] = "SENT" =>
                  status'[r] = "SENT" /\ attempts'[r] = attempts[r] /\ copies'[r] = copies[r]
<1>1. ASSUME IInv, [Next]_vars, NEW r \in Rows
      PROVE  Marked(r) /\ Stays(r)
  <2> USE DEF IInv
  <2>1. \A w \in Workers : job[w] # Idle =>
          status[job[w].row] = "PROCESSING" /\ job[w].row \in Rows
    BY <1>1, JobType DEF OneWorkerPerRow
  <2>2. ASSUME NEW w \in Workers, NEW q \in Rows, Claim(w, q)
        PROVE  Marked(r) /\ Stays(r)
    BY <1>1, <2>2 DEF Claim, Claimable, Open, TypeOK
  <2>3. ASSUME NEW w \in Workers, NEW t \in Tokens, Send(w, t)
        PROVE  Marked(r) /\ Stays(r)
    BY <1>1, <2>1, <2>3 DEF Send, Sending, Deliver, TypeOK
  <2>4. ASSUME NEW w \in Workers, NEW t \in Tokens, SendFails(w, t)
        PROVE  Marked(r) /\ Stays(r)
    BY <1>1, <2>1, <2>4 DEF SendFails, Sending, Deliver, TypeOK
  <2>5. ASSUME NEW w \in Workers, Finish(w)
        PROVE  Marked(r) /\ Stays(r)
    <3>1. /\ job[w] # Idle /\ job[w].todo = {}
          /\ status' = [status EXCEPT ![job[w].row] = "SENT"]
          /\ attempts' = [attempts EXCEPT ![job[w].row] = @ + 1] /\ UNCHANGED copies
      BY <2>5 DEF Finish, Sending
    <3>2. \A t \in job[w].tokens : copies[job[w].row][t] > 0
      BY <1>1, <3>1 DEF JobsAgree, JobAgrees
    <3>3. CASE r = job[w].row BY <2>1, <3>1, <3>2, <3>3
    <3>4. CASE r # job[w].row BY <1>1, <3>1, <3>4 DEF TypeOK
    <3> QED BY <3>3, <3>4
  <2>6. ASSUME NEW S \in SUBSET Rows, Publish(S)
        PROVE  Marked(r) /\ Stays(r)
    BY <2>6 DEF Publish
  <2>7. CASE UNCHANGED <<status, attempts, copies>> BY <2>7
  <2> QED
    BY <1>1, <2>2, <2>3, <2>4, <2>5, <2>6, <2>7
    DEF Next, Delivers, Devices, RegisterDevice, RevokeDevice, ReadDue, ReadTokens, Stop, Tick, vars
<1>2. IInv /\ [Next]_vars => All BY <1>1
<1> QED BY <1>2, Invariance, PTL DEF Spec, SentToAll

-----------------------------------------------------------------------------
(* The outbox of the phone. *)

\* While a flush runs, what the outbox holds is recorded, or is still to be written back.
Running == flush # None
FlushCarries ==
  Running => KeysOf(outbox) \subseteq Recorded \cup KeysOf(flush.todo) \cup KeysOf(flush.next)

\* The item under way is the first of the list, and belongs to who asked for the flush.
FlushSends ==
  Running /\ flush.net = "sent" =>
    flush.todo # <<>> /\ Head(flush.todo).request.member = flush.asker.member

OfflineInv == OfflineTypeOK /\ NothingVanishes /\ FlushCarries /\ FlushSends /\ RecordedOnce

\* What a step does to the log: nothing, or it adds a request the server did not know.
LogStep ==
  \/ UNCHANGED log
  \/ \E r \in Request : ~Known(r) /\ log' = Append(log, r)

-----------------------------------------------------------------------------
(* Lists of items, and the keys they hold. *)

LEMMA AppendKeys ==
  ASSUME NEW items \in Seq(Item), NEW item \in Item
  PROVE  /\ Append(items, item) \in Seq(Item)
         /\ KeysOf(Append(items, item)) = KeysOf(items) \cup {item.request.key}
<1> DEFINE more == Append(items, item)
<1>1. /\ more \in Seq(Item) /\ Len(more) = Len(items) + 1
      /\ \A i \in 1..Len(items) : more[i] = items[i]
      /\ more[Len(items) + 1] = item
  BY AppendProperties
<1>2. DOMAIN more = 1..(Len(items) + 1) /\ DOMAIN items = 1..Len(items) /\ Len(items) \in Nat
  BY <1>1, LenProperties
<1> HIDE DEF more
<1>3. KeysOf(more) = KeysOf(items) \cup {item.request.key} BY <1>1, <1>2 DEF KeysOf
<1> QED BY <1>1, <1>3 DEF more

LEMMA HeadKeys ==
  ASSUME NEW items \in Seq(Item), items # <<>>
  PROVE  /\ Head(items) \in Item /\ Tail(items) \in Seq(Item)
         /\ KeysOf(items) = {Head(items).request.key} \cup KeysOf(Tail(items))
<1> DEFINE rest == Tail(items)
<1>1. /\ Head(items) \in Item /\ Head(items) = items[1]
      /\ rest \in Seq(Item) /\ Len(rest) = Len(items) - 1
      /\ \A i \in 1..Len(rest) : rest[i] = items[i + 1]
  BY HeadTailProperties
<1>2. /\ DOMAIN rest = 1..Len(rest) /\ DOMAIN items = 1..Len(items)
      /\ Len(items) \in Nat /\ Len(items) >= 1
  BY <1>1, LenProperties, EmptySeq
<1> HIDE DEF rest
<1>3. \A i \in 1..Len(items) : i # 1 => i - 1 \in 1..Len(rest) /\ items[i] = rest[i - 1]
  BY <1>1, <1>2
<1>4. KeysOf(items) \subseteq {Head(items).request.key} \cup KeysOf(rest)
  <2>1. ASSUME NEW i \in 1..Len(items)
        PROVE  items[i].request.key \in {Head(items).request.key} \cup KeysOf(rest)
    <3>1. CASE i = 1 BY <1>1, <3>1
    <3>2. CASE i # 1
      <4>1. i - 1 \in DOMAIN rest /\ items[i] = rest[i - 1] BY <1>2, <1>3, <3>2
      <4> QED BY <4>1 DEF KeysOf
    <3> QED BY <3>1, <3>2
  <2> QED BY <1>2, <2>1 DEF KeysOf
<1>5. {Head(items).request.key} \cup KeysOf(rest) \subseteq KeysOf(items)
  <2>1. \A i \in 1..Len(rest) : i + 1 \in 1..Len(items) /\ rest[i] = items[i + 1]
    BY <1>1, <1>2
  <2> QED BY <1>1, <1>2, <2>1 DEF KeysOf
<1> QED BY <1>1, <1>4, <1>5 DEF rest

-----------------------------------------------------------------------------
(* The server. *)

LEMMA StateAfterType == ASSUME NEW a PROVE StateAfter(a) \in States
BY DEF StateAfter, States

LEMMA TakenFacts ==
  ASSUME OfflineTypeOK, NEW r \in Request, Taken(r)
  PROVE  /\ state' \in [Memberships -> States] /\ log' \in Seq(Request)
         /\ Recorded' = Recorded \cup {r.key}
         /\ ~Known(r) /\ log' = Append(log, r)
<1>1. /\ log \in Seq(Request) /\ log' = Append(log, r) /\ ~Known(r)
      /\ state' = [state EXCEPT ![r.member] = StateAfter(r.action)]
  BY DEF OfflineTypeOK, Taken
<1>2. /\ log' \in Seq(Request) /\ Len(log') = Len(log) + 1
      /\ \A i \in 1..Len(log) : log'[i] = log[i]
      /\ log'[Len(log) + 1] = r
  BY <1>1, AppendProperties
<1>3. DOMAIN log' = 1..(Len(log) + 1) /\ DOMAIN log = 1..Len(log) /\ Len(log) \in Nat
  BY <1>1, <1>2, LenProperties
<1>4. Recorded' = Recorded \cup {r.key} BY <1>2, <1>3 DEF Recorded
<1>5. state' \in [Memberships -> States] BY <1>1, StateAfterType DEF OfflineTypeOK
<1> QED BY <1>1, <1>2, <1>4, <1>5

LEMMA FateFacts ==
  ASSUME OfflineTypeOK, NEW q \in Request, NEW net, Fate(q, net)
  PROVE  /\ state' \in [Memberships -> States] /\ log' \in Seq(Request) /\ wire' \subseteq Request
         /\ Recorded \subseteq Recorded'
         /\ net = "done" => q.key \in Recorded'
         /\ LogStep
         /\ log' = log \/ \E r \in Carried(q) : log' = Append(log, r)
<1>1. PICK r \in Carried(q) :
        \/ net = "done" /\ Taken(r) /\ UNCHANGED wire
        \/ net = "done" /\ Replayed(r) /\ UNCHANGED serverVars
        \/ net = "refused" /\ UNCHANGED serverVars
        \/ net = "failed" /\ wire' = StillUnderWay({r}) /\ UNCHANGED <<state, log>>
  BY DEF Fate
<1>2. r \in Request /\ r.key = q.key BY DEF Carried, Request, OfflineTypeOK
<1>3. CASE net = "done" /\ Taken(r) /\ UNCHANGED wire
  BY <1>2, <1>3, TakenFacts DEF OfflineTypeOK, LogStep
<1>4. CASE net = "done" /\ Replayed(r) /\ UNCHANGED serverVars
  <2>1. r.key \in Recorded BY <1>4 DEF Replayed, Known, Recorded
  <2>2. Recorded' = Recorded BY <1>4 DEF serverVars, Recorded
  <2> QED BY <1>2, <1>4, <2>1, <2>2 DEF serverVars, OfflineTypeOK, LogStep
<1>5. CASE net = "refused" /\ UNCHANGED serverVars
  BY <1>5 DEF serverVars, OfflineTypeOK, LogStep, Recorded
<1>6. CASE net = "failed" /\ wire' = StillUnderWay({r}) /\ UNCHANGED <<state, log>>
  BY <1>2, <1>6 DEF StillUnderWay, OfflineTypeOK, LogStep, Recorded
<1> QED BY <1>1, <1>3, <1>4, <1>5, <1>6

-----------------------------------------------------------------------------
LEMMA TypeInit == OfflineInit => OfflineTypeOK
<1> SUFFICES ASSUME OfflineInit PROVE OfflineTypeOK OBVIOUS
<1>1. <<>> \in Seq(Request) /\ <<>> \in Seq(Item) BY EmptySeq
<1>2. log \in Seq(Request) /\ outbox \in Seq(Item) BY <1>1 DEF OfflineInit
<1>3. 0 \in 0..MaxPresses /\ 0 \in 0..MaxTroubles BY BoundsAreNat
<1>4. /\ state \in [Memberships -> States] /\ me \in Memberships
      /\ shown \in [Screens -> States \cup {None}] /\ press \in [Screens -> Press \cup {None}]
  BY FirstIsAMember DEF OfflineInit, States
<1> QED BY <1>2, <1>3, <1>4 DEF OfflineInit, OfflineTypeOK

\* What the flush that runs may hold.
LEMMA FlushTypes ==
  ASSUME OfflineTypeOK, Running
  PROVE  /\ flush \in Flush /\ flush.asker \in Asker /\ flush.asker.member \in Memberships
         /\ flush.todo \in Seq(Item) /\ flush.next \in Seq(Item)
BY DEF OfflineTypeOK, Running, Flush, Asker

LEMMA OutgoingType ==
  ASSUME OfflineTypeOK, Running, flush.todo # <<>>
  PROVE  /\ Outgoing \in Request
         /\ Outgoing.key = Head(flush.todo).request.key
         /\ Outgoing.member = flush.asker.member
<1>1. Head(flush.todo) \in Item BY FlushTypes, HeadKeys
<1>2. Head(flush.todo).request \in Request BY <1>1 DEF Item
<1> QED BY <1>2, FlushTypes DEF Outgoing, Request

LEMMA KeptFacts ==
  ASSUME OfflineTypeOK, Running, flush.todo # <<>>, NEW net \in Answers
  PROVE  /\ Kept(flush, net) \in Flush
         /\ Kept(flush, net).net = "idle"
         /\ KeysOf(flush.todo) \cup KeysOf(flush.next) \subseteq
              KeysOf(Kept(flush, net).todo) \cup KeysOf(Kept(flush, net).next)
                \cup (IF net = "done" THEN {Outgoing.key} ELSE {})
<1> DEFINE item == Head(flush.todo)
           review == [item EXCEPT !.status = "NEEDS_REVIEW"]
<1>1. /\ flush \in Flush /\ flush.todo \in Seq(Item) /\ flush.next \in Seq(Item)
  BY FlushTypes
<1>2. /\ item \in Item /\ Tail(flush.todo) \in Seq(Item)
      /\ KeysOf(flush.todo) = {item.request.key} \cup KeysOf(Tail(flush.todo))
  BY <1>1, HeadKeys
<1>3. review \in Item /\ review.request.key = item.request.key BY <1>2 DEF Item
<1>4. /\ Append(flush.next, item) \in Seq(Item) /\ Append(flush.next, review) \in Seq(Item)
      /\ KeysOf(Append(flush.next, item)) = KeysOf(flush.next) \cup {item.request.key}
      /\ KeysOf(Append(flush.next, review)) = KeysOf(flush.next) \cup {item.request.key}
  BY <1>1, <1>2, <1>3, AppendKeys
<1>5. Outgoing.key = item.request.key BY OutgoingType
<1> HIDE DEF item, review
<1>6. CASE net = "done"
  <2>1. Kept(flush, net) = [flush EXCEPT !.todo = Tail(@), !.sent = TRUE, !.net = "idle"]
    BY <1>6 DEF Kept
  <2> QED BY <1>1, <1>2, <1>5, <1>6, <2>1 DEF Flush
<1>7. CASE net = "refused"
  <2>1. Kept(flush, net) = [flush EXCEPT !.todo = Tail(@), !.net = "idle",
                                         !.next = Append(@, review)]
    BY <1>7 DEF Kept, item, review
  <2> QED BY <1>1, <1>2, <1>4, <1>7, <2>1 DEF Flush
<1>8. CASE net = "failed"
  <2>1. Kept(flush, net) = [flush EXCEPT !.todo = Tail(@), !.net = "idle", !.dead = TRUE,
                                         !.next = Append(@, item)]
    BY <1>8 DEF Kept, item
  <2> QED BY <1>1, <1>2, <1>4, <1>8, <2>1 DEF Flush
<1> QED BY <1>6, <1>7, <1>8 DEF Answers

-----------------------------------------------------------------------------
(* Type correctness, one lemma for each part of the phone. *)

LEMMA PressType ==
  ASSUME OfflineTypeOK, NEW s \in Screens, press[s] # None
  PROVE  press[s] \in Press /\ press[s].request \in Request
BY DEF OfflineTypeOK, Press

LEMMA SendType ==
  ASSUME OfflineTypeOK, NEW s \in Screens, NEW a \in Actions, NEW selfie \in BOOLEAN,
         SendPress(s, a, selfie)
  PROVE  presses' \in 0..MaxPresses /\ press' \in [Screens -> Press \cup {None}]
<1>1. presses' \in 0..MaxPresses /\ presses' \in Keys
  BY BoundsAreNat DEF SendPress, OfflineTypeOK, Keys
<1> DEFINE p == [request |-> [key |-> presses', member |-> me, action |-> a, selfie |-> selfie],
                 net |-> "sent", live |-> TRUE]
<1>2. p \in Press BY <1>1 DEF OfflineTypeOK, Press, Request
<1>3. press' = [press EXCEPT ![s] = p] BY DEF SendPress
<1> HIDE DEF p
<1> QED BY <1>1, <1>2, <1>3 DEF OfflineTypeOK

LEMMA PressStepType ==
  ASSUME OfflineTypeOK,
         \/ Prepare \/ CloseSheet \/ SubmitHome \/ SubmitAttendance
         \/ \E s \in Screens : Accepted(s) \/ NotAccepted(s) \/ Enqueue(s)
  PROVE  OfflineTypeOK'
<1> USE DEF serverVars, appVars, flushVars
<1>0. \A s \in Screens : OfferedNow(s) \in Actions \cup {None}
  BY DEF OfferedNow, Offered, Actions, OfflineTypeOK
<1>1. CASE Prepare BY <1>0, <1>1 DEF Prepare, Screens, OfflineTypeOK
<1>2. CASE CloseSheet BY <1>2 DEF CloseSheet, OfflineTypeOK
<1>3. CASE SubmitHome
  <2>1. sheet \in Actions /\ "home" \in Screens BY <1>3 DEF SubmitHome, OfflineTypeOK, Screens
  <2>2. SendPress("home", sheet, NeedsSelfie) BY <1>3 DEF SubmitHome
  <2>3. presses' \in 0..MaxPresses /\ press' \in [Screens -> Press \cup {None}]
    BY <2>1, <2>2, SendType, PolicyIsBoolean
  <2> QED BY <1>3, <2>3 DEF SubmitHome, OfflineTypeOK
<1>4. CASE SubmitAttendance
  <2>1. OfferedNow("attendance") \in Actions /\ "attendance" \in Screens
    BY <1>0, <1>4 DEF SubmitAttendance, Screens
  <2>2. SendPress("attendance", OfferedNow("attendance"), FALSE) BY <1>4 DEF SubmitAttendance
  <2>3. presses' \in 0..MaxPresses /\ press' \in [Screens -> Press \cup {None}]
    BY <2>1, <2>2, SendType
  <2> QED BY <1>4, <2>3 DEF SubmitAttendance, OfflineTypeOK
<1>5. ASSUME NEW s \in Screens, Accepted(s) PROVE OfflineTypeOK'
  <2>1. press[s].request \in Request BY <1>5, PressType DEF Accepted
  <2>2. Fate(press[s].request, "done") BY <1>5 DEF Accepted
  <2>3. state' \in [Memberships -> States] /\ log' \in Seq(Request) /\ wire' \subseteq Request
    BY <2>1, <2>2, FateFacts
  <2>4. press' \in [Screens -> Press \cup {None}] BY <1>5 DEF Accepted, OfflineTypeOK
  <2>5. sheet' \in Actions \cup {None} BY <1>5 DEF Accepted, SheetAfter, OfflineTypeOK
  <2>6. waiting' \subseteq Asker BY <1>5, <2>1 DEF Accepted, LoadAsk, Asker, Request, OfflineTypeOK
  <2>7. shown' \in [Screens -> States \cup {None}] BY <1>5, <2>3 DEF Accepted, OfflineTypeOK
  <2> QED BY <1>5, <2>3, <2>4, <2>5, <2>6, <2>7 DEF Accepted, OfflineTypeOK
<1>6. ASSUME NEW s \in Screens, NotAccepted(s) PROVE OfflineTypeOK'
  <2>1. press[s] \in Press /\ press[s].request \in Request BY <1>6, PressType DEF NotAccepted
  <2>2. \E net : Fate(press[s].request, net) BY <1>6 DEF NotAccepted
  <2>3. state' \in [Memberships -> States] /\ log' \in Seq(Request) /\ wire' \subseteq Request
    BY <2>1, <2>2, FateFacts
  <2>4. [press[s] EXCEPT !.net = "failed"] \in Press BY <2>1 DEF Press
  <2>5. press' \in [Screens -> Press \cup {None}] BY <1>6, <2>4 DEF NotAccepted, OfflineTypeOK
  <2> QED BY <1>6, <2>3, <2>5 DEF NotAccepted, OfflineTypeOK
<1>7. ASSUME NEW s \in Screens, Enqueue(s) PROVE OfflineTypeOK'
  <2> DEFINE r == press[s].request
             item == [request |-> r, status |-> "PENDING"]
  <2>1. r \in Request BY <1>7, PressType DEF Enqueue
  <2>2. item \in Item BY <2>1 DEF Item
  <2>3. Append(outbox, item) \in Seq(Item) BY <2>2, AppendKeys DEF OfflineTypeOK
  <2>4. outbox' \in Seq(Item) BY <1>7, <2>3 DEF Enqueue
  <2>5. saved' \subseteq Request BY <1>7, <2>1 DEF Enqueue, OfflineTypeOK
  <2>6. shown' \in [Screens -> States \cup {None}] BY <1>7, StateAfterType DEF Enqueue, OfflineTypeOK
  <2>7. press' \in [Screens -> Press \cup {None}] /\ sheet' \in Actions \cup {None}
    BY <1>7 DEF Enqueue, SheetAfter, OfflineTypeOK
  <2> QED BY <1>7, <2>4, <2>5, <2>6, <2>7 DEF Enqueue, OfflineTypeOK
<1> QED BY <1>1, <1>2, <1>3, <1>4, <1>5, <1>6, <1>7

LEMMA AskTypes ==
  ASSUME OfflineTypeOK PROVE LoadAsk(me) \in Asker /\ NetAsk \in Asker
BY DEF LoadAsk, NetAsk, Asker, OfflineTypeOK

LEMMA FlushStepType ==
  ASSUME OfflineTypeOK, FlushSends,
         \/ FlushStep \/ GoOffline \/ GoOnline
         \/ \E s \in Screens : Load(s)
         \/ \E net \in Answers : ItemAnswered(net)
  PROVE  OfflineTypeOK'
<1> USE DEF serverVars, appVars, flushVars
<1>1. ASSUME NEW s \in Screens, Load(s) PROVE OfflineTypeOK'
  <2>1. shown' \in [Screens -> States \cup {None}] BY <1>1 DEF Load, OfflineTypeOK
  <2> QED BY <1>1, <2>1, AskTypes DEF Load, OfflineTypeOK
<1>2. CASE GoOffline BY <1>2, BoundsAreNat DEF GoOffline, Trouble, OfflineTypeOK
<1>3. CASE GoOnline BY <1>3, AskTypes DEF GoOnline, OfflineTypeOK
<1>4. ASSUME NEW ask \in waiting, BeginFlush(ask) PROVE OfflineTypeOK'
  <2>1. flush' \in Flush
    <3>1. ask \in Asker /\ outbox \in Seq(Item) /\ <<>> \in Seq(Item) BY EmptySeq DEF OfflineTypeOK
    <3> QED BY <1>4, <3>1 DEF BeginFlush, Flush
  <2> QED BY <1>4, <2>1 DEF BeginFlush, OfflineTypeOK
<1>5. CASE PassItem
  <2>1. Running /\ flush.todo # <<>> BY <1>5 DEF PassItem, Running
  <2>2. Head(flush.todo) \in Item /\ Tail(flush.todo) \in Seq(Item)
    BY <2>1, FlushTypes, HeadKeys
  <2>3. Append(flush.next, Head(flush.todo)) \in Seq(Item)
    BY <2>1, <2>2, FlushTypes, AppendKeys
  <2>4. flush' \in Flush BY <1>5, <2>1, <2>2, <2>3, FlushTypes DEF PassItem, Flush
  <2> QED BY <1>5, <2>4 DEF PassItem, OfflineTypeOK
<1>6. CASE SendItem
  <2>1. flush' \in Flush BY <1>6, FlushTypes DEF SendItem, Running, Flush
  <2> QED BY <1>6, <2>1 DEF SendItem, OfflineTypeOK
<1>7. CASE EndFlush
  <2>1. outbox' \in Seq(Item) BY <1>7, FlushTypes DEF EndFlush, Running
  <2>2. waiting' \subseteq Asker BY <1>7, AskTypes DEF EndFlush, OfflineTypeOK
  <2>3. shown' \in [Screens -> States \cup {None}] BY <1>7 DEF EndFlush, OfflineTypeOK
  <2> QED BY <1>7, <2>1, <2>2, <2>3 DEF EndFlush, OfflineTypeOK
<1>8. ASSUME NEW net \in Answers, ItemAnswered(net) PROVE OfflineTypeOK'
  <2>1. Running /\ flush.todo # <<>> BY <1>8 DEF ItemAnswered, Running, FlushSends
  <2>2. Outgoing \in Request BY <2>1, OutgoingType
  <2>3. state' \in [Memberships -> States] /\ log' \in Seq(Request) /\ wire' \subseteq Request
    BY <1>8, <2>2, FateFacts DEF ItemAnswered
  <2>4. flush' \in Flush BY <1>8, <2>1, KeptFacts DEF ItemAnswered
  <2> QED BY <1>8, <2>3, <2>4 DEF ItemAnswered, OfflineTypeOK
<1> QED BY <1>1, <1>2, <1>3, <1>4, <1>5, <1>6, <1>7, <1>8 DEF FlushStep

LEMMA TroubleType ==
  ASSUME OfflineTypeOK, FlushSends, Kill \/ SwitchAccount \/ \E r \in wire : ServeLate(r)
  PROVE  OfflineTypeOK'
<1> USE DEF serverVars, appVars, flushVars
<1>1. CASE Kill
  <2>1. GivenUp \subseteq Request BY PressType DEF GivenUp
  <2>2. flush # None /\ flush.net = "sent" => Outgoing \in Request
    BY OutgoingType DEF Running, FlushSends
  <2>3. wire' \subseteq Request BY <1>1, <2>1, <2>2 DEF Kill, StillUnderWay, OfflineTypeOK
  <2>4. /\ shown' \in [Screens -> States \cup {None}] /\ sheet' = None /\ offline' = FALSE
        /\ press' \in [Screens -> Press \cup {None}] /\ troubles' \in 0..MaxTroubles
    BY <1>1, BoundsAreNat DEF Kill, Forgotten, Trouble, OfflineTypeOK
  <2> QED BY <1>1, <2>3, <2>4 DEF Kill, OfflineTypeOK
<1>2. CASE SwitchAccount
  <2>1. \A s \in Screens : press[s] # None => [press[s] EXCEPT !.live = FALSE] \in Press
    BY PressType DEF Press
  <2>2. press' \in [Screens -> Press \cup {None}] BY <1>2, <2>1 DEF SwitchAccount
  <2>3. /\ shown' \in [Screens -> States \cup {None}] /\ sheet' = None /\ offline' = FALSE
        /\ me' \in Memberships /\ troubles' \in 0..MaxTroubles
    BY <1>2, BoundsAreNat DEF SwitchAccount, Forgotten, Trouble, OfflineTypeOK
  <2> QED BY <1>2, <2>2, <2>3 DEF SwitchAccount, OfflineTypeOK
<1>3. ASSUME NEW r \in wire, ServeLate(r) PROVE OfflineTypeOK'
  <2>1. r \in Request BY DEF OfflineTypeOK
  <2>2. state' \in [Memberships -> States] /\ log' \in Seq(Request)
    BY <1>3, <2>1, TakenFacts DEF ServeLate, OfflineTypeOK
  <2> QED BY <1>3, <2>2 DEF ServeLate, OfflineTypeOK
<1> QED BY <1>1, <1>2, <1>3

LEMMA TypeNext == OfflineTypeOK /\ FlushSends /\ [OfflineNext]_offlineVars => OfflineTypeOK'
<1> SUFFICES ASSUME OfflineTypeOK, FlushSends, [OfflineNext]_offlineVars PROVE OfflineTypeOK' OBVIOUS
<1>1. CASE UNCHANGED offlineVars BY <1>1 DEF offlineVars, serverVars, appVars, flushVars, OfflineTypeOK
<1>2. CASE OfflineNext BY <1>2, PressStepType, FlushStepType, TroubleType DEF OfflineNext
<1> QED BY <1>1, <1>2

-----------------------------------------------------------------------------
(* The log only grows, by requests that are new to it. *)

LEMMA LogGrows ==
  ASSUME OfflineTypeOK, LogStep
  PROVE  Recorded \subseteq Recorded' /\ (RecordedOnce => RecordedOnce')
<1>1. CASE UNCHANGED log BY <1>1 DEF Recorded, RecordedOnce
<1>2. ASSUME NEW r \in Request, ~Known(r), log' = Append(log, r)
      PROVE  Recorded \subseteq Recorded' /\ (RecordedOnce => RecordedOnce')
  <2>1. /\ log \in Seq(Request) /\ log' \in Seq(Request) /\ Len(log') = Len(log) + 1
        /\ \A i \in 1..Len(log) : log'[i] = log[i]
        /\ log'[Len(log) + 1] = r
    BY <1>2, AppendProperties DEF OfflineTypeOK
  <2>2. DOMAIN log' = 1..(Len(log) + 1) /\ DOMAIN log = 1..Len(log) /\ Len(log) \in Nat
    BY <2>1, LenProperties
  <2>3. Recorded \subseteq Recorded' BY <2>1, <2>2 DEF Recorded
  <2>4. ASSUME RecordedOnce, NEW i \in DOMAIN log', NEW j \in DOMAIN log',
               log'[i].key = log'[j].key, log'[i].member = log'[j].member
        PROVE  i = j
    <3>1. \A n \in 1..Len(log) : ~(log[n].key = r.key /\ log[n].member = r.member)
      BY <1>2, <2>2 DEF Known
    <3>2. CASE i \in 1..Len(log) /\ j \in 1..Len(log)
      BY <2>1, <2>2, <2>4, <3>2 DEF RecordedOnce
    <3>3. CASE i = Len(log) + 1 /\ j \in 1..Len(log) BY <2>1, <2>4, <3>1, <3>3
    <3>4. CASE i \in 1..Len(log) /\ j = Len(log) + 1 BY <2>1, <2>4, <3>1, <3>4
    <3>5. CASE i = Len(log) + 1 /\ j = Len(log) + 1 BY <3>5
    <3> QED BY <2>2, <3>2, <3>3, <3>4, <3>5
  <2> QED BY <2>3, <2>4 DEF RecordedOnce
<1> QED BY <1>1, <1>2 DEF LogStep

\* A step that neither writes the outbox nor moves a flush on; an app that ends drops its flush.
QuietStep ==
  UNCHANGED <<outbox, saved>> /\ (flush' = flush \/ flush' = None) /\ LogStep

StepKinds ==
  \/ QuietStep
  \/ \E s \in Screens : Enqueue(s)
  \/ \E ask \in waiting : BeginFlush(ask)
  \/ PassItem \/ SendItem \/ EndFlush
  \/ \E net \in Answers : ItemAnswered(net)

LEMMA Classified ==
  ASSUME OfflineTypeOK, [OfflineNext]_offlineVars
  PROVE  StepKinds
<1> USE DEF serverVars, appVars, flushVars
<1>1. CASE UNCHANGED offlineVars BY <1>1 DEF offlineVars, StepKinds, QuietStep, LogStep
<1>2. ASSUME NEW r \in wire, ServeLate(r) PROVE StepKinds
  <2>1. r \in Request BY DEF OfflineTypeOK
  <2>2. LogStep BY <1>2, <2>1, TakenFacts DEF ServeLate, LogStep
  <2> QED BY <1>2, <2>2 DEF ServeLate, StepKinds, QuietStep
<1>3. CASE Prepare \/ CloseSheet \/ SubmitHome \/ SubmitAttendance
  BY <1>3 DEF Prepare, CloseSheet, SubmitHome, SubmitAttendance, StepKinds, QuietStep, LogStep
<1>4. ASSUME NEW s \in Screens, Accepted(s) \/ NotAccepted(s) PROVE StepKinds
  <2>1. press[s].request \in Request BY <1>4, PressType DEF Accepted, NotAccepted
  <2>2. \E net : Fate(press[s].request, net) BY <1>4 DEF Accepted, NotAccepted
  <2>3. LogStep BY <2>1, <2>2, FateFacts
  <2> QED BY <1>4, <2>3 DEF Accepted, NotAccepted, StepKinds, QuietStep
<1>5. ASSUME NEW s \in Screens, Load(s) PROVE StepKinds
  BY <1>5 DEF Load, StepKinds, QuietStep, LogStep
<1>6. CASE GoOffline \/ GoOnline \/ Kill \/ SwitchAccount
  BY <1>6 DEF GoOffline, GoOnline, Kill, SwitchAccount, StepKinds, QuietStep, LogStep
<1>7. CASE OfflineNext BY <1>2, <1>3, <1>4, <1>5, <1>6, <1>7 DEF OfflineNext, FlushStep, StepKinds
<1> QED BY <1>1, <1>7

\* Every step leaves the log as it is, or adds a request that is new to it.
LEMMA LogNext == ASSUME OfflineTypeOK, FlushSends, [OfflineNext]_offlineVars PROVE LogStep
<1> USE DEF serverVars, appVars, flushVars
<1>1. ASSUME NEW net \in Answers, ItemAnswered(net) PROVE LogStep
  <2>1. Outgoing \in Request BY <1>1, OutgoingType DEF ItemAnswered, Running, FlushSends
  <2> QED BY <1>1, <2>1, FateFacts DEF ItemAnswered
<1>2. ASSUME NEW s \in Screens, Enqueue(s) PROVE LogStep BY <1>2 DEF Enqueue, LogStep
<1>3. ASSUME NEW ask \in waiting, BeginFlush(ask) PROVE LogStep BY <1>3 DEF BeginFlush, LogStep
<1>4. CASE PassItem \/ SendItem \/ EndFlush BY <1>4 DEF PassItem, SendItem, EndFlush, LogStep
<1> QED BY <1>1, <1>2, <1>3, <1>4, Classified DEF StepKinds, QuietStep

-----------------------------------------------------------------------------
LEMMA IndInit == OfflineInit => OfflineInv
<1> SUFFICES ASSUME OfflineInit PROVE OfflineInv OBVIOUS
<1>1. NothingVanishes /\ FlushCarries /\ FlushSends
  BY DEF OfflineInit, NothingVanishes, FlushCarries, FlushSends, Running
<1>2. RecordedOnce BY DEF OfflineInit, RecordedOnce
<1> QED BY <1>1, <1>2, TypeInit DEF OfflineInv

\* What a flush carries stays complete, item by item, and what it drops is recorded.
LEMMA CarriesNext == ASSUME OfflineInv, [OfflineNext]_offlineVars PROVE FlushCarries' /\ FlushSends'
<1> USE DEF OfflineInv
<1>0. Recorded \subseteq Recorded' BY LogNext, LogGrows
<1>1. CASE QuietStep
  <2>1. CASE flush' = None BY <2>1 DEF FlushCarries, FlushSends, Running
  <2>2. CASE flush' = flush
    BY <1>0, <1>1, <2>2 DEF QuietStep, FlushCarries, FlushSends, Running, KeysOf
  <2> QED BY <1>1, <2>1, <2>2 DEF QuietStep
<1>2. ASSUME NEW s \in Screens, Enqueue(s) PROVE FlushCarries' /\ FlushSends'
  BY <1>2 DEF Enqueue, ChainFree, flushVars, FlushCarries, FlushSends, Running
<1>3. ASSUME NEW ask \in waiting, BeginFlush(ask) PROVE FlushCarries' /\ FlushSends'
  BY <1>3 DEF BeginFlush, FlushCarries, FlushSends, Running, KeysOf
<1>4. CASE PassItem
  <2>1. Running /\ flush.todo # <<>> BY <1>4 DEF PassItem, Running
  <2> DEFINE item == Head(flush.todo)
  <2>2. /\ item \in Item
        /\ KeysOf(flush.todo) = {item.request.key} \cup KeysOf(Tail(flush.todo))
    BY <2>1, FlushTypes, HeadKeys
  <2>3. KeysOf(Append(flush.next, item)) = KeysOf(flush.next) \cup {item.request.key}
    BY <2>1, <2>2, FlushTypes, AppendKeys
  <2>4. /\ flush'.todo = Tail(flush.todo) /\ flush'.next = Append(flush.next, item)
        /\ flush'.net = "idle" /\ outbox' = outbox
    BY <1>4, <2>1, FlushTypes DEF PassItem, Flush
  <2> HIDE DEF item
  <2>5. KeysOf(flush.todo) \cup KeysOf(flush.next) = KeysOf(flush'.todo) \cup KeysOf(flush'.next)
    <3>1. KeysOf(flush'.todo) = KeysOf(Tail(flush.todo)) BY <2>4
    <3>2. KeysOf(flush'.next) = KeysOf(Append(flush.next, item)) BY <2>4
    <3> QED BY <2>2, <2>3, <3>1, <3>2
  <2>6. KeysOf(outbox)' = KeysOf(outbox) BY <2>4 DEF KeysOf
  <2>7. (KeysOf(flush.todo) \cup KeysOf(flush.next))' = KeysOf(flush'.todo) \cup KeysOf(flush'.next)
    BY DEF KeysOf
  <2> QED BY <1>0, <2>1, <2>4, <2>5, <2>6, <2>7 DEF FlushCarries, FlushSends
<1>5. CASE SendItem
  <2>1. Running /\ flush.todo # <<>> /\ Head(flush.todo).request.member = flush.asker.member
    BY <1>5 DEF SendItem, Passed, Running
  <2>2. /\ flush'.todo = flush.todo /\ flush'.next = flush.next /\ flush'.asker = flush.asker
        /\ outbox' = outbox
    BY <1>5, <2>1, FlushTypes DEF SendItem, Flush
  <2> QED BY <1>0, <2>1, <2>2 DEF FlushCarries, FlushSends, KeysOf
<1>6. CASE EndFlush BY <1>6 DEF EndFlush, FlushCarries, FlushSends, Running
<1>7. ASSUME NEW net \in Answers, ItemAnswered(net) PROVE FlushCarries' /\ FlushSends'
  <2>1. Running /\ flush.todo # <<>> BY <1>7 DEF ItemAnswered, Running, FlushSends
  <2>2. net = "done" => Outgoing.key \in Recorded'
    BY <1>7, <2>1, OutgoingType, FateFacts DEF ItemAnswered
  <2>3. flush' = Kept(flush, net) /\ outbox' = outbox BY <1>7 DEF ItemAnswered
  <2>4. /\ flush'.net = "idle"
        /\ KeysOf(flush.todo) \cup KeysOf(flush.next) \subseteq
             KeysOf(flush'.todo) \cup KeysOf(flush'.next) \cup Recorded'
    BY <2>1, <2>2, <2>3, KeptFacts
  <2>5. /\ (KeysOf(flush.todo) \cup KeysOf(flush.next))' = KeysOf(flush'.todo) \cup KeysOf(flush'.next)
        /\ KeysOf(outbox)' = KeysOf(outbox)
    BY <2>3 DEF KeysOf
  <2> QED BY <1>0, <2>1, <2>4, <2>5 DEF FlushCarries, FlushSends
<1> QED BY <1>1, <1>2, <1>3, <1>4, <1>5, <1>6, <1>7, Classified DEF StepKinds

\* A flush writes back what it read, less what is recorded; a write of a press waits for it.
LEMMA VanishesNext == ASSUME OfflineInv, [OfflineNext]_offlineVars PROVE NothingVanishes'
<1> USE DEF OfflineInv
<1>0. Recorded \subseteq Recorded' BY LogNext, LogGrows
<1>1. ASSUME UNCHANGED <<outbox, saved>> PROVE NothingVanishes'
  BY <1>0, <1>1 DEF NothingVanishes, KeysOf
<1>2. CASE QuietStep BY <1>1, <1>2 DEF QuietStep
<1>3. ASSUME NEW s \in Screens, Enqueue(s) PROVE NothingVanishes'
  <2> DEFINE r == press[s].request
             item == [request |-> r, status |-> "PENDING"]
  <2>1. r \in Request BY <1>3, PressType DEF Enqueue
  <2>2. item \in Item /\ item.request.key = r.key BY <2>1 DEF Item
  <2>3. KeysOf(Append(outbox, item)) = KeysOf(outbox) \cup {r.key}
    BY <2>2, AppendKeys DEF OfflineTypeOK
  <2>4. outbox' = Append(outbox, item) /\ saved' = saved \cup {r} BY <1>3 DEF Enqueue
  <2> HIDE DEF item, r
  <2>5. KeysOf(outbox)' = KeysOf(outbox) \cup {r.key} BY <2>3, <2>4 DEF KeysOf
  <2> QED BY <1>0, <2>4, <2>5 DEF NothingVanishes
<1>4. ASSUME NEW ask \in waiting, BeginFlush(ask) PROVE NothingVanishes'
  BY <1>1, <1>4 DEF BeginFlush
<1>5. CASE PassItem \/ SendItem BY <1>1, <1>5 DEF PassItem, SendItem
<1>6. CASE EndFlush
  <2>1. Running /\ flush.todo = <<>> /\ outbox' = flush.next /\ saved' = saved
    BY <1>6 DEF EndFlush, Running
  <2>2. KeysOf(flush.todo) = {} BY <2>1 DEF KeysOf
  <2>3. KeysOf(outbox)' = KeysOf(flush.next) BY <2>1 DEF KeysOf
  <2> QED BY <1>0, <2>1, <2>2, <2>3 DEF NothingVanishes, FlushCarries
<1>7. ASSUME NEW net \in Answers, ItemAnswered(net) PROVE NothingVanishes'
  BY <1>1, <1>7 DEF ItemAnswered
<1> QED BY <1>2, <1>3, <1>4, <1>5, <1>6, <1>7, Classified DEF StepKinds

LEMMA IndNext == OfflineInv /\ [OfflineNext]_offlineVars => OfflineInv'
<1> SUFFICES ASSUME OfflineInv, [OfflineNext]_offlineVars PROVE OfflineInv' OBVIOUS
<1>1. OfflineTypeOK' BY TypeNext DEF OfflineInv
<1>2. RecordedOnce' BY LogNext, LogGrows DEF OfflineInv
<1> QED BY <1>1, <1>2, CarriesNext, VanishesNext DEF OfflineInv

LEMMA Inductive == OfflineSpec => []OfflineInv
<1>1. OfflineInit => OfflineInv BY IndInit
<1>2. OfflineInv /\ [OfflineNext]_offlineVars => OfflineInv' BY IndNext
<1> QED BY <1>1, <1>2, PTL DEF OfflineSpec

-----------------------------------------------------------------------------
\* Every variable of the phone and of the server keeps its type: in particular an item a flush
\* keeps or sends again is an item, whatever became of its request.
THEOREM OfflineTypeCorrect == OfflineSpec => []OfflineTypeOK
<1>1. OfflineInv => OfflineTypeOK BY DEF OfflineInv
<1> QED BY <1>1, Inductive, PTL

\* enqueue and flushAttendanceOutbox both write the whole list, and lose no press: one the
\* employee was told is kept stays until its action is recorded.
THEOREM KeptUntilRecorded == OfflineSpec => []NothingVanishes
<1>1. OfflineInv => NothingVanishes BY DEF OfflineInv
<1> QED BY <1>1, Inductive, PTL

\* The key Submit looks up first makes every number of attempts, early or late, one record.
THEOREM NeverRecordedTwice == OfflineSpec => []RecordedOnce
<1>1. OfflineInv => RecordedOnce BY DEF OfflineInv
<1> QED BY <1>1, Inductive, PTL

\* What FlushSendsItsOwn says of one step.
OwnStep ==
  LET item == Head(flush.todo) IN
  flush # None /\ flush.net = "sent" /\ flush.asker.member = me
    /\ log' # log /\ flush' # None /\ flush'.net = "idle"
  => Last(log').member = item.request.member

LEMMA OwnNext == OfflineInv /\ [OfflineNext]_offlineVars => OwnStep
<1> SUFFICES ASSUME OfflineInv, [OfflineNext]_offlineVars, Running, flush.net = "sent", flush.asker.member = me,
                    log' # log, flush' # None, flush'.net = "idle"
             PROVE  Last(log').member = Head(flush.todo).request.member
  BY DEF OwnStep, Running
<1> USE DEF OfflineInv
<1>1. \E net \in Answers : ItemAnswered(net)
  BY Classified
  DEF StepKinds, QuietStep, Enqueue, flushVars, BeginFlush, PassItem, SendItem, EndFlush, Running
<1>2. PICK net \in Answers : ItemAnswered(net) BY <1>1
<1>3. flush.todo # <<>> /\ Head(flush.todo).request.member = me BY DEF FlushSends
<1>4. Outgoing \in Request /\ Outgoing.member = me BY <1>3, OutgoingType
<1>5. \E r \in Carried(Outgoing) : log' = Append(log, r)
  BY <1>2, <1>4, FateFacts DEF ItemAnswered
<1>6. PICK r \in Carried(Outgoing) : log' = Append(log, r) BY <1>5
<1>7. r \in Request /\ r.member = me BY <1>4, <1>6 DEF Carried, Request
<1>8. log \in Seq(Request) /\ log'[Len(log')] = r
  BY <1>6, <1>7, AppendProperties DEF OfflineTypeOK
<1> QED BY <1>3, <1>7, <1>8 DEF Last

\* The outbox of the phone holds the presses of several memberships, and a flush sends those
\* of the one who asked for it.
THEOREM SendsItsOwn == OfflineSpec => FlushSendsItsOwn
<1>1. OfflineInv /\ [OfflineNext]_offlineVars => [OwnStep]_offlineVars BY OwnNext
<1>2. OfflineSpec => [][OwnStep]_offlineVars BY <1>1, Inductive, PTL DEF OfflineSpec
<1> QED BY <1>2, PTL DEF FlushSendsItsOwn, OwnStep
=============================================================================
