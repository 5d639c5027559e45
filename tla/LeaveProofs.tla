---------------------------- MODULE LeaveProofs ----------------------------
(***************************************************************************)
(* Theorems about Leave, for every set of members, leave types, requests,  *)
(* handlers and days.                                                      *)
(*                                                                         *)
(* A counter equals the number of <<request, day>> pairs it stands for.    *)
(* It is written only by a transaction that holds the balance's lock, and  *)
(* what that transaction checked or read under the lock is still true at   *)
(* its commit; TxAgrees says so, and is what makes the two properties      *)
(* inductive.                                                              *)
(***************************************************************************)
EXTENDS Leave, FiniteSetTheorems, TLAPS

\* No two handlers hold one balance, or work on one request.
LocksAreExclusive ==
  \A g, h \in Handlers : g # h =>
    /\ \A a \in Accounts : ~(Holds(g, a) /\ Holds(h, a))
    /\ Locks(g) /\ Locks(h) => tx[g].id # tx[h].id

\* What a transaction knows of the rows it has locked.
Agrees(h) ==
  Locks(h) =>
    /\ tx[h].held \cup tx[h].todo \cup ({tx[h].asks} \ {Granted}) = YearsOf(tx[h].form)
    /\ tx[h].asks = Granted => tx[h].todo = {}
    /\ tx[h].form.status = "PENDING"
    /\ tx[h].op = "create" => /\ request[tx[h].id] = NoRequest
                              /\ \A y \in tx[h].held : Fits(tx[h].form, y)
    /\ tx[h].op # "create" => request[tx[h].id] = tx[h].form
TxAgrees == \A h \in Handlers : Agrees(h)

IInv == TypeOK /\ LocksAreExclusive /\ TxAgrees /\ BalanceIsSum /\ NeverOverdrawn

-----------------------------------------------------------------------------
(* Finite sets of days and of pairs *)

LEMMA DaysAreFinite ==
  ASSUME NEW form, NEW y
  PROVE  IsFiniteSet(DaysIn(form, y)) /\ Cost(form, y) \in Nat
<1>1. DaysIn(form, y) \in SUBSET Days BY CalendarIsFinite DEF DaysIn
<1>2. IsFiniteSet(DaysIn(form, y)) BY <1>1, FS_Subset, CalendarIsFinite
<1> QED BY <1>2, FS_CardinalityType DEF Cost

LEMMA PairsAreFinite == IsFiniteSet(Requests \X WorkDays)
<1>1. IsFiniteSet(WorkDays) BY FS_Subset, CalendarIsFinite
<1> QED BY <1>1, FS_Product, CalendarIsFinite

LEMMA DrawnIsFinite ==
  ASSUME NEW a, NEW status
  PROVE  IsFiniteSet(Drawn(a, status)) /\ Cardinality(Drawn(a, status)) \in Nat
<1>1. Drawn(a, status) \in SUBSET (Requests \X WorkDays) BY DEF Drawn
<1>2. IsFiniteSet(Drawn(a, status)) BY <1>1, FS_Subset, PairsAreFinite
<1> QED BY <1>2, FS_CardinalityType

\* The days of one request, added to a set that has none of its pairs.
LEMMA PairsAdded ==
  ASSUME NEW S, IsFiniteSet(S), NEW D, IsFiniteSet(D), NEW r,
         S \cap ({r} \X D) = {}
  PROVE  Cardinality(S \cup ({r} \X D)) = Cardinality(S) + Cardinality(D)
<1>1. /\ IsFiniteSet({r} \X D)
      /\ Cardinality({r} \X D) = Cardinality({r}) * Cardinality(D)
  BY FS_Product, FS_Singleton
<1>2. Cardinality({r}) = 1 BY FS_Singleton
<1>3. Cardinality(D) \in Nat /\ Cardinality(S) \in Nat BY FS_CardinalityType
<1>4. Cardinality({r} \X D) = Cardinality(D) BY <1>1, <1>2, <1>3
<1>5. Cardinality(S \cup ({r} \X D))
        = Cardinality(S) + Cardinality({r} \X D) - Cardinality(S \cap ({r} \X D))
  BY <1>1, FS_Union
<1>6. Cardinality(S \cap ({r} \X D)) = 0 BY FS_EmptySet
<1> QED BY <1>3, <1>4, <1>5, <1>6

\* The days of one request, taken out of a set that has all of its pairs.
LEMMA PairsRemoved ==
  ASSUME NEW S, IsFiniteSet(S), NEW D, IsFiniteSet(D), NEW r,
         ({r} \X D) \subseteq S
  PROVE  /\ Cardinality(S \ ({r} \X D)) = Cardinality(S) - Cardinality(D)
         /\ Cardinality(D) <= Cardinality(S)
<1>1. /\ IsFiniteSet({r} \X D)
      /\ Cardinality({r} \X D) = Cardinality({r}) * Cardinality(D)
  BY FS_Product, FS_Singleton
<1>2. Cardinality({r}) = 1 BY FS_Singleton
<1>3. Cardinality(D) \in Nat /\ Cardinality(S) \in Nat BY FS_CardinalityType
<1>4. Cardinality({r} \X D) = Cardinality(D) BY <1>1, <1>2, <1>3
<1>5. S \cap ({r} \X D) = {r} \X D OBVIOUS
<1>6. Cardinality(S \ ({r} \X D)) = Cardinality(S) - Cardinality(S \cap ({r} \X D))
  BY FS_Difference
<1>7. Cardinality({r} \X D) <= Cardinality(S) BY FS_Subset
<1> QED BY <1>4, <1>5, <1>6, <1>7

-----------------------------------------------------------------------------
(* Transactions and locks *)

LEMMA LockingTx ==
  ASSUME TypeOK, NEW h \in Handlers, Locks(h)
  PROVE  /\ tx[h] \in Locking
         /\ tx[h].id \in Requests /\ tx[h].form \in Request
         /\ tx[h].held \subseteq Years /\ tx[h].todo \subseteq Years
         /\ tx[h].asks \in Years \cup {Granted}
         /\ tx[h].op \in {"create"} \cup Verdicts
BY DEF TypeOK, Locks, Locking, Setting

LEMMA Accountable ==
  ASSUME NEW form \in Request, NEW y \in Years
  PROVE  AccountOf(form, y) \in Accounts /\ AccountOf(form, y)[3] = y
BY DEF AccountOf, Accounts, Request

LEMMA AccountParts ==
  ASSUME NEW a \in Accounts
  PROVE  a[3] \in Years /\ a = <<a[1], a[2], a[3]>>
BY DEF Accounts

LEMMA HoldsIff ==
  ASSUME TypeOK, NEW h \in Handlers, NEW a \in Accounts, Locks(h)
  PROVE  Holds(h, a) <=> a[3] \in tx[h].held /\ a = AccountOf(tx[h].form, a[3])
<1>1. tx[h].form \in Request /\ tx[h].held \subseteq Years BY LockingTx
<1> QED BY <1>1, AccountParts, Accountable DEF Holds, AccountOf

\* Nothing changes but what one handler is doing.
LEMMA OthersStay ==
  ASSUME TypeOK, NEW h \in Handlers, NEW new, tx' = [tx EXCEPT ![h] = new]
  PROVE  /\ tx'[h] = new
         /\ \A g \in Handlers \ {h} : /\ tx'[g] = tx[g]
                                      /\ Locks(g)' <=> Locks(g)
                                      /\ \A a : Holds(g, a)' <=> Holds(g, a)
BY DEF TypeOK, Locks, Holds, AccountOf

LEMMA DataStays ==
  ASSUME UNCHANGED <<balance, request>>, BalanceIsSum, NeverOverdrawn
  PROVE  /\ BalanceIsSum' /\ NeverOverdrawn'
         /\ \A form, y : Fits(form, y)' <=> Fits(form, y)
<1>1. \A form, y : DaysIn(form, y)' = DaysIn(form, y) BY DEF DaysIn
<1>2. \A form, y : Cost(form, y)' = Cost(form, y) BY <1>1 DEF Cost
<1>3. \A a, status : Drawn(a, status)' = Drawn(a, status)
  BY <1>1 DEF Drawn, AccountOf
<1> QED BY <1>2, <1>3 DEF BalanceIsSum, NeverOverdrawn, Fits, AccountOf

\* A transaction agrees with rows that did not change.
LEMMA OtherAgrees ==
  ASSUME UNCHANGED <<balance, request>>, NEW g \in Handlers, Agrees(g), tx'[g] = tx[g]
  PROVE  Agrees(g)'
<1>1. \A form, y : DaysIn(form, y)' = DaysIn(form, y) BY DEF DaysIn
<1>2. \A form, y : Cost(form, y)' = Cost(form, y) BY <1>1 DEF Cost
<1>3. \A form, y : Fits(form, y)' <=> Fits(form, y) BY <1>2 DEF Fits, AccountOf
<1>4. YearsOf(tx[g].form)' = YearsOf(tx[g].form) BY <1>1 DEF YearsOf
<1>5. Locks(g)' <=> Locks(g) BY DEF Locks
<1> QED BY <1>3, <1>4, <1>5 DEF Agrees

LEMMA RollbackKeeps ==
  ASSUME IInv, NEW h \in Handlers, Rollback(h)
  PROVE  IInv'
<1> USE DEF IInv, Rollback
<1>1. tx'[h] = Idle /\ \A g \in Handlers \ {h} :
        /\ tx'[g] = tx[g] /\ (Locks(g)' <=> Locks(g))
        /\ \A a : Holds(g, a)' <=> Holds(g, a)
  BY OthersStay
<1>2. ~Locks(h)' BY <1>1 DEF Locks
<1>3. \A a : ~Holds(h, a)' BY <1>2 DEF Holds
<1>4. TypeOK' BY DEF TypeOK
<1>5. LocksAreExclusive' BY <1>1, <1>2, <1>3 DEF LocksAreExclusive
<1>6. BalanceIsSum' /\ NeverOverdrawn' /\ \A form, y : Fits(form, y)' <=> Fits(form, y)
  BY DataStays
<1>7. \A g \in Handlers \ {h} : Agrees(g)'
  BY <1>1, OtherAgrees DEF TxAgrees
<1>8. Agrees(h)' BY <1>2 DEF Agrees
<1> QED BY <1>4, <1>5, <1>6, <1>7, <1>8 DEF TxAgrees

\* A transaction that starts, for a request nobody else works on.
LEMMA StartKeeps ==
  ASSUME IInv, NEW h \in Handlers, NEW r \in Requests, NEW form \in Request,
         NEW verdict \in {"create"} \cup Verdicts, Start(h, verdict, r, form),
         form.status = "PENDING",
         verdict = "create" => request[r] = NoRequest,
         verdict # "create" => request[r] = form,
         \A g \in Handlers : Locks(g) => tx[g].id # r,
         raced' \subseteq raced
  PROVE  IInv'
<1> USE DEF IInv
<1>1. PICK y \in YearsOf(form) :
        tx' = [tx EXCEPT ![h] = [op |-> verdict, id |-> r, form |-> form, held |-> {},
                                 todo |-> YearsOf(form) \ {y}, asks |-> y]]
  BY DEF Start
<1> DEFINE new == [op |-> verdict, id |-> r, form |-> form, held |-> {},
                   todo |-> YearsOf(form) \ {y}, asks |-> y]
<1>2. y \in Years /\ YearsOf(form) \subseteq Years BY <1>1 DEF YearsOf
<1>3. new \in Locking BY <1>2 DEF Locking
<1>4. tx'[h] = new /\ \A g \in Handlers \ {h} :
        /\ tx'[g] = tx[g] /\ (Locks(g)' <=> Locks(g))
        /\ \A a : Holds(g, a)' <=> Holds(g, a)
  BY <1>1, OthersStay
<1>5. UNCHANGED <<balance, request>> BY DEF Start
<1>6. TypeOK' BY <1>1, <1>3, <1>5 DEF TypeOK
<1>7. \A a : ~Holds(h, a)' BY <1>4 DEF Holds
<1>8. LocksAreExclusive' BY <1>4, <1>7 DEF LocksAreExclusive
<1>9. BalanceIsSum' /\ NeverOverdrawn' BY <1>5, DataStays
<1>10. \A g \in Handlers \ {h} : Agrees(g)'
  BY <1>4, <1>5, OtherAgrees DEF TxAgrees
<1>11. YearsOf(form)' = YearsOf(form) BY DEF YearsOf, DaysIn
<1>12. y # Granted BY <1>2, MarksAreNoValues
<1>13. Agrees(h)' BY <1>1, <1>2, <1>4, <1>5, <1>11, <1>12 DEF Agrees
<1> QED BY <1>6, <1>8, <1>9, <1>10, <1>13 DEF TxAgrees

\* A lock that is granted, when the balance has room if it must.
LEMMA GrantKeeps ==
  ASSUME IInv, NEW h \in Handlers, Asks(h), Free(h, Asked(h)), Grant(h),
         tx[h].op = "create" => Fits(tx[h].form, tx[h].asks)
  PROVE  IInv'
<1> USE DEF IInv
<1>1. PICK y \in (IF tx[h].todo = {} THEN {Granted} ELSE tx[h].todo) :
        tx' = [tx EXCEPT ![h].held = @ \cup {tx[h].asks}, ![h].asks = y,
                         ![h].todo = @ \ {y}]
  BY DEF Grant
<1> DEFINE new == [tx[h] EXCEPT !.held = @ \cup {tx[h].asks}, !.asks = y, !.todo = @ \ {y}]
<1>2. Locks(h) /\ tx[h].asks \in Years
  BY LockingTx DEF Asks
<1>3. tx[h] \in Locking BY <1>2, LockingTx
<1>4. tx' = [tx EXCEPT ![h] = new] BY <1>1, <1>3 DEF TypeOK, Locking
<1>5. /\ new \in Locking /\ new.id = tx[h].id /\ new.form = tx[h].form /\ new.op = tx[h].op
      /\ new.held = tx[h].held \cup {tx[h].asks} /\ new.todo = tx[h].todo \ {y}
      /\ new.asks = y
  BY <1>2, <1>3 DEF Locking
<1> HIDE DEF new
<1>6. tx'[h] = new /\ \A g \in Handlers \ {h} :
        /\ tx'[g] = tx[g] /\ (Locks(g)' <=> Locks(g))
        /\ \A a : Holds(g, a)' <=> Holds(g, a)
  BY <1>4, OthersStay
<1>7. UNCHANGED <<balance, request>> BY DEF Grant
<1>8. TypeOK' BY <1>4, <1>5, <1>7 DEF TypeOK, Grant
<1>9. \A a \in Accounts : Holds(h, a)' => Holds(h, a) \/ a = Asked(h)
  BY <1>2, <1>5, <1>6 DEF Holds, Asked, AccountOf
<1>10. LocksAreExclusive'
  <2>1. ASSUME NEW g \in Handlers \ {h}, NEW a \in Accounts
        PROVE  ~(Holds(g, a)' /\ Holds(h, a)')
    <3>1. CASE Holds(h, a) BY <1>6, <2>1, <3>1 DEF LocksAreExclusive
    <3>2. CASE a = Asked(h) BY <1>6, <2>1, <3>2 DEF Free
    <3> QED BY <1>9, <2>1, <3>1, <3>2
  <2>2. \A g \in Handlers \ {h} : Locks(g)' => (tx[g].id)' # (tx[h].id)'
    BY <1>2, <1>5, <1>6 DEF LocksAreExclusive
  <2>3. \A f, g \in Handlers : f # h /\ g # h /\ f # g =>
          /\ \A a \in Accounts : ~(Holds(f, a)' /\ Holds(g, a)')
          /\ Locks(f)' /\ Locks(g)' => (tx[f].id)' # (tx[g].id)'
    BY <1>6 DEF LocksAreExclusive
  <2>4. ASSUME NEW f \in Handlers, NEW g \in Handlers, f # g
        PROVE  /\ \A a \in Accounts : ~(Holds(f, a)' /\ Holds(g, a)')
               /\ Locks(f)' /\ Locks(g)' => (tx[f].id)' # (tx[g].id)'
    <3>1. CASE f = h BY <2>1, <2>2, <2>4, <3>1
    <3>2. CASE g = h BY <2>1, <2>2, <2>4, <3>2
    <3> QED BY <2>3, <2>4, <3>1, <3>2
  <2>5. Accounts' = Accounts BY DEF Accounts
  <2> QED BY <2>4, <2>5 DEF LocksAreExclusive
<1>11. BalanceIsSum' /\ NeverOverdrawn' /\ \A form, z : Fits(form, z)' <=> Fits(form, z)
  BY <1>7, DataStays
<1>12. \A g \in Handlers \ {h} : Agrees(g)'
  BY <1>6, <1>7, OtherAgrees DEF TxAgrees
<1>13. YearsOf(tx[h].form)' = YearsOf(new.form)
  BY <1>5, <1>6 DEF YearsOf, DaysIn
<1>14. Agrees(h)'
  <2>1. Agrees(h) BY DEF TxAgrees
  <2>2. new.held \cup new.todo \cup ({new.asks} \ {Granted}) = YearsOf(new.form)
    <3>1. Granted \notin tx[h].todo BY <1>3, MarksAreNoValues DEF Locking
    <3>2. tx[h].asks # Granted BY <1>2, MarksAreNoValues
    <3> QED BY <1>1, <1>2, <1>5, <2>1, <3>1, <3>2 DEF Agrees
  <2>3. new.asks = Granted => new.todo = {}
    <3>1. Granted \notin tx[h].todo BY <1>3, MarksAreNoValues DEF Locking
    <3> QED BY <1>1, <1>5, <3>1
  <2>4. new.op = "create" => \A z \in new.held : Fits(new.form, z)
    BY <1>2, <1>5, <2>1 DEF Agrees
  <2> QED BY <1>2, <1>5, <1>6, <1>7, <1>11, <1>13, <2>1, <2>2, <2>3, <2>4 DEF Agrees
<1> QED BY <1>8, <1>10, <1>11, <1>12, <1>14 DEF TxAgrees

-----------------------------------------------------------------------------
(* Steps that write rows *)

\* A transaction that ends without writing what others have locked.
LEMMA EndKeeps ==
  ASSUME IInv, NEW h \in Handlers, tx' = [tx EXCEPT ![h] = Idle],
         \A g \in Handlers \ {h} : Locks(g) => request'[tx[g].id] = request[tx[g].id],
         \A g \in Handlers \ {h}, a \in Accounts : Holds(g, a) => balance'[a] = balance[a]
  PROVE  LocksAreExclusive' /\ TxAgrees'
<1> USE DEF IInv
<1>1. tx'[h] = Idle /\ \A g \in Handlers \ {h} :
        /\ tx'[g] = tx[g] /\ (Locks(g)' <=> Locks(g))
        /\ \A a : Holds(g, a)' <=> Holds(g, a)
  BY OthersStay
<1>2. ~Locks(h)' BY <1>1 DEF Locks
<1>3. \A a : ~Holds(h, a)' BY <1>2 DEF Holds
<1>4. LocksAreExclusive' BY <1>1, <1>2, <1>3 DEF LocksAreExclusive
<1>5. ASSUME NEW g \in Handlers \ {h}, Locks(g)
      PROVE  Agrees(g)'
  <2>1. Agrees(g) BY DEF TxAgrees
  <2>2. tx[g].form \in Request /\ tx[g].held \subseteq Years BY <1>5, LockingTx
  <2>3. \A form, y : DaysIn(form, y)' = DaysIn(form, y) BY DEF DaysIn
  <2>4. \A form, y : Cost(form, y)' = Cost(form, y) BY <2>3 DEF Cost
  <2>5. YearsOf(tx[g].form)' = YearsOf(tx[g].form) BY <1>1, <2>3 DEF YearsOf
  <2>6. ASSUME NEW y \in tx[g].held, Fits(tx[g].form, y)
        PROVE  Fits(tx[g].form, y)'
    <3>1. AccountOf(tx[g].form, y) \in Accounts BY <2>2, Accountable
    <3>2. Holds(g, AccountOf(tx[g].form, y)) BY <1>5 DEF Holds
    <3>3. balance'[AccountOf(tx[g].form, y)] = balance[AccountOf(tx[g].form, y)]
      BY <3>1, <3>2
    <3> QED BY <1>1, <2>4, <2>6, <3>3 DEF Fits, AccountOf
  <2> QED BY <1>1, <1>5, <2>1, <2>5, <2>6 DEF Agrees
<1>6. \A g \in Handlers : ~Locks(g)' => Agrees(g)' BY DEF Agrees
<1>7. \A g \in Handlers : Agrees(g)' BY <1>1, <1>2, <1>5, <1>6
<1> QED BY <1>4, <1>7 DEF TxAgrees

\* What is drawn from a balance changes only by the request that changes.
LEMMA DrawnBy ==
  ASSUME NEW r \in Requests, \A q \in Requests \ {r} : request'[q] = request[q],
         NEW a, NEW s, NEW p \in Requests \X WorkDays
  PROVE  /\ p[1] # r => (p \in Drawn(a, s)' <=> p \in Drawn(a, s))
         /\ p[1] = r =>
              /\ p \in Drawn(a, s) <=>
                   /\ request[r] # NoRequest /\ request[r].status = s
                   /\ a = AccountOf(request[r], a[3]) /\ p[2] \in DaysIn(request[r], a[3])
              /\ p \in Drawn(a, s)' <=>
                   /\ request'[r] # NoRequest /\ request'[r].status = s
                   /\ a = AccountOf(request'[r], a[3]) /\ p[2] \in DaysIn(request'[r], a[3])
<1>1. p[1] \in Requests OBVIOUS
<1> QED BY <1>1 DEF Drawn, AccountOf, DaysIn

\* A transaction whose locks are all granted holds the balances its days are drawn from.
LEMMA GrantedAll ==
  ASSUME IInv, NEW h \in Handlers, Locks(h), tx[h].asks = Granted, NEW a \in Accounts
  PROVE  /\ Holds(h, a) => /\ a = AccountOf(tx[h].form, a[3])
                           /\ DaysIn(tx[h].form, a[3]) # {} /\ a[3] \in tx[h].held
         /\ ~Holds(h, a) /\ a = AccountOf(tx[h].form, a[3]) => DaysIn(tx[h].form, a[3]) = {}
<1>1. Agrees(h) /\ TypeOK BY DEF IInv, TxAgrees
<1>2. tx[h].held = YearsOf(tx[h].form) BY <1>1 DEF Agrees
<1>3. a[3] \in Years BY AccountParts
<1>4. Holds(h, a) <=> a[3] \in tx[h].held /\ a = AccountOf(tx[h].form, a[3])
  BY <1>1, HoldsIff
<1> QED BY <1>2, <1>3, <1>4 DEF YearsOf

LEMMA CommitCreateKeeps ==
  ASSUME IInv, NEW h \in Handlers, CommitCreate(h)
  PROVE  IInv'
<1> USE DEF IInv
<1> DEFINE r == tx[h].id
           f == tx[h].form
           D(a) == DaysIn(f, a[3])
<1>1. Locks(h) /\ tx[h].asks = Granted /\ tx[h].op = "create" BY DEF CommitCreate
<1>2. r \in Requests /\ f \in Request /\ tx[h].held \subseteq Years BY <1>1, LockingTx
<1>3. Agrees(h) BY DEF TxAgrees
<1>4. f.status = "PENDING" /\ request[r] = NoRequest /\ \A y \in tx[h].held : Fits(f, y)
  BY <1>1, <1>3 DEF Agrees
<1>5. f # NoRequest BY <1>2, MarksAreNoValues
<1>6. request' = [request EXCEPT ![r] = f] BY DEF CommitCreate
<1>7. request'[r] = f /\ \A q \in Requests \ {r} : request'[q] = request[q]
  BY <1>2, <1>6 DEF TypeOK
<1>8. \A a \in Accounts : /\ ~Holds(h, a) => balance'[a] = balance[a]
                          /\ Holds(h, a) =>
                               balance'[a] = [balance[a] EXCEPT !.pending = @ + Cost(f, a[3])]
  BY DEF CommitCreate
<1> HIDE DEF r, f
<1>9. LocksAreExclusive' /\ TxAgrees'
  <2>1. \A g \in Handlers \ {h} : Locks(g) => request'[tx[g].id] = request[tx[g].id]
    BY <1>1, <1>7, LockingTx DEF LocksAreExclusive, r
  <2>2. \A g \in Handlers \ {h}, a \in Accounts : Holds(g, a) => balance'[a] = balance[a]
    BY <1>8 DEF LocksAreExclusive
  <2> QED BY <2>1, <2>2, EndKeeps DEF CommitCreate
<1>10. ASSUME NEW a \in Accounts, NEW s, s # "PENDING" \/ ~Holds(h, a)
       PROVE  Drawn(a, s)' = Drawn(a, s)
  <2>1. ~(f.status = s /\ a = AccountOf(f, a[3]) /\ D(a) # {})
    BY <1>1, <1>4, <1>10, GrantedAll DEF f
  <2>2. \A p \in Requests \X WorkDays : p \in Drawn(a, s)' <=> p \in Drawn(a, s)
    BY <1>2, <1>4, <1>7, <2>1, DrawnBy
  <2> QED BY <2>2 DEF Drawn
<1>11. ASSUME NEW a \in Accounts, Holds(h, a)
       PROVE  /\ Drawn(a, "PENDING")' = Drawn(a, "PENDING") \cup ({r} \X D(a))
              /\ Drawn(a, "PENDING") \cap ({r} \X D(a)) = {}
  <2>1. a = AccountOf(f, a[3]) BY <1>1, <1>11, GrantedAll DEF f
  <2>2. {r} \X D(a) \subseteq Requests \X WorkDays BY <1>2 DEF DaysIn
  <2>3. \A p \in Requests \X WorkDays :
          /\ p \in Drawn(a, "PENDING")' <=> p \in Drawn(a, "PENDING") \/ p \in {r} \X D(a)
          /\ ~(p \in Drawn(a, "PENDING") /\ p \in {r} \X D(a))
    BY <1>2, <1>4, <1>5, <1>7, <2>1, DrawnBy
  <2> QED BY <2>2, <2>3 DEF Drawn
<1>12. ASSUME NEW a \in Accounts, Holds(h, a)
       PROVE  /\ balance[a] # NoRow
              /\ balance[a].entitled - balance[a].used - balance[a].pending >= Cost(f, a[3])
  <2>1. a = AccountOf(f, a[3]) /\ a[3] \in tx[h].held BY <1>1, <1>12, GrantedAll DEF f
  <2> QED BY <1>4, <2>1 DEF Fits
<1>13. \A a \in Accounts : Cost(f, a[3]) \in Nat /\ Cost(f, a[3]) = Cardinality(D(a))
  BY DaysAreFinite DEF Cost
<1>14. \A a \in Accounts : balance[a] # NoRow => balance[a] \in Balance BY DEF TypeOK
<1>15. \A a \in Accounts : Holds(h, a) =>
         /\ balance'[a] \in Balance /\ balance'[a].pending = balance[a].pending + Cost(f, a[3])
         /\ balance'[a].used = balance[a].used /\ balance'[a].entitled = balance[a].entitled
  <2> TAKE a \in Accounts
  <2> HAVE Holds(h, a)
  <2>1. balance[a] \in Balance BY <1>12, <1>14
  <2>2. balance'[a] = [balance[a] EXCEPT !.pending = @ + Cost(f, a[3])] BY <1>8
  <2>3. Cost(f, a[3]) \in Nat BY <1>13
  <2> QED BY <2>1, <2>2, <2>3 DEF Balance
<1>16. TypeOK'
  <2>1. balance' = [a \in Accounts |-> balance'[a]] BY DEF CommitCreate
  <2>2. \A a \in Accounts : balance'[a] \in Balance \cup {NoRow}
    BY <1>8, <1>14, <1>15
  <2>3. balance' \in [Accounts -> Balance \cup {NoRow}] BY <2>1, <2>2
  <2>4. request' \in [Requests -> Request \cup {NoRequest}] BY <1>2, <1>6 DEF TypeOK
  <2>5. tx' \in [Handlers -> Locking \cup Setting \cup {Idle}] BY DEF TypeOK, CommitCreate
  <2>6. raced' \subseteq SUBSET Requests
    <3>1. \A g \in Handlers \ {h} : Creates(g) => tx[g].id \in Requests
      BY LockingTx DEF Creates, Locks
    <3>2. tx[h].id \in Requests BY <1>1, LockingTx
    <3> QED BY <3>1, <3>2 DEF TypeOK, CommitCreate
  <2> QED BY <2>3, <2>4, <2>5, <2>6 DEF TypeOK
<1>17. NeverOverdrawn'
  <2>1. \A a \in Accounts :
          balance'[a] # NoRow => balance'[a].used + balance'[a].pending <= balance'[a].entitled
    <3> TAKE a \in Accounts
    <3>1. CASE Holds(h, a)
      BY <1>12, <1>13, <1>14, <1>15, <3>1 DEF Balance
    <3>2. CASE ~Holds(h, a) BY <1>8, <3>2 DEF NeverOverdrawn
    <3> QED BY <3>1, <3>2
  <2> QED BY <2>1 DEF NeverOverdrawn, Accounts
<1>18. BalanceIsSum'
  <2>1. ASSUME NEW a \in Accounts, Holds(h, a)
        PROVE  /\ balance'[a] # NoRow
               /\ balance'[a].pending = Cardinality(Drawn(a, "PENDING")')
               /\ balance'[a].used = Cardinality(Drawn(a, "APPROVED")')
    <3>1. balance'[a] # NoRow BY <1>15, <2>1, MarksAreNoValues
    <3>2. Drawn(a, "APPROVED")' = Drawn(a, "APPROVED") BY <1>10
    <3>3. Cardinality(Drawn(a, "PENDING")') = Cardinality(Drawn(a, "PENDING")) + Cost(f, a[3])
      <4>1. IsFiniteSet(Drawn(a, "PENDING")) /\ IsFiniteSet(D(a))
        BY DrawnIsFinite, DaysAreFinite
      <4>2. Drawn(a, "PENDING") \cap ({r} \X D(a)) = {} BY <1>11, <2>1
      <4> HIDE DEF D
      <4>3. Cardinality(Drawn(a, "PENDING") \cup ({r} \X D(a)))
              = Cardinality(Drawn(a, "PENDING")) + Cardinality(D(a))
        BY <4>1, <4>2, PairsAdded
      <4> QED BY <1>11, <1>13, <2>1, <4>3
    <3>4. /\ balance[a].pending = Cardinality(Drawn(a, "PENDING"))
          /\ balance[a].used = Cardinality(Drawn(a, "APPROVED"))
      BY <1>12, <2>1 DEF BalanceIsSum
    <3> QED BY <1>15, <2>1, <3>1, <3>2, <3>3, <3>4
  <2>2. ASSUME NEW a \in Accounts, ~Holds(h, a)
        PROVE  /\ Drawn(a, "PENDING")' = Drawn(a, "PENDING")
               /\ Drawn(a, "APPROVED")' = Drawn(a, "APPROVED")
               /\ balance'[a] = balance[a]
    BY <1>8, <1>10, <2>2
  <2>3. Accounts' = Accounts BY DEF Accounts
  <2> QED BY <2>1, <2>2, <2>3 DEF BalanceIsSum
<1> QED BY <1>9, <1>16, <1>17, <1>18

LEMMA CommitSettleKeeps ==
  ASSUME IInv, NEW h \in Handlers, CommitSettle(h)
  PROVE  IInv'
<1> USE DEF IInv
<1> DEFINE r == tx[h].id
           f == tx[h].form
           op == tx[h].op
           spent(a) == IF op = "APPROVED" THEN Cost(f, a[3]) ELSE 0
           D(a) == DaysIn(f, a[3])
<1>1. Locks(h) /\ tx[h].asks = Granted /\ op # "create" BY DEF CommitSettle
<1>2. r \in Requests /\ f \in Request /\ op \in Verdicts BY <1>1, LockingTx
<1>3. Agrees(h) BY DEF TxAgrees
<1>4. f.status = "PENDING" /\ request[r] = f BY <1>1, <1>3 DEF Agrees
<1>5. request' = [request EXCEPT ![r].status = op] BY DEF CommitSettle
<1>6. \A a \in Accounts : /\ ~Holds(h, a) => balance'[a] = balance[a]
                          /\ Holds(h, a) => balance'[a] = Release(balance[a], Cost(f, a[3]), op)
  BY DEF CommitSettle
<1> HIDE DEF r, f, op
<1>7. /\ request'[r] = [f EXCEPT !.status = op]
      /\ \A q \in Requests \ {r} : request'[q] = request[q]
  BY <1>2, <1>4, <1>5 DEF TypeOK
<1>8. /\ request'[r] \in Request /\ request'[r] # NoRequest /\ f # NoRequest
      /\ request'[r].status = op
      /\ \A y : /\ AccountOf(request'[r], y) = AccountOf(f, y)
                /\ DaysIn(request'[r], y) = DaysIn(f, y)
  BY <1>2, <1>7, MarksAreNoValues DEF Request, AccountOf, DaysIn
<1>9. LocksAreExclusive' /\ TxAgrees'
  <2>1. \A g \in Handlers \ {h} : Locks(g) => request'[tx[g].id] = request[tx[g].id]
    BY <1>1, <1>7, LockingTx DEF LocksAreExclusive, r
  <2>2. \A g \in Handlers \ {h}, a \in Accounts : Holds(g, a) => balance'[a] = balance[a]
    BY <1>6 DEF LocksAreExclusive
  <2> QED BY <2>1, <2>2, EndKeeps DEF CommitSettle
\* Which days of the request are drawn before and after.
<1>10. ASSUME NEW a \in Accounts, NEW s, NEW p \in Requests \X WorkDays
       PROVE  /\ p[1] # r => (p \in Drawn(a, s)' <=> p \in Drawn(a, s))
              /\ p[1] = r =>
                   /\ p \in Drawn(a, s) <=>
                        s = "PENDING" /\ a = AccountOf(f, a[3]) /\ p[2] \in D(a)
                   /\ p \in Drawn(a, s)' <=>
                        s = op /\ a = AccountOf(f, a[3]) /\ p[2] \in D(a)
  <2>1. /\ AccountOf(request'[r], a[3]) = AccountOf(f, a[3])
        /\ DaysIn(request'[r], a[3]) = D(a)
        /\ request'[r] # NoRequest /\ f # NoRequest /\ request'[r].status = op
    BY <1>8
  <2> HIDE DEF D
  <2>2. D(a) = DaysIn(request[r], a[3]) BY <1>4 DEF D
  <2>3. \A q \in Requests \ {r} : request'[q] = request[q] BY <1>7
  <2>4. /\ p[1] # r => (p \in Drawn(a, s)' <=> p \in Drawn(a, s))
        /\ p[1] = r =>
              /\ p \in Drawn(a, s) <=>
                   /\ request[r] # NoRequest /\ request[r].status = s
                   /\ a = AccountOf(request[r], a[3]) /\ p[2] \in DaysIn(request[r], a[3])
              /\ p \in Drawn(a, s)' <=>
                   /\ request'[r] # NoRequest /\ request'[r].status = s
                   /\ a = AccountOf(request'[r], a[3]) /\ p[2] \in DaysIn(request'[r], a[3])
    BY <1>2, <2>3, DrawnBy
  <2> QED BY <1>4, <2>1, <2>2, <2>4
\* The days drawn from a balance that is not held, or with another status, stay.
<1>11. ASSUME NEW a \in Accounts, NEW s, s \notin {"PENDING", op} \/ ~Holds(h, a)
       PROVE  Drawn(a, s)' = Drawn(a, s)
  <2>1. ~(s \in {"PENDING", op} /\ a = AccountOf(f, a[3]) /\ D(a) # {})
    BY <1>1, <1>11, GrantedAll DEF f
  <2>2. \A p \in Requests \X WorkDays : p \in Drawn(a, s)' <=> p \in Drawn(a, s)
    BY <1>10, <2>1
  <2> QED BY <2>2 DEF Drawn
<1>12. ASSUME NEW a \in Accounts, Holds(h, a)
       PROVE  /\ Drawn(a, "PENDING")' = Drawn(a, "PENDING") \ ({r} \X D(a))
              /\ {r} \X D(a) \subseteq Drawn(a, "PENDING")
              /\ op = "APPROVED" =>
                   /\ Drawn(a, "APPROVED")' = Drawn(a, "APPROVED") \cup ({r} \X D(a))
                   /\ Drawn(a, "APPROVED") \cap ({r} \X D(a)) = {}
              /\ D(a) # {}
  <2>1. a = AccountOf(f, a[3]) /\ D(a) # {} BY <1>1, <1>12, GrantedAll DEF f
  <2>2. {r} \X D(a) \subseteq Requests \X WorkDays BY <1>2 DEF DaysIn
  <2>3. "PENDING" # op BY <1>2 DEF Verdicts
  <2>4. \A p \in Requests \X WorkDays :
          /\ p \in Drawn(a, "PENDING")' <=> p \in Drawn(a, "PENDING") /\ p \notin {r} \X D(a)
          /\ p \in {r} \X D(a) => p \in Drawn(a, "PENDING")
    BY <1>10, <2>1, <2>3
  <2>5. op = "APPROVED" =>
          \A p \in Requests \X WorkDays :
            /\ p \in Drawn(a, "APPROVED")' <=> p \in Drawn(a, "APPROVED") \/ p \in {r} \X D(a)
            /\ ~(p \in Drawn(a, "APPROVED") /\ p \in {r} \X D(a))
    BY <1>10, <2>1
  <2>6. /\ Drawn(a, "PENDING")' \subseteq Requests \X WorkDays
        /\ Drawn(a, "PENDING") \subseteq Requests \X WorkDays
        /\ Drawn(a, "APPROVED")' \subseteq Requests \X WorkDays
        /\ Drawn(a, "APPROVED") \subseteq Requests \X WorkDays
    BY DEF Drawn
  <2> HIDE DEF D
  <2>7. Drawn(a, "PENDING")' = Drawn(a, "PENDING") \ ({r} \X D(a)) BY <2>4, <2>6
  <2>8. {r} \X D(a) \subseteq Drawn(a, "PENDING") BY <2>2, <2>4
  <2>9. op = "APPROVED" => Drawn(a, "APPROVED")' = Drawn(a, "APPROVED") \cup ({r} \X D(a))
    BY <2>2, <2>5, <2>6
  <2>10. op = "APPROVED" => Drawn(a, "APPROVED") \cap ({r} \X D(a)) = {} BY <2>2, <2>5
  <2> QED BY <2>1, <2>7, <2>8, <2>9, <2>10
<1>13. \A a \in Accounts : Cost(f, a[3]) \in Nat /\ Cost(f, a[3]) = Cardinality(D(a))
  BY DaysAreFinite DEF Cost
<1>14. \A a \in Accounts : balance[a] # NoRow => balance[a] \in Balance BY DEF TypeOK
\* What a held balance has pending covers the days of the request.
<1>15. ASSUME NEW a \in Accounts, Holds(h, a)
       PROVE  /\ balance[a] \in Balance
              /\ balance[a].pending = Cardinality(Drawn(a, "PENDING"))
              /\ balance[a].used = Cardinality(Drawn(a, "APPROVED"))
              /\ Cardinality(Drawn(a, "PENDING")') = balance[a].pending - Cost(f, a[3])
              /\ Cost(f, a[3]) <= balance[a].pending
              /\ Cardinality(Drawn(a, "APPROVED")') = balance[a].used + spent(a)
  <2>1. PICK d : d \in D(a) BY <1>12, <1>15
  <2>2. <<r, d>> \in Drawn(a, "PENDING") BY <1>12, <1>15, <2>1
  <2>3. balance[a] # NoRow BY <2>2 DEF BalanceIsSum
  <2>4. /\ balance[a].pending = Cardinality(Drawn(a, "PENDING"))
        /\ balance[a].used = Cardinality(Drawn(a, "APPROVED"))
    BY <2>3 DEF BalanceIsSum
  <2>5. /\ IsFiniteSet(Drawn(a, "PENDING")) /\ IsFiniteSet(Drawn(a, "APPROVED")) /\ IsFiniteSet(D(a))
        /\ Cardinality(Drawn(a, "APPROVED")) \in Nat
    BY DrawnIsFinite, DaysAreFinite
  <2>6. /\ {r} \X D(a) \subseteq Drawn(a, "PENDING")
        /\ op = "APPROVED" => Drawn(a, "APPROVED") \cap ({r} \X D(a)) = {}
    BY <1>12, <1>15
  <2> HIDE DEF D
  <2>7. /\ Cardinality(Drawn(a, "PENDING") \ ({r} \X D(a)))
             = Cardinality(Drawn(a, "PENDING")) - Cardinality(D(a))
        /\ Cardinality(D(a)) <= Cardinality(Drawn(a, "PENDING"))
    BY <2>5, <2>6, PairsRemoved
  <2>8. op = "APPROVED" =>
          Cardinality(Drawn(a, "APPROVED") \cup ({r} \X D(a)))
            = Cardinality(Drawn(a, "APPROVED")) + Cardinality(D(a))
    BY <2>5, <2>6, PairsAdded
  <2>9. Cardinality(Drawn(a, "APPROVED")') = balance[a].used + spent(a)
    <3>1. CASE op = "APPROVED" BY <1>12, <1>13, <1>15, <2>4, <2>8, <3>1
    <3>2. CASE op # "APPROVED"
      <4>1. Drawn(a, "APPROVED")' = Drawn(a, "APPROVED") BY <1>11, <3>2
      <4> QED BY <2>4, <2>5, <3>2, <4>1
    <3> QED BY <3>1, <3>2
  <2> QED BY <1>12, <1>13, <1>14, <1>15, <2>3, <2>4, <2>7, <2>9
<1>16. ASSUME NEW a \in Accounts, Holds(h, a)
       PROVE  /\ balance'[a] \in Balance
              /\ balance'[a].pending = balance[a].pending - Cost(f, a[3])
              /\ balance'[a].used = balance[a].used + spent(a)
              /\ balance'[a].entitled = balance[a].entitled
  <2>1. /\ balance[a] \in Balance /\ Cost(f, a[3]) \in Nat
        /\ Cost(f, a[3]) <= balance[a].pending
    BY <1>13, <1>15, <1>16
  <2>2. balance'[a] = [balance[a] EXCEPT !.pending = @ - Cost(f, a[3]), !.used = @ + spent(a)]
    BY <1>6, <1>16 DEF Release
  <2>3. spent(a) \in Nat BY <2>1
  <2>4. balance[a].pending - Cost(f, a[3]) \in Nat BY <2>1 DEF Balance
  <2> HIDE DEF spent
  <2>5. balance[a].used + spent(a) \in Nat BY <2>1, <2>3 DEF Balance
  <2>6. PICK x, z \in Nat : x = balance[a].pending - Cost(f, a[3]) /\ z = balance[a].used + spent(a)
    BY <2>4, <2>5
  <2>7. balance'[a] = [balance[a] EXCEPT !.pending = x, !.used = z] BY <2>2, <2>6
  <2> QED BY <2>1, <2>6, <2>7 DEF Balance
<1>17. TypeOK'
  <2>1. balance' = [a \in Accounts |-> balance'[a]] BY DEF CommitSettle
  <2>2. \A a \in Accounts : balance'[a] \in Balance \cup {NoRow} BY <1>6, <1>14, <1>16
  <2>3. balance' \in [Accounts -> Balance \cup {NoRow}] BY <2>1, <2>2
  <2>4. request' \in [Requests -> Request \cup {NoRequest}]
    <3>1. request' = [q \in Requests |-> request'[q]] BY <1>5 DEF TypeOK
    <3>2. \A q \in Requests : request'[q] \in Request \cup {NoRequest}
      BY <1>7, <1>8 DEF TypeOK
    <3> QED BY <3>1, <3>2
  <2>5. tx' \in [Handlers -> Locking \cup Setting \cup {Idle}] BY DEF TypeOK, CommitSettle
  <2>6. raced' = raced BY DEF CommitSettle
  <2> QED BY <2>3, <2>4, <2>5, <2>6 DEF TypeOK
<1>18. NeverOverdrawn'
  <2>1. \A a \in Accounts :
          balance'[a] # NoRow => balance'[a].used + balance'[a].pending <= balance'[a].entitled
    <3> TAKE a \in Accounts
    <3>1. CASE Holds(h, a)
      <4>1. balance[a].used + balance[a].pending <= balance[a].entitled
        BY <1>15, <3>1, MarksAreNoValues DEF NeverOverdrawn
      <4> QED BY <1>13, <1>15, <1>16, <3>1, <4>1 DEF Balance
    <3>2. CASE ~Holds(h, a) BY <1>6, <3>2 DEF NeverOverdrawn
    <3> QED BY <3>1, <3>2
  <2> QED BY <2>1 DEF NeverOverdrawn, Accounts
<1>19. BalanceIsSum'
  <2>1. ASSUME NEW a \in Accounts, Holds(h, a)
        PROVE  /\ balance'[a] # NoRow
               /\ balance'[a].pending = Cardinality(Drawn(a, "PENDING")')
               /\ balance'[a].used = Cardinality(Drawn(a, "APPROVED")')
    BY <1>15, <1>16, <2>1, MarksAreNoValues
  <2>2. ASSUME NEW a \in Accounts, ~Holds(h, a)
        PROVE  /\ Drawn(a, "PENDING")' = Drawn(a, "PENDING")
               /\ Drawn(a, "APPROVED")' = Drawn(a, "APPROVED")
               /\ balance'[a] = balance[a]
    BY <1>6, <1>11, <2>2
  <2>3. Accounts' = Accounts BY DEF Accounts
  <2> QED BY <2>1, <2>2, <2>3 DEF BalanceIsSum
<1> QED BY <1>9, <1>17, <1>18, <1>19

LEMMA WriteSetKeeps ==
  ASSUME IInv, NEW h \in Handlers, WriteSet(h)
  PROVE  IInv'
<1> USE DEF IInv
<1> DEFINE c == tx[h].account
           n == tx[h].days
<1>1. c \in Accounts /\ n \in Nat BY DEF WriteSet, TypeOK, Locking, Setting, Verdicts
<1>2. UNCHANGED request /\ tx' = [tx EXCEPT ![h] = Idle] /\ Free(h, c) BY DEF WriteSet
<1>3. \/ balance' = balance
      \/ /\ Committed(c) <= n
         /\ balance' = [balance EXCEPT ![c] =
                          IF @ = NoRow THEN [entitled |-> n, used |-> 0, pending |-> 0]
                                       ELSE [@ EXCEPT !.entitled = n]]
  BY DEF WriteSet, Constraint
<1> HIDE DEF c, n
<1>4. \A a \in Accounts \ {c} : balance'[a] = balance[a] BY <1>1, <1>3 DEF TypeOK
<1>5. \A a, s : Drawn(a, s)' = Drawn(a, s) BY <1>2 DEF Drawn, AccountOf, DaysIn
<1>6. LocksAreExclusive' /\ TxAgrees'
  <2>1. \A g \in Handlers \ {h} : Locks(g) => request'[tx[g].id] = request[tx[g].id]
    BY <1>2
  <2>2. \A g \in Handlers \ {h}, a \in Accounts : Holds(g, a) => balance'[a] = balance[a]
    BY <1>2, <1>4 DEF Free
  <2> QED BY <1>2, <2>1, <2>2, EndKeeps
<1>7. balance' = [a \in Accounts |-> balance'[a]] BY <1>3 DEF TypeOK
\* The row that is written.
<1>8. /\ balance'[c] \in Balance \cup {NoRow}
      /\ balance'[c] = NoRow => balance[c] = NoRow
      /\ balance'[c] # NoRow =>
           /\ balance'[c].used + balance'[c].pending <= balance'[c].entitled
           /\ balance[c] = NoRow => balance'[c].used = 0 /\ balance'[c].pending = 0
           /\ balance[c] # NoRow => /\ balance'[c].used = balance[c].used
                                    /\ balance'[c].pending = balance[c].pending
  <2>1. CASE balance' = balance BY <1>1, <2>1 DEF TypeOK, NeverOverdrawn
  <2>2. ASSUME balance' # balance, balance[c] = NoRow
        PROVE  balance'[c] = [entitled |-> n, used |-> 0, pending |-> 0]
    BY <1>1, <1>3, <2>2 DEF TypeOK
  <2>3. ASSUME balance' # balance, balance[c] # NoRow
        PROVE  balance'[c] = [balance[c] EXCEPT !.entitled = n] /\ balance[c] \in Balance
    BY <1>1, <1>3, <2>3 DEF TypeOK
  <2>4. CASE balance' # balance /\ balance[c] = NoRow
    BY <1>1, <2>2, <2>4, MarksAreNoValues DEF Balance
  <2>5. CASE balance' # balance /\ balance[c] # NoRow
    <3>1. balance[c].used + balance[c].pending <= n BY <1>3, <2>5 DEF Committed
    <3>2. balance'[c] = [balance[c] EXCEPT !.entitled = n] /\ balance[c] \in Balance
      BY <2>3, <2>5
    <3>3. /\ balance'[c] \in Balance /\ balance'[c].entitled = n
          /\ balance'[c].used = balance[c].used /\ balance'[c].pending = balance[c].pending
      BY <1>1, <3>2 DEF Balance
    <3> QED BY <2>5, <3>1, <3>3, MarksAreNoValues
  <2> QED BY <2>1, <2>4, <2>5
<1>9. TypeOK'
  <2>1. \A a \in Accounts : balance'[a] \in Balance \cup {NoRow} BY <1>4, <1>8 DEF TypeOK
  <2>2. balance' \in [Accounts -> Balance \cup {NoRow}] BY <1>7, <2>1
  <2>3. raced' = raced BY DEF WriteSet
  <2> QED BY <1>2, <2>2, <2>3 DEF TypeOK
<1>10. NeverOverdrawn' BY <1>4, <1>8 DEF NeverOverdrawn, Accounts
<1>11. BalanceIsSum'
  <2>1. ASSUME NEW a \in Accounts
        PROVE  IF balance'[a] = NoRow THEN Drawn(a, "PENDING") \cup Drawn(a, "APPROVED") = {}
               ELSE /\ balance'[a].pending = Cardinality(Drawn(a, "PENDING"))
                    /\ balance'[a].used = Cardinality(Drawn(a, "APPROVED"))
    <3>1. CASE a # c BY <1>4, <3>1 DEF BalanceIsSum
    <3>2. CASE a = c /\ balance[c] # NoRow BY <1>8, <3>2 DEF BalanceIsSum
    <3>3. CASE a = c /\ balance[c] = NoRow
      <4>1. Drawn(a, "PENDING") = {} /\ Drawn(a, "APPROVED") = {}
        BY <3>3 DEF BalanceIsSum
      <4>2. Cardinality({}) = 0 BY FS_EmptySet
      <4> QED BY <1>8, <3>3, <4>1, <4>2
    <3> QED BY <3>1, <3>2, <3>3
  <2>2. Accounts' = Accounts BY DEF Accounts
  <2> QED BY <1>5, <2>1, <2>2 DEF BalanceIsSum
<1> QED BY <1>6, <1>9, <1>10, <1>11

LEMMA BeginSetKeeps ==
  ASSUME IInv, NEW h \in Handlers, NEW a \in Accounts, NEW days \in Entitlements,
         BeginSet(h, a, days)
  PROVE  IInv'
<1> USE DEF IInv
<1> DEFINE new == [op |-> "set", account |-> a, days |-> days]
<1>1. tx' = [tx EXCEPT ![h] = new] /\ UNCHANGED <<balance, request>> BY DEF BeginSet
<1>2. new \in Setting /\ new.op = "set" BY CalendarIsFinite DEF Setting
<1> HIDE DEF new
<1>3. tx'[h] = new /\ \A g \in Handlers \ {h} :
        /\ tx'[g] = tx[g] /\ (Locks(g)' <=> Locks(g))
        /\ \A b : Holds(g, b)' <=> Holds(g, b)
  BY <1>1, OthersStay
<1>4. ~Locks(h)' BY <1>2, <1>3 DEF Locks
<1>5. \A b : ~Holds(h, b)' BY <1>4 DEF Holds
<1>6. TypeOK' BY <1>1, <1>2 DEF TypeOK, BeginSet
<1>7. LocksAreExclusive' BY <1>3, <1>4, <1>5 DEF LocksAreExclusive
<1>8. BalanceIsSum' /\ NeverOverdrawn' BY <1>1, DataStays
<1>9. \A g \in Handlers \ {h} : Agrees(g)' BY <1>1, <1>3, OtherAgrees DEF TxAgrees
<1>10. Agrees(h)' BY <1>4 DEF Agrees
<1> QED BY <1>6, <1>7, <1>8, <1>9, <1>10 DEF TxAgrees

-----------------------------------------------------------------------------
(* The theorems *)

LEMMA InitHolds == Init => IInv
<1> SUFFICES ASSUME Init PROVE IInv OBVIOUS
<1>1. TypeOK BY DEF Init, TypeOK
<1>2. \A h \in Handlers : ~Locks(h) BY DEF Init, Locks
<1>3. LocksAreExclusive /\ TxAgrees
  BY <1>2 DEF LocksAreExclusive, TxAgrees, Agrees, Holds
<1>4. \A a, s : Drawn(a, s) = {} BY DEF Init, Drawn
<1>5. BalanceIsSum BY <1>4 DEF Init, BalanceIsSum
<1>6. NeverOverdrawn BY DEF Init, NeverOverdrawn
<1> QED BY <1>1, <1>3, <1>5, <1>6 DEF IInv

LEMMA StepKeeps ==
  ASSUME IInv, Next
  PROVE  IInv'
<1>1. PICK h \in Handlers : Begin(h) \/ Advance(h) \/ Abort(h) BY DEF Next
<1>2. TypeOK /\ TxAgrees BY DEF IInv
<1>3. ASSUME NEW r \in Requests, NEW form \in Request, BeginCreate(h, r, form)
      PROVE  IInv'
  <2>1. /\ Start(h, "create", r, form) /\ form.status = "PENDING" /\ request[r] = NoRequest
        /\ \A g \in Handlers : Locks(g) => tx[g].id # r
    BY <1>3 DEF BeginCreate, InUse
  <2>2. raced' \subseteq raced BY <1>3 DEF BeginCreate
  <2> QED BY <2>1, <2>2, StartKeeps
<1>4. ASSUME NEW r \in Requests, NEW verdict \in Verdicts, BeginSettle(h, r, verdict)
      PROVE  IInv'
  <2>1. /\ Start(h, verdict, r, request[r]) /\ request[r] # NoRequest
        /\ request[r].status = "PENDING"
        /\ \A g \in Handlers : Locks(g) => tx[g].id # r
    BY <1>4 DEF BeginSettle, Decidable
  <2>2. request[r] \in Request BY <1>2, <2>1 DEF TypeOK
  <2>3. verdict # "create" BY DEF Verdicts
  <2>4. raced' \subseteq raced BY <1>4 DEF BeginSettle
  <2> QED BY <2>1, <2>2, <2>3, <2>4, StartKeeps
<1>5. ASSUME NEW a \in Accounts, NEW days \in Entitlements, BeginSet(h, a, days)
      PROVE  IInv'
  BY <1>5, BeginSetKeeps
<1>6. CASE LockToCreate(h)
  <2>1. CASE Fits(tx[h].form, tx[h].asks) BY <1>6, <2>1, GrantKeeps DEF LockToCreate
  <2>2. CASE ~Fits(tx[h].form, tx[h].asks) BY <1>6, <2>2, RollbackKeeps DEF LockToCreate
  <2> QED BY <2>1, <2>2
<1>7. CASE CommitCreate(h) BY <1>7, CommitCreateKeeps
<1>8. CASE LockToSettle(h) BY <1>8, GrantKeeps DEF LockToSettle
<1>9. CASE CommitSettle(h) BY <1>9, CommitSettleKeeps
<1>10. CASE WriteSet(h) BY <1>10, WriteSetKeeps
<1>11. CASE Abort(h) BY <1>11, RollbackKeeps DEF Abort
<1> QED BY <1>1, <1>3, <1>4, <1>5, <1>6, <1>7, <1>8, <1>9, <1>10, <1>11 DEF Begin, Advance

LEMMA StutterKeeps ==
  ASSUME IInv, UNCHANGED vars
  PROVE  IInv'
<1> USE DEF IInv
<1>1. UNCHANGED <<balance, request>> /\ tx' = tx BY DEF vars
<1>2. TypeOK' BY <1>1 DEF TypeOK, vars
<1>3. LocksAreExclusive' BY <1>1 DEF LocksAreExclusive, Holds, Locks, AccountOf, Accounts
<1>4. BalanceIsSum' /\ NeverOverdrawn' BY <1>1, DataStays
<1>5. TxAgrees' BY <1>1, OtherAgrees DEF TxAgrees
<1> QED BY <1>2, <1>3, <1>4, <1>5

\* The inductive invariant of the leave transactions holds in every reachable state.
THEOREM Invariance == Spec => []IInv
<1>1. IInv /\ [Next]_vars => IInv' BY StepKeeps, StutterKeeps
<1> QED BY <1>1, InitHolds, PTL DEF Spec

\* Every variable keeps its type: balances never go below zero (the unsigned
\* columns of leave_balances), whatever handlers do at the same time.
THEOREM TypeCorrect == Spec => []TypeOK
<1>1. IInv => TypeOK BY DEF IInv
<1> QED BY <1>1, Invariance, PTL

\* The counters pending_days and used_days equal the days of the waiting and of
\* the approved requests after any interleaving of the handlers of leave.go.
THEOREM BalancesAreSums == Spec => []BalanceIsSum
<1>1. IInv => BalanceIsSum BY DEF IInv
<1> QED BY <1>1, Invariance, PTL

\* No balance is overdrawn, although setLeaveBalance checks before it locks and
\* createLeaveRequest locks its years one at a time.
THEOREM NothingOverdrawn == Spec => []NeverOverdrawn
<1>1. IInv => NeverOverdrawn BY DEF IInv
<1> QED BY <1>1, Invariance, PTL

\* A decision is final: decideLeaveRequest and withdrawLeaveRequest change only a
\* PENDING request, and only its status.
THEOREM DecisionsAreFinal == Spec => DecidedOnce
<1> DEFINE Final == \A r \in Requests : request[r] # NoRequest =>
             \/ request'[r] = request[r]
             \/ request[r].status = "PENDING" /\ request'[r].status \in Verdicts
                /\ request'[r] = [request[r] EXCEPT !.status = request'[r].status]
<1>1. ASSUME IInv, [Next]_vars
      PROVE  Final
  <2>1. CASE request' = request BY <2>1
  <2>2. ASSUME NEW h \in Handlers, CommitCreate(h)
        PROVE  Final
    <3>1. /\ request' = [request EXCEPT ![tx[h].id] = tx[h].form]
          /\ Locks(h) /\ tx[h].op = "create"
      BY <2>2 DEF CommitCreate
    <3>2. request[tx[h].id] = NoRequest
      BY <1>1, <3>1 DEF IInv, TxAgrees, Agrees
    <3> QED BY <1>1, <3>1, <3>2 DEF IInv, TypeOK
  <2>3. ASSUME NEW h \in Handlers, CommitSettle(h)
        PROVE  Final
    <3>1. /\ request' = [request EXCEPT ![tx[h].id].status = tx[h].op]
          /\ Locks(h) /\ tx[h].op # "create"
      BY <2>3 DEF CommitSettle
    <3>2. /\ request[tx[h].id].status = "PENDING" /\ tx[h].op \in Verdicts
          /\ tx[h].id \in Requests /\ request[tx[h].id] \in Request
      BY <1>1, <3>1, LockingTx DEF IInv, TxAgrees, Agrees
    <3>3. /\ request'[tx[h].id] = [request[tx[h].id] EXCEPT !.status = tx[h].op]
          /\ \A r \in Requests \ {tx[h].id} : request'[r] = request[r]
      BY <1>1, <3>1, <3>2 DEF IInv, TypeOK
    <3>4. request'[tx[h].id].status = tx[h].op BY <3>2, <3>3 DEF Request
    <3> QED BY <3>2, <3>3, <3>4
  <2> QED
    BY <1>1, <2>1, <2>2, <2>3
    DEF Next, Begin, Advance, Abort, Rollback, BeginCreate, BeginSettle, BeginSet, Start,
        LockToCreate, LockToSettle, Grant, WriteSet, vars
<1> QED BY <1>1, Invariance, PTL DEF Spec, DecidedOnce

-----------------------------------------------------------------------------
(* Overlaps.  The check for an overlap is outside the locks; what it is     *)
(* worth when the transaction commits is said by SeenOverlaps.              *)

\* A live request that overlaps one being created was committed after that one's check.
SeenOverlaps ==
  \A g \in Handlers : Creates(g) =>
    \A r \in Overlapping(tx[g].form) : {r, tx[g].id} \in raced

RInv == IInv /\ SeenOverlaps /\ OverlapNeedsARace

\* Steps that store no request and start none.
LEMMA QuietKeepsRaces ==
  ASSUME SeenOverlaps, OverlapNeedsARace, request' = request, raced' = raced,
         \A g \in Handlers : Creates(g)' =>
           Creates(g) /\ tx'[g].id = tx[g].id /\ tx'[g].form = tx[g].form
  PROVE  SeenOverlaps' /\ OverlapNeedsARace'
<1>1. \A r, s : Collide(r, s)' <=> Collide(r, s) BY DEF Collide
<1>2. OverlapNeedsARace' BY <1>1 DEF OverlapNeedsARace
<1>3. ASSUME NEW g \in Handlers, Creates(g)', NEW r \in Overlapping(tx[g].form)'
      PROVE  {r, tx'[g].id} \in raced'
  <2>1. r \in Overlapping(tx[g].form) BY <1>3 DEF Overlapping
  <2> QED BY <1>3, <2>1 DEF SeenOverlaps
<1>4. SeenOverlaps' BY <1>3 DEF SeenOverlaps
<1> QED BY <1>2, <1>4

\* A request that is checked overlaps nothing, and its id is in nobody's pair.
LEMMA BeginCreateKeepsRaces ==
  ASSUME RInv, NEW h \in Handlers, NEW r \in Requests, NEW form \in Request,
         BeginCreate(h, r, form)
  PROVE  SeenOverlaps' /\ OverlapNeedsARace'
<1> USE DEF RInv, IInv
<1>1. /\ request' = request /\ request[r] = NoRequest /\ Overlapping(form) = {}
      /\ raced' = {p \in raced : r \notin p}
      /\ \A g \in Handlers : Locks(g) => tx[g].id # r
  BY DEF BeginCreate, InUse, Start
<1>2. tx'[h].form = form /\ \A g \in Handlers \ {h} : tx'[g] = tx[g]
  BY DEF BeginCreate, Start, TypeOK
<1>3. \A f : Overlapping(f)' = Overlapping(f) BY <1>1 DEF Overlapping
<1>4. ASSUME NEW g \in Handlers, Creates(g)', NEW q \in Overlapping(tx[g].form)'
      PROVE  {q, tx'[g].id} \in raced'
  <2>1. g # h /\ tx'[g] = tx[g] /\ q \in Overlapping(tx[g].form)
    BY <1>1, <1>2, <1>4 DEF Overlapping
  <2>2. Creates(g) /\ Locks(g) BY <1>4, <2>1 DEF Creates, Locks
  <2>3. q # r BY <1>1, <2>1 DEF Overlapping
  <2>4. {q, tx[g].id} \in raced BY <2>1, <2>2 DEF SeenOverlaps
  <2> QED BY <1>1, <2>1, <2>2, <2>3, <2>4
<1>5. SeenOverlaps' BY <1>4 DEF SeenOverlaps
<1>6. ASSUME NEW q \in Requests, NEW s \in Requests, q # s, Collide(q, s)'
      PROVE  {q, s} \in raced'
  <2>1. Collide(q, s) BY <1>1, <1>6 DEF Collide
  <2>2. q # r /\ s # r BY <1>1, <2>1 DEF Collide
  <2> QED BY <1>1, <1>6, <2>1, <2>2 DEF OverlapNeedsARace
<1>7. OverlapNeedsARace' BY <1>6 DEF OverlapNeedsARace
<1> QED BY <1>5, <1>7

\* A request that is stored was checked: what it overlaps by now is in raced.  Those being
\* created meanwhile were checked before it was stored.
LEMMA CommitCreateKeepsRaces ==
  ASSUME RInv, NEW h \in Handlers, CommitCreate(h)
  PROVE  SeenOverlaps' /\ OverlapNeedsARace'
<1> USE DEF RInv, IInv
<1>0. PICK i, f : i = tx[h].id /\ f = tx[h].form OBVIOUS
<1>1. /\ Locks(h) /\ Creates(h) /\ i \in Requests /\ f \in Request /\ request[i] = NoRequest
      /\ \A g \in Handlers \ {h} : Locks(g) => tx[g].id # i
  BY <1>0, LockingTx DEF CommitCreate, Locks, Creates, TxAgrees, Agrees, LocksAreExclusive
<1>2. /\ request'[i] = f /\ \A q \in Requests \ {i} : request'[q] = request[q]
  BY <1>0, <1>1 DEF CommitCreate, TypeOK
<1>3. tx'[h] = Idle /\ \A g \in Handlers \ {h} : tx'[g] = tx[g]
  BY DEF CommitCreate, TypeOK
<1>4. /\ raced \subseteq raced'
      /\ \A g \in Handlers \ {h} : Creates(g) => {i, tx[g].id} \in raced'
  BY <1>0 DEF CommitCreate
<1>5. \A q \in Requests : q # i /\ q \in Overlapping(f) => {q, i} \in raced
  BY <1>0, <1>1 DEF SeenOverlaps
<1>6. ASSUME NEW g \in Handlers, Creates(g)', NEW q \in Overlapping(tx[g].form)'
      PROVE  {q, tx'[g].id} \in raced'
  <2>1. g # h /\ tx'[g] = tx[g] /\ Creates(g) BY <1>3, <1>6 DEF Creates
  <2>2. CASE q = i BY <1>4, <2>1, <2>2
  <2>3. CASE q # i
    <3>1. q \in Overlapping(tx[g].form) BY <1>2, <1>6, <2>1, <2>3 DEF Overlapping
    <3> QED BY <1>4, <2>1, <3>1 DEF SeenOverlaps
  <2> QED BY <2>2, <2>3
<1>7. SeenOverlaps' BY <1>6 DEF SeenOverlaps
<1>8. ASSUME NEW q \in Requests, q # i, Collide(q, i)' \/ Collide(i, q)'
      PROVE  {q, i} \in raced'
  <2>1. request'[q] = request[q] /\ request[q] # NoRequest BY <1>2, <1>8 DEF Collide
  <2>2. request[q].last \in Nat /\ f.first \in Nat
    BY <1>1, <2>1, CalendarIsFinite DEF TypeOK, Request
  <2>3. request[q].last >= f.first <=> f.first <= request[q].last BY <2>2
  <2>4. /\ request[q].member = f.member /\ request[q].status \in Live
        /\ request[q].first <= f.last /\ f.first <= request[q].last
    BY <1>2, <1>8, <2>1 DEF Collide, Live
  <2>5. q \in Overlapping(f) BY <2>1, <2>3, <2>4 DEF Overlapping
  <2> QED BY <1>4, <1>5, <1>8, <2>5
<1>9. ASSUME NEW q \in Requests, NEW s \in Requests, q # s, Collide(q, s)'
      PROVE  {q, s} \in raced'
  <2>1. CASE q = i \/ s = i
    <3>1. CASE q = i
      <4>1. {s, i} \in raced' BY <1>8, <1>9, <3>1
      <4>2. {s, i} = {q, s} BY <3>1
      <4> QED BY <4>1, <4>2
    <3>2. CASE s = i BY <1>8, <1>9, <3>2
    <3> QED BY <2>1, <3>1, <3>2
  <2>2. CASE q # i /\ s # i
    <3>1. Collide(q, s) BY <1>2, <1>9, <2>2 DEF Collide
    <3> QED BY <1>4, <1>9, <3>1 DEF OverlapNeedsARace
  <2> QED BY <2>1, <2>2
<1>10. OverlapNeedsARace' BY <1>9 DEF OverlapNeedsARace
<1> QED BY <1>7, <1>10

\* A verdict makes no request live that was not, and moves none.
LEMMA CommitSettleKeepsRaces ==
  ASSUME RInv, NEW h \in Handlers, CommitSettle(h)
  PROVE  SeenOverlaps' /\ OverlapNeedsARace'
<1> USE DEF RInv, IInv
<1> DEFINE i == tx[h].id
<1>1. /\ Locks(h) /\ i \in Requests /\ request[i] \in Request /\ request[i].status = "PENDING"
  BY LockingTx DEF CommitSettle, TxAgrees, Agrees
<1>2. /\ request'[i] = [request[i] EXCEPT !.status = tx[h].op]
      /\ \A q \in Requests \ {i} : request'[q] = request[q]
  BY <1>1 DEF CommitSettle, TypeOK
<1>3. raced' = raced /\ tx'[h] = Idle /\ \A g \in Handlers \ {h} : tx'[g] = tx[g]
  BY DEF CommitSettle, TypeOK
<1> HIDE DEF i
<1>4. \A q \in Requests :
        /\ request'[q] # NoRequest => request[q] # NoRequest
        /\ request[q] # NoRequest =>
             /\ request'[q].member = request[q].member
             /\ request'[q].first = request[q].first /\ request'[q].last = request[q].last
             /\ request'[q].status \in Live => request[q].status \in Live
  <2> TAKE q \in Requests
  <2>1. CASE q # i BY <1>2, <2>1
  <2>2. CASE q = i
    <3>1. /\ request'[i].member = request[i].member
          /\ request'[i].first = request[i].first /\ request'[i].last = request[i].last
      BY <1>1, <1>2 DEF Request
    <3>2. request[i] # NoRequest /\ request[i].status \in Live
      BY <1>1, MarksAreNoValues DEF Live
    <3> QED BY <2>2, <3>1, <3>2
  <2> QED BY <2>1, <2>2
<1>5. ASSUME NEW g \in Handlers, Creates(g)', NEW q \in Overlapping(tx[g].form)'
      PROVE  {q, tx'[g].id} \in raced'
  <2>1. g # h /\ tx'[g] = tx[g] /\ Creates(g) BY <1>3, <1>5 DEF Creates
  <2>2. q \in Overlapping(tx[g].form) BY <1>4, <1>5, <2>1 DEF Overlapping, Live
  <2> QED BY <1>3, <2>1, <2>2 DEF SeenOverlaps
<1>6. SeenOverlaps' BY <1>5 DEF SeenOverlaps
<1>7. \A q, s \in Requests : Collide(q, s)' => Collide(q, s) BY <1>4 DEF Collide, Live
<1>8. OverlapNeedsARace' BY <1>3, <1>7 DEF OverlapNeedsARace
<1> QED BY <1>6, <1>8

LEMMA StepKeepsRaces ==
  ASSUME RInv, [Next]_vars
  PROVE  SeenOverlaps' /\ OverlapNeedsARace'
<1>1. TypeOK /\ SeenOverlaps /\ OverlapNeedsARace BY DEF RInv, IInv
<1>2. CASE UNCHANGED vars
  BY <1>1, <1>2, QuietKeepsRaces DEF vars, Creates
<1>3. CASE Next
  <2>1. PICK h \in Handlers : Begin(h) \/ Advance(h) \/ Abort(h) BY <1>3 DEF Next
  <2>2. ASSUME NEW r \in Requests, NEW form \in Request, BeginCreate(h, r, form)
        PROVE  SeenOverlaps' /\ OverlapNeedsARace'
    BY <2>2, BeginCreateKeepsRaces
  <2>3. ASSUME \/ \E r \in Requests, verdict \in Verdicts : BeginSettle(h, r, verdict)
               \/ \E a \in Accounts, days \in Entitlements : BeginSet(h, a, days)
        PROVE  SeenOverlaps' /\ OverlapNeedsARace'
    <3>1. /\ request' = request /\ raced' = raced
          /\ ~Creates(h)' /\ \A g \in Handlers \ {h} : tx'[g] = tx[g]
      BY <1>1, <2>3 DEF BeginSettle, BeginSet, Start, Creates, TypeOK, Verdicts
    <3> QED BY <1>1, <3>1, QuietKeepsRaces DEF Creates
  <2>4. CASE (LockToCreate(h) /\ Grant(h)) \/ LockToSettle(h)
    <3>1. PICK new : /\ tx' = [tx EXCEPT ![h] = new] /\ new.op = tx[h].op
                     /\ new.id = tx[h].id /\ new.form = tx[h].form
      <4>1. tx[h] \in Locking BY <1>1, <2>4, LockingTx DEF LockToCreate, LockToSettle, Asks
      <4>2. PICK y : tx' = [tx EXCEPT ![h].held = @ \cup {tx[h].asks}, ![h].asks = y,
                                      ![h].todo = @ \ {y}]
        BY <2>4 DEF LockToSettle, Grant
      <4> DEFINE new == [tx[h] EXCEPT !.held = @ \cup {tx[h].asks}, !.asks = y, !.todo = @ \ {y}]
      <4>3. tx' = [tx EXCEPT ![h] = new] BY <1>1, <4>1, <4>2 DEF TypeOK, Locking
      <4>4. new.op = tx[h].op /\ new.id = tx[h].id /\ new.form = tx[h].form
        BY <4>1 DEF Locking
      <4> QED BY <4>3, <4>4
    <3>2. /\ tx'[h] = new /\ \A g \in Handlers \ {h} : tx'[g] = tx[g]
      BY <1>1, <3>1 DEF TypeOK
    <3>3. request' = request /\ raced' = raced BY <2>4 DEF LockToSettle, Grant
    <3>4. Asks(h) /\ tx[h] # Idle BY <2>4 DEF LockToCreate, LockToSettle, Asks, Locks
    <3> QED BY <1>1, <3>1, <3>2, <3>3, <3>4, QuietKeepsRaces DEF Creates
  <2>5. CASE CommitCreate(h) BY <2>5, CommitCreateKeepsRaces
  <2>6. CASE CommitSettle(h) BY <2>6, CommitSettleKeepsRaces
  <2>7. CASE (LockToCreate(h) /\ Rollback(h)) \/ WriteSet(h) \/ Abort(h)
    <3>1. /\ request' = request /\ raced' = raced
          /\ tx'[h] = Idle /\ \A g \in Handlers \ {h} : tx'[g] = tx[g]
      BY <1>1, <2>7 DEF Rollback, WriteSet, Abort, TypeOK
    <3> QED BY <1>1, <3>1, QuietKeepsRaces DEF Creates
  <2>8. LockToCreate(h) => Grant(h) \/ Rollback(h) BY DEF LockToCreate
  <2> QED BY <2>1, <2>2, <2>3, <2>4, <2>5, <2>6, <2>7, <2>8 DEF Begin, Advance
<1> QED BY <1>2, <1>3

\* Two live requests of one member share a day only if each was checked before the other was
\* committed: createLeaveRequest counts overlaps before it locks, and that is the only way its
\* answer can be overtaken.
THEOREM OverlapsByARace == Spec => []OverlapNeedsARace
<1>1. Init => SeenOverlaps /\ OverlapNeedsARace
  BY DEF Init, SeenOverlaps, OverlapNeedsARace, Creates, Collide
<1>2. RInv /\ [Next]_vars => RInv'
  <2>1. IInv /\ [Next]_vars => IInv' BY StepKeeps, StutterKeeps
  <2> QED BY <2>1, StepKeepsRaces DEF RInv
<1>3. RInv => OverlapNeedsARace BY DEF RInv
<1>4. Init => RInv BY <1>1, InitHolds DEF RInv
<1> QED BY <1>2, <1>3, <1>4, PTL DEF Spec

-----------------------------------------------------------------------------
(* The refinement of the ledger.  A commit is the step of the ledger: what  *)
(* the transaction knows of the rows it has locked is what the ledger asks  *)
(* of them.                                                                 *)

\* Whoever locks balances has a day to draw from them.
SomeDay == \A h \in Handlers : Locks(h) => YearsOf(tx[h].form) # {}

LEMMA SomeDayStays ==
  ASSUME IInv, SomeDay, [Next]_vars
  PROVE  SomeDay'
<1> SUFFICES ASSUME NEW g \in Handlers, Locks(g)' PROVE YearsOf(tx'[g].form) # {}
  BY DEF SomeDay, YearsOf, DaysIn
<1>1. TypeOK BY DEF IInv
<1>2. CASE tx'[g] = tx[g] BY <1>2 DEF SomeDay, Locks, YearsOf, DaysIn
<1>3. ASSUME tx'[g] # tx[g] PROVE YearsOf(tx'[g].form) # {}
  <2>1. PICK h \in Handlers : Begin(h) \/ Advance(h) \/ Abort(h) BY <1>3 DEF Next, vars
  <2>2. ASSUME NEW verdict, NEW r, NEW form, Start(h, verdict, r, form)
        PROVE  YearsOf(tx'[g].form) # {}
    <3>1. YearsOf(form) # {} BY <2>2 DEF Start
    <3>2. g = h /\ tx'[g].form = form BY <1>1, <1>3, <2>2 DEF Start, TypeOK
    <3> QED BY <3>1, <3>2
  <2>3. ASSUME Grant(h), Locks(h) PROVE YearsOf(tx'[g].form) # {}
    <3>1. g = h /\ tx'[g].form = tx[g].form
      <4>1. tx[h] \in Locking BY <1>1, <2>3, LockingTx
      <4> QED BY <1>1, <1>3, <2>3, <4>1 DEF Grant, TypeOK, Locking
    <3> QED BY <2>3, <3>1 DEF SomeDay
  <2>4. tx'[h] # Idle
    <3>1. g = h
      BY <1>1, <1>3, <2>1 DEF Begin, BeginCreate, BeginSettle, BeginSet, Start, Advance,
         LockToCreate, LockToSettle, Grant, CommitCreate, CommitSettle, WriteSet, Abort,
         Rollback, TypeOK
    <3> QED BY <3>1 DEF Locks
  <2>5. CASE Begin(h)
    <3>1. ASSUME NEW a, NEW days, BeginSet(h, a, days) PROVE FALSE
      <4>1. tx'[h].op = "set" /\ g = h BY <1>1, <1>3, <3>1 DEF BeginSet, TypeOK
      <4> QED BY <4>1 DEF Locks
    <3> QED BY <2>2, <2>5, <3>1 DEF Begin, BeginCreate, BeginSettle
  <2>6. CASE LockToCreate(h) \/ LockToSettle(h)
    <3>1. Locks(h) BY <2>6 DEF LockToCreate, LockToSettle, Asks
    <3>2. ~Rollback(h) BY <1>1, <2>4 DEF Rollback, TypeOK
    <3> QED BY <2>3, <2>6, <3>1, <3>2 DEF LockToCreate, LockToSettle
  <2>7. CASE CommitCreate(h) \/ CommitSettle(h) \/ WriteSet(h) \/ Abort(h)
    BY <1>1, <2>4, <2>7 DEF CommitCreate, CommitSettle, WriteSet, Abort, Rollback, TypeOK
  <2> QED BY <2>1, <2>5, <2>6, <2>7 DEF Advance
<1> QED BY <1>2, <1>3

\* The ledger counts as this module does.
LEMMA CountsAlike == \A S : Ledger!Cardinality(S) = Cardinality(S)
BY DEF Ledger!Cardinality, Cardinality

\* What the ledger counts as taken is what the row's two counters say.
LEMMA TakenIsCommitted ==
  ASSUME IInv, NEW a \in Accounts
  PROVE  Cardinality(Ledger!Taken(a)) = Committed(a) /\ Committed(a) \in Nat
<1> DEFINE P == Drawn(a, "PENDING")
           A == Drawn(a, "APPROVED")
<1>1. TypeOK /\ BalanceIsSum BY DEF IInv
<1>2. Ledger!Taken(a) = P \cup A
  <2>1. \A p \in Requests \X WorkDays : p \in Ledger!Taken(a) <=> p \in P \cup A
    <3> TAKE p \in Requests \X WorkDays
    <3>1. p[1] \in Requests /\ p[2] \in WorkDays OBVIOUS
    <3>2. CASE request[p[1]] = NoRequest
      BY <3>1, <3>2 DEF Ledger!Taken, StatusOf, Drawn
    <3>3. CASE request[p[1]] # NoRequest
      <4>1. <<a, p[2]>> \in DrawnFrom[p[1]] <=>
              a = AccountOf(request[p[1]], a[3]) /\ p[2] \in DaysIn(request[p[1]], a[3])
        BY <3>1, <3>3 DEF DrawnFrom
      <4>2. StatusOf[p[1]] = request[p[1]].status BY <3>1, <3>3 DEF StatusOf
      <4> QED BY <3>1, <3>3, <4>1, <4>2 DEF Ledger!Taken, Drawn
    <3> QED BY <3>2, <3>3
  <2> QED BY <2>1 DEF Ledger!Taken, Drawn
<1>3. /\ IsFiniteSet(P) /\ IsFiniteSet(A)
      /\ Cardinality(P) \in Nat /\ Cardinality(A) \in Nat
  BY DrawnIsFinite
<1>4. P \cap A = {} BY DEF Drawn
<1>5. CASE balance[a] = NoRow
  <2>1. P \cup A = {} BY <1>1, <1>5 DEF BalanceIsSum
  <2> QED BY <1>2, <1>5, <2>1, FS_EmptySet DEF Committed
<1>6. CASE balance[a] # NoRow
  <2>1. Cardinality(P) = balance[a].pending /\ Cardinality(A) = balance[a].used
    BY <1>1, <1>6 DEF BalanceIsSum
  <2> HIDE DEF P, A
  <2>2. Cardinality(P \cup A) = Cardinality(P) + Cardinality(A) - Cardinality(P \cap A)
    BY <1>3, FS_Union
  <2>3. Cardinality(P \cap A) = 0 BY <1>4, FS_EmptySet
  <2> QED BY <1>2, <1>3, <1>6, <2>1, <2>2, <2>3 DEF Committed
<1> QED BY <1>5, <1>6

LEMMA CommitCreateImplements ==
  ASSUME IInv, SomeDay, NEW h \in Handlers, CommitCreate(h)
  PROVE  Ledger!Next
<1> DEFINE r == tx[h].id
           f == tx[h].form
           pairs == {p \in Accounts \X WorkDays : /\ p[1] = AccountOf(f, p[1][3])
                                                  /\ p[2] \in DaysIn(f, p[1][3])}
<1>1. TypeOK /\ Locks(h) /\ tx[h].asks = Granted /\ tx[h].op = "create"
  BY DEF CommitCreate, IInv
<1>2. r \in Requests /\ f \in Request BY <1>1, LockingTx
<1>3. Agrees(h) BY DEF IInv, TxAgrees
<1>4. f.status = "PENDING" /\ request[r] = NoRequest /\ \A y \in tx[h].held : Fits(f, y)
  BY <1>1, <1>3 DEF Agrees
<1>5. f # NoRequest BY <1>2, MarksAreNoValues
<1>6. YearsOf(f) # {} BY <1>1 DEF SomeDay
<1>7. request' = [request EXCEPT ![r] = f] BY DEF CommitCreate
<1>8. \A a \in Accounts :
        balance'[a] = IF Holds(h, a) THEN [balance[a] EXCEPT !.pending = @ + Cost(f, a[3])]
                                     ELSE balance[a]
  BY DEF CommitCreate
<1> HIDE DEF r, f
<1>9. ASSUME NEW a \in Accounts, Holds(h, a)
      PROVE  balance[a] # NoRow
             /\ balance[a].entitled - balance[a].used - balance[a].pending >= Cost(f, a[3])
  <2>1. a = AccountOf(f, a[3]) /\ a[3] \in tx[h].held BY <1>1, <1>9, GrantedAll DEF f
  <2> QED BY <1>4, <2>1 DEF Fits
<1>10. pairs # {}
  <2>1. PICK y \in Years : DaysIn(f, y) # {} BY <1>6 DEF YearsOf
  <2>2. PICK d : d \in DaysIn(f, y) BY <2>1
  <2>3. AccountOf(f, y) \in Accounts /\ AccountOf(f, y)[3] = y BY <1>2, Accountable
  <2>4. d \in WorkDays BY <2>2 DEF DaysIn
  <2>5. <<AccountOf(f, y), d>> \in pairs BY <2>2, <2>3, <2>4
  <2> QED BY <2>5
<1>11. \A p, q \in pairs : p[2] = q[2] => p = q
  <2> TAKE p \in pairs, q \in pairs
  <2> HAVE p[2] = q[2]
  <2>1. p[1][3] = YearOf[p[2]] /\ q[1][3] = YearOf[q[2]] BY DEF DaysIn
  <2>2. p[1] = q[1] BY <2>1
  <2>3. p = <<p[1], p[2]>> /\ q = <<q[1], q[2]>> OBVIOUS
  <2> QED BY <2>2, <2>3
<1>12. ASSUME NEW a \in Accounts, {d \in WorkDays : <<a, d>> \in pairs} # {}
       PROVE  Ledger!Room(a, Cardinality({d \in WorkDays : <<a, d>> \in pairs}))
  <2>1. a = AccountOf(f, a[3]) /\ DaysIn(f, a[3]) # {} BY <1>12
  <2>2. {d \in WorkDays : <<a, d>> \in pairs} = DaysIn(f, a[3]) BY <2>1 DEF DaysIn
  <2>3. Holds(h, a) BY <1>1, <2>1, GrantedAll DEF f
  <2>4. balance[a] # NoRow /\ balance[a] \in Balance BY <1>1, <1>9, <2>3 DEF TypeOK
  <2>5. EntitledTo[a] = balance[a].entitled /\ EntitledTo[a] # NoRow
    <3>1. EntitledTo[a] = balance[a].entitled BY <2>4 DEF EntitledTo
    <3>2. balance[a].entitled \in Nat BY <2>4 DEF Balance
    <3> QED BY <3>1, <3>2, MarksAreNoValues
  <2>6. Cardinality(Ledger!Taken(a)) = balance[a].used + balance[a].pending
    BY <2>4, TakenIsCommitted DEF Committed
  <2>7. Cost(f, a[3]) = Cardinality(DaysIn(f, a[3])) /\ Cost(f, a[3]) \in Nat
    BY DaysAreFinite DEF Cost
  <2>8. balance[a].used + balance[a].pending + Cost(f, a[3]) <= balance[a].entitled
    <3> DEFINE b == balance[a]
    <3>1. b.entitled \in Nat /\ b.used \in Nat /\ b.pending \in Nat BY <2>4 DEF Balance
    <3>2. b.entitled - b.used - b.pending >= Cost(f, a[3]) BY <1>9, <2>3
    <3> HIDE DEF b
    <3>3. b.used + b.pending + Cost(f, a[3]) <= b.entitled BY <2>7, <3>1, <3>2
    <3> QED BY <3>3 DEF b
  <2> QED BY <2>2, <2>5, <2>6, <2>7, <2>8, CountsAlike DEF Ledger!Room
<1>13. EntitledTo' = EntitledTo
  <2>1. ASSUME NEW a \in Accounts
        PROVE  (IF balance'[a] = NoRow THEN NoRow ELSE balance'[a].entitled)
                 = IF balance[a] = NoRow THEN NoRow ELSE balance[a].entitled
    <3>1. CASE Holds(h, a)
      <4>1. balance[a] \in Balance BY <1>1, <1>9, <3>1 DEF TypeOK
      <4>2. Cost(f, a[3]) \in Nat BY DaysAreFinite
      <4>3. balance'[a] \in Balance /\ balance'[a].entitled = balance[a].entitled
        <5>1. PICK b \in Balance : b = balance[a] BY <4>1
        <5>2. balance'[a] = [b EXCEPT !.pending = @ + Cost(f, a[3])] BY <1>8, <3>1, <5>1
        <5> QED BY <4>2, <5>1, <5>2 DEF Balance
      <4> QED BY <4>1, <4>3, MarksAreNoValues
    <3>2. CASE ~Holds(h, a) BY <1>8, <3>2
    <3> QED BY <3>1, <3>2
  <2>2. Accounts' = Accounts BY DEF Accounts
  <2> QED BY <2>1, <2>2 DEF EntitledTo
<1>14. DrawnFrom' = [DrawnFrom EXCEPT ![r] = pairs]
  <2>1. \A q \in Requests : request'[q] = IF q = r THEN f ELSE request[q]
    BY <1>1, <1>2, <1>7 DEF TypeOK
  <2> QED BY <1>2, <1>5, <2>1 DEF DrawnFrom, AccountOf, DaysIn
<1>15. StatusOf' = [StatusOf EXCEPT ![r] = "PENDING"]
  BY <1>1, <1>2, <1>4, <1>5, <1>7 DEF TypeOK, StatusOf
<1>16. StatusOf[r] = "none" BY <1>2, <1>4 DEF StatusOf
<1>17. pairs \in SUBSET (Accounts \X WorkDays) OBVIOUS
<1> HIDE DEF pairs
<1>18. \A a \in Accounts :
         {d \in WorkDays : <<a, d>> \in pairs} # {}
         => Ledger!Room(a, Ledger!Cardinality({d \in WorkDays : <<a, d>> \in pairs}))
  BY <1>12, CountsAlike
<1>19. Ledger!Make(r, pairs)
  BY <1>10, <1>11, <1>13, <1>14, <1>15, <1>16, <1>18 DEF Ledger!Make
<1> QED BY <1>2, <1>17, <1>19 DEF Ledger!Next

LEMMA CommitSettleImplements ==
  ASSUME IInv, NEW h \in Handlers, CommitSettle(h)
  PROVE  Ledger!Next
<1> DEFINE r == tx[h].id
           f == tx[h].form
           verdict == tx[h].op
<1>1. TypeOK /\ Locks(h) /\ verdict # "create" BY DEF CommitSettle, IInv
<1>2. r \in Requests /\ f \in Request /\ verdict \in Verdicts BY <1>1, LockingTx
<1>3. Agrees(h) BY DEF IInv, TxAgrees
<1>4. f.status = "PENDING" /\ request[r] = f BY <1>1, <1>3 DEF Agrees
<1>5. f # NoRequest BY <1>2, MarksAreNoValues
<1>6. request' = [request EXCEPT ![r].status = verdict] BY DEF CommitSettle
<1>7. \A a \in Accounts :
        balance'[a] = IF Holds(h, a) THEN Release(balance[a], Cost(f, a[3]), verdict)
                                     ELSE balance[a]
  BY DEF CommitSettle
<1>9. \A a \in Accounts : Holds(h, a) =>
        /\ balance[a] # NoRow
        /\ Cost(f, a[3]) \in Nat /\ Cost(f, a[3]) <= balance[a].pending
  <2> TAKE a \in Accounts
  <2> HAVE Holds(h, a)
  <2>1. tx[h].asks = Granted BY DEF CommitSettle
  <2>2. a = AccountOf(f, a[3]) /\ DaysIn(f, a[3]) # {} BY <1>1, <2>1, GrantedAll
  <2>3. PICK d : d \in DaysIn(f, a[3]) BY <2>2
  <2>4. <<r, d>> \in Drawn(a, "PENDING")
    BY <1>2, <1>4, <1>5, <2>2, <2>3 DEF Drawn, DaysIn
  <2>5. balance[a] # NoRow /\ balance[a].pending = Cardinality(Drawn(a, "PENDING"))
    BY <2>4 DEF IInv, BalanceIsSum
  <2>6. {r} \X DaysIn(f, a[3]) \subseteq Drawn(a, "PENDING")
    BY <1>2, <1>4, <1>5, <2>2 DEF Drawn, DaysIn
  <2>7. Cardinality(DaysIn(f, a[3])) <= Cardinality(Drawn(a, "PENDING"))
    BY <2>6, DrawnIsFinite, DaysAreFinite, PairsRemoved
  <2> QED BY <2>5, <2>7, DaysAreFinite DEF Cost
<1> HIDE DEF r, f, verdict
<1>10. EntitledTo' = EntitledTo
  <2>1. ASSUME NEW a \in Accounts
        PROVE  (IF balance'[a] = NoRow THEN NoRow ELSE balance'[a].entitled)
                 = IF balance[a] = NoRow THEN NoRow ELSE balance[a].entitled
    <3>1. CASE Holds(h, a)
      <4>1. balance[a] \in Balance BY <1>1, <1>9, <3>1 DEF TypeOK
      <4>2. /\ balance'[a] = Release(balance[a], Cost(f, a[3]), verdict)
            /\ balance'[a].entitled = balance[a].entitled
        BY <1>7, <3>1, <4>1 DEF Release, Balance
      <4>3. balance'[a] # NoRow
        <5>1. Cost(f, a[3]) \in Nat /\ Cost(f, a[3]) <= balance[a].pending
          BY <1>9, <3>1
        <5>2. balance[a].pending - Cost(f, a[3]) \in Nat BY <4>1, <5>1 DEF Balance
        <5>3. Release(balance[a], Cost(f, a[3]), verdict) \in Balance
          <6>1. PICK b \in Balance : b = balance[a] BY <4>1
          <6>2. PICK days \in Nat : days = Cost(f, a[3]) BY <5>1
          <6>3. b.pending - days \in Nat BY <5>2, <6>1, <6>2
          <6>4. Release(b, days, verdict) \in Balance
            <7>1. PICK left : left = b.pending - days OBVIOUS
            <7>2. PICK spent : spent = b.used + IF verdict = "APPROVED" THEN days ELSE 0
              OBVIOUS
            <7>3. b.used \in Nat BY DEF Balance
            <7>4. spent \in Nat
              <8>1. CASE verdict = "APPROVED" BY <6>2, <7>2, <7>3, <8>1
              <8>2. CASE verdict # "APPROVED" BY <7>2, <7>3, <8>2
              <8> QED BY <8>1, <8>2
            <7>5. Release(b, days, verdict) = [b EXCEPT !.pending = left, !.used = spent]
              BY <7>1, <7>2 DEF Release
            <7> QED BY <6>3, <7>1, <7>4, <7>5 DEF Balance
          <6> QED BY <6>1, <6>2, <6>4
        <5> QED BY <4>2, <5>3, MarksAreNoValues
      <4> QED BY <1>9, <3>1, <4>2, <4>3
    <3>2. CASE ~Holds(h, a) BY <1>7, <3>2
    <3> QED BY <3>1, <3>2
  <2>2. Accounts' = Accounts BY DEF Accounts
  <2> QED BY <2>1, <2>2 DEF EntitledTo
<1>11. /\ \A q \in Requests \ {r} : request'[q] = request[q]
       /\ request'[r] = [f EXCEPT !.status = verdict]
  BY <1>1, <1>2, <1>4, <1>6 DEF TypeOK
<1>12. /\ request'[r] # NoRequest /\ request'[r].status = verdict
       /\ \A y : /\ AccountOf(request'[r], y) = AccountOf(f, y)
                 /\ DaysIn(request'[r], y) = DaysIn(f, y)
  <2>1. request'[r] \in Request BY <1>2, <1>11 DEF Request
  <2>2. /\ request'[r].status = verdict /\ request'[r].member = f.member
        /\ request'[r].type = f.type
        /\ request'[r].first = f.first /\ request'[r].last = f.last
    BY <1>2, <1>11 DEF Request
  <2> QED BY <2>1, <2>2, MarksAreNoValues DEF AccountOf, DaysIn
<1>13. DrawnFrom' = DrawnFrom
  <2>1. ASSUME NEW q \in Requests PROVE DrawnFrom'[q] = DrawnFrom[q]
    <3>1. CASE q = r BY <1>2, <1>4, <1>5, <1>12, <3>1 DEF DrawnFrom
    <3>2. CASE q # r BY <1>11, <3>2 DEF DrawnFrom, AccountOf, DaysIn
    <3> QED BY <3>1, <3>2
  <2> QED BY <2>1 DEF DrawnFrom
<1>14. StatusOf' = [StatusOf EXCEPT ![r] = verdict]
  BY <1>2, <1>11, <1>12 DEF StatusOf
<1>15. StatusOf[r] = "PENDING" BY <1>2, <1>4, <1>5 DEF StatusOf
<1>16. Ledger!Settle(r, verdict) BY <1>10, <1>13, <1>14, <1>15 DEF Ledger!Settle
<1> QED BY <1>2, <1>16 DEF Ledger!Next, Ledger!Verdicts, Verdicts

\* The check of a new entitlement is made before the lock; the constraint of the table is
\* what counts.
LEMMA WriteSetImplements ==
  ASSUME IInv, NEW h \in Handlers, WriteSet(h), tx[h].days \in Entitlements
  PROVE  Ledger!Next \/ UNCHANGED <<EntitledTo, DrawnFrom, StatusOf>>
<1> DEFINE c == tx[h].account
           n == tx[h].days
<1>1. TypeOK /\ c \in Accounts /\ n \in Nat
  BY DEF WriteSet, IInv, TypeOK, Locking, Setting, Verdicts
<1>2. DrawnFrom' = DrawnFrom /\ StatusOf' = StatusOf
  BY DEF WriteSet, DrawnFrom, StatusOf, AccountOf, DaysIn, Accounts
<1>3. \/ balance' = balance
      \/ /\ Committed(c) <= n
         /\ balance' = [balance EXCEPT ![c] =
                          IF @ = NoRow THEN [entitled |-> n, used |-> 0, pending |-> 0]
                                       ELSE [@ EXCEPT !.entitled = n]]
  BY DEF WriteSet, Constraint
<1>6. n \in Entitlements OBVIOUS
<1> HIDE DEF c, n
<1>4. CASE balance' = balance
  <2>1. EntitledTo' = EntitledTo BY <1>4 DEF EntitledTo, Accounts
  <2> QED BY <1>2, <2>1
<1>5. CASE balance' # balance
  <2>1. Cardinality(Ledger!Taken(c)) <= n BY <1>1, <1>3, <1>5, TakenIsCommitted
  <2>2. \A a \in Accounts \ {c} : balance'[a] = balance[a] BY <1>1, <1>3 DEF TypeOK
  <2>3. balance'[c] # NoRow /\ balance'[c].entitled = n
    <3>1. CASE balance[c] = NoRow
      <4>1. balance'[c] = [entitled |-> n, used |-> 0, pending |-> 0]
        BY <1>1, <1>3, <1>5, <3>1 DEF TypeOK
      <4>2. balance'[c] \in Balance BY <1>1, <4>1 DEF Balance
      <4> QED BY <4>1, <4>2, MarksAreNoValues
    <3>2. CASE balance[c] # NoRow
      <4>1. balance'[c] = [balance[c] EXCEPT !.entitled = n] /\ balance[c] \in Balance
        BY <1>1, <1>3, <1>5, <3>2 DEF TypeOK
      <4>2. balance'[c] \in Balance /\ balance'[c].entitled = n BY <1>1, <4>1 DEF Balance
      <4> QED BY <4>2, MarksAreNoValues
    <3> QED BY <3>1, <3>2
  <2>4. EntitledTo' = [EntitledTo EXCEPT ![c] = n]
    BY <1>1, <2>2, <2>3 DEF EntitledTo, Accounts
  <2>5. Ledger!Entitle(c, n) BY <1>2, <2>1, <2>4, CountsAlike DEF Ledger!Entitle
  <2> QED BY <1>1, <1>6, <2>5 DEF Ledger!Next
<1> QED BY <1>4, <1>5

\* What is set is one of the entitlements an administrator may enter.
SetsEntitlements == \A h \in Handlers : tx[h] # Idle /\ tx[h].op = "set" => tx[h].days \in Entitlements

LEMMA SetsEntitlementsStays ==
  ASSUME IInv, SetsEntitlements, [Next]_vars
  PROVE  SetsEntitlements'
<1> SUFFICES ASSUME NEW g \in Handlers, tx'[g] # Idle, tx'[g].op = "set"
             PROVE  tx'[g].days \in Entitlements
  BY DEF SetsEntitlements
<1>1. TypeOK BY DEF IInv
<1>2. CASE tx'[g] = tx[g] BY <1>2 DEF SetsEntitlements
<1>3. ASSUME tx'[g] # tx[g] PROVE tx'[g].days \in Entitlements
  <2>1. PICK h \in Handlers : Begin(h) \/ Advance(h) \/ Abort(h) BY <1>3 DEF Next, vars
  <2>2. g = h
    BY <1>1, <1>3, <2>1 DEF Begin, BeginCreate, BeginSettle, BeginSet, Start, Advance,
       LockToCreate, LockToSettle, Grant, CommitCreate, CommitSettle, WriteSet, Abort,
       Rollback, TypeOK
  <2>3. ASSUME NEW verdict \in {"create"} \cup Verdicts, NEW r, NEW form,
               Start(h, verdict, r, form)
        PROVE  FALSE
    <3>1. tx'[g].op = verdict BY <1>1, <2>2, <2>3 DEF Start, TypeOK
    <3> QED BY <3>1 DEF Verdicts
  <2>4. ASSUME Grant(h), Locks(h) PROVE FALSE
    <3>1. tx[h] \in Locking /\ tx[h].op # "set" BY <1>1, <2>4, LockingTx DEF Locks
    <3>2. tx'[g].op = tx[g].op BY <1>1, <2>2, <2>4, <3>1 DEF Grant, TypeOK, Locking
    <3> QED BY <2>2, <3>1, <3>2
  <2>5. CASE Begin(h)
    <3>1. ASSUME NEW a, NEW days \in Entitlements, BeginSet(h, a, days)
          PROVE  tx'[g].days \in Entitlements
      BY <1>1, <2>2, <3>1 DEF BeginSet, TypeOK
    <3> QED BY <2>3, <2>5, <3>1 DEF Begin, BeginCreate, BeginSettle
  <2>6. CASE LockToCreate(h) \/ LockToSettle(h)
    <3>1. Locks(h) BY <2>6 DEF LockToCreate, LockToSettle, Asks
    <3>2. ~Rollback(h) BY <1>1, <2>2 DEF Rollback, TypeOK
    <3> QED BY <2>4, <2>6, <3>1, <3>2 DEF LockToCreate, LockToSettle
  <2>7. CASE CommitCreate(h) \/ CommitSettle(h) \/ WriteSet(h) \/ Abort(h)
    BY <1>1, <2>2, <2>7 DEF CommitCreate, CommitSettle, WriteSet, Abort, Rollback, TypeOK
  <2> QED BY <2>1, <2>5, <2>6, <2>7 DEF Advance
<1> QED BY <1>2, <1>3

LInv == IInv /\ SomeDay /\ SetsEntitlements

LEMMA StepImplements ==
  ASSUME LInv, [Next]_vars
  PROVE  [Ledger!Next]_<<EntitledTo, DrawnFrom, StatusOf>>
<1>1. ASSUME UNCHANGED <<balance, request>>
      PROVE  UNCHANGED <<EntitledTo, DrawnFrom, StatusOf>>
  BY <1>1 DEF EntitledTo, DrawnFrom, StatusOf, AccountOf, DaysIn, Accounts
<1>2. CASE UNCHANGED vars BY <1>1, <1>2 DEF vars
<1>3. CASE Next
  <2>1. PICK h \in Handlers : Begin(h) \/ Advance(h) \/ Abort(h) BY <1>3 DEF Next
  <2>2. CASE CommitCreate(h) BY <2>2, CommitCreateImplements DEF LInv
  <2>3. CASE CommitSettle(h) BY <2>3, CommitSettleImplements DEF LInv
  <2>4. CASE WriteSet(h)
    <3>1. tx[h].days \in Entitlements BY <2>4 DEF LInv, SetsEntitlements, WriteSet
    <3> QED BY <2>4, <3>1, WriteSetImplements DEF LInv
  <2>5. CASE Begin(h) \/ LockToCreate(h) \/ LockToSettle(h) \/ Abort(h)
    <3>1. UNCHANGED <<balance, request>>
      BY <2>5 DEF Begin, BeginCreate, BeginSettle, BeginSet, Start, LockToCreate,
         LockToSettle, Grant, Abort, Rollback
    <3> QED BY <1>1, <3>1
  <2> QED BY <2>1, <2>2, <2>3, <2>4, <2>5 DEF Advance
<1> QED BY <1>2, <1>3

LEMMA InitImplements == Init => LInv /\ Ledger!Init
<1> SUFFICES ASSUME Init PROVE LInv /\ Ledger!Init OBVIOUS
<1>1. IInv BY InitHolds
<1>2. SomeDay /\ SetsEntitlements BY DEF Init, SomeDay, SetsEntitlements, Locks
<1>3. Ledger!Init BY DEF Init, Ledger!Init, EntitledTo, DrawnFrom, StatusOf
<1> QED BY <1>1, <1>2, <1>3 DEF LInv

\* Whatever transactions overlap, and in whichever order they lock a request's years, leave is
\* drawn, given back and entitled as by single steps on one ledger: createLeaveRequest,
\* decideLeaveRequest, withdrawLeaveRequest and setLeaveBalance are atomic in effect.
THEOREM ActsAsLedger == Spec => ImplementsLedger
<1>1. LInv /\ [Next]_vars => LInv'
  <2>1. IInv /\ [Next]_vars => IInv' BY StepKeeps, StutterKeeps
  <2> QED BY <2>1, SomeDayStays, SetsEntitlementsStays DEF LInv
<1>2. LInv /\ [Next]_vars => [Ledger!Next]_<<EntitledTo, DrawnFrom, StatusOf>>
  BY StepImplements
<1> QED BY <1>1, <1>2, InitImplements, PTL DEF Spec, ImplementsLedger, Ledger!Spec
=============================================================================
