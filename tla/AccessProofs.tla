---------------------------- MODULE AccessProofs ----------------------------
(***************************************************************************)
(* Theorems about Access, for any people, organisations, phones and        *)
(* consoles, and any number of calls, letters and sessions.                *)
(***************************************************************************)
EXTENDS Access, FiniteSetTheorems, SequenceTheorems, TLAPS

\* A password is somebody's who has an account, and so is a letter.
Owned ==
    /\ \A u \in Users : password[u] > 0 => UserExists(u)
    /\ \A i \in DOMAIN letters : UserExists(letters[i].user)
    /\ \A s \in Sessions :
        calls[s] # None /\ calls[s].kind = "letter" => UserExists(Person(calls[s].target))

\* A session is a member's, and entitled as LiveSessionsAreEntitled says.
SessionHolds(s) ==
    Live(s) =>
        /\ Holder(s) \in Members
        /\ session[s].raced \/
             (status[Holder(s)] = "ACTIVE" /\ session[s].pw = password[session[s].user])

\* A sign-in or a switch that nothing has overtaken read what is still so.
ReadHolds(p) ==
    LET c == phone[p].call IN
    c # None =>
        /\ UserExists(c.user)
        /\ c.org # None => <<c.user, c.org>> \in Members
        /\ ~c.raced /\ c.org # None => status[<<c.user, c.org>>] = "ACTIVE"
        /\ ~c.raced /\ c.kind = "login" => c.pw = password[c.user]
        /\ c.kind = "switch" =>
            /\ c.org # None /\ phone[p].in # None
            /\ Live(phone[p].in) => session[phone[p].in].user = c.user

\* Of the letters to a user, the last one at most is good.
LastLetterOnly ==
    \A i, j \in DOMAIN letters :
        i < j /\ letters[i].user = letters[j].user => ~letters[i].usable

\* A manager acts in his own organisation, and deactivates others.
ActsOnOthers ==
    \A s \in Sessions : calls[s] # None =>
        /\ calls[s].actor[2] = calls[s].target[2]
        /\ calls[s].kind = "deactivate" => calls[s].actor # calls[s].target

\* An edit is of somebody employed; allowed, it alone holds his row, whose roles do not
\* change under it: a manager who edits himself gives up no role that he still has.
EditHolds(s) ==
    LET c == calls[s] IN
    c # None /\ c.kind \in {"edit", "write"} =>
        /\ Exists(c.target)
        /\ c.kind = "write" =>
            /\ \A t \in Sessions \ {s} :
                calls[t] # None /\ calls[t].kind = "write" => calls[t].target # c.target
            /\ c.target = c.actor => "OWNER" \in c.roles \/ roles[c.target] \cap Managing = {}

EditsHold == \A s \in Sessions : EditHolds(s)

Entitled == (\A s \in Sessions : SessionHolds(s)) /\ (\A p \in Phones : ReadHolds(p))
IInv ==
    /\ TypeOK /\ Owned /\ Entitled /\ LastLetterOnly /\ ActsOnOthers /\ EditsHold
    /\ LockoutNeedsARace /\ TakenNumberNeedsARace

-----------------------------------------------------------------------------
(* The greatest number of a finite set: the argument is a minimal          *)
(* counterexample, and not an induction, which would take an operator.     *)

LEMMA FiniteMax ==
  ASSUME NEW S \in SUBSET Nat, IsFiniteSet(S), S # {}
  PROVE  Max(S) \in S /\ \A y \in S : Max(S) >= y
<1> DEFINE HasMax(X) == \E x \in X : \A y \in X : x >= y
           Bad == {X \in SUBSET S : X # {} /\ ~HasMax(X)}
<1>1. Bad = {}
  <2>1. SUFFICES ASSUME Bad # {} PROVE FALSE OBVIOUS
  <2>2. Bad \subseteq FiniteSubsetsOf(S) BY FS_Subset DEF FiniteSubsetsOf
  <2>3. PICK X \in Bad : \A Y \in Bad : <<Y, X>> \notin StrictSubsetOrdering(S)
    BY <2>1, <2>2, FS_StrictSubsetOrderingWellFounded, WFMin, Zenon
  <2>4. PICK a \in X : TRUE OBVIOUS
  <2> DEFINE Y == X \ {a}
  <2>5. Y # {} BY <2>4
  <2>6. <<Y, X>> \in StrictSubsetOrdering(S) BY <2>4 DEF StrictSubsetOrdering
  <2>7. Y \notin Bad BY <2>3, <2>6
  <2>8. PICK b \in Y : \A y \in Y : b >= y BY <2>5, <2>7
  <2>9. a \in Nat /\ b \in Nat BY <2>4
  <2>10. HasMax(X)
    <3>1. CASE a >= b BY <2>4, <2>8, <2>9, <3>1
    <3>2. CASE b >= a BY <2>4, <2>8, <2>9, <3>2
    <3> QED BY <2>9, <3>1, <3>2
  <2> QED BY <2>10
<1>2. HasMax(S) BY <1>1
<1> QED BY <1>2 DEF Max

-----------------------------------------------------------------------------
(* The types.                                                              *)

LEMMA Persons == \A m \in Members : m[1] \in Users /\ m[2] \in Orgs
BY DEF Users, Orgs

LEMMA LivesAreRows ==
  ASSUME TypeOK, NEW s \in Sessions, Live(s)
  PROVE  session[s] \in SessionRow
BY DEF TypeOK, Live

\* The number that a creation generates is greater than those of the organisation.
LEMMA NumberIsNew ==
  ASSUME TypeOK, NEW m \in Members
  PROVE  LET n == NextEmployeeNumber(m[2]) IN
         n \in Nat \ {0} /\ \A k \in OfOrg(m[2]) : number[k] < n
<1> DEFINE K == OfOrg(m[2])
           S == {number[k] : k \in K}
           f == [k \in K |-> number[k]]
<1>1. IsFiniteSet(K) BY NoneIsNobody, FS_Subset DEF OfOrg
<1>2. f \in Surjection(K, S) BY DEF Surjection
<1>3. IsFiniteSet(S) BY <1>1, <1>2, FS_Surjection
<1>4. S \in SUBSET Nat /\ S # {} BY DEF TypeOK, OfOrg
<1>5. Max(S) \in Nat /\ \A y \in S : Max(S) >= y BY <1>3, <1>4, FiniteMax
<1>6. \A k \in K : number[k] \in S /\ number[k] \in Nat BY <1>4
<1>7. NextEmployeeNumber(m[2]) = Max(S) + 1 BY DEF NextEmployeeNumber
<1> HIDE DEF S, K
<1>8. \A k \in K : number[k] < Max(S) + 1 BY <1>5, <1>6
<1> QED BY <1>5, <1>7, <1>8 DEF K

LEMMA LettersSpent ==
  ASSUME letters \in Seq(Letter), NEW u \in Users
  PROVE  /\ Spent(u) \in Seq(Letter) /\ Len(Spent(u)) = Len(letters)
         /\ DOMAIN Spent(u) = DOMAIN letters /\ DOMAIN letters = 1..Len(letters)
         /\ \A i \in DOMAIN letters :
              /\ Spent(u)[i].user = letters[i].user
              /\ Spent(u)[i].usable <=> letters[i].usable /\ letters[i].user # u
<1>1. Len(letters) \in Nat /\ DOMAIN letters = 1..Len(letters) BY LenProperties
<1>2. \A i \in DOMAIN letters : letters[i] \in Letter BY ElementOfSeq, <1>1
<1>3. Spent(u) \in [1..Len(letters) -> Letter] BY <1>1, <1>2 DEF Spent, Letter
<1>4. Spent(u) \in Seq(Letter) /\ Len(Spent(u)) = Len(letters) BY <1>1, <1>3
<1>5. \A i \in DOMAIN letters :
        /\ Spent(u)[i].user = letters[i].user
        /\ Spent(u)[i].usable <=> letters[i].usable /\ letters[i].user # u
  BY <1>2 DEF Spent, Letter
<1> QED BY <1>1, <1>3, <1>4, <1>5

LEMMA LettersAsked ==
  ASSUME letters \in Seq(Letter), NEW u \in Users
  PROVE  LET new == LettersAfterRequest(u) IN
         /\ new \in Seq(Letter) /\ DOMAIN new = 1..(Len(letters) + 1)
         /\ DOMAIN letters = 1..Len(letters) /\ Len(letters) \in Nat
         /\ \A i \in DOMAIN letters :
              /\ new[i].user = letters[i].user
              /\ new[i].usable <=> letters[i].usable /\ letters[i].user # u
         /\ new[Len(letters) + 1].user = u
<1> DEFINE e == [user |-> u, usable |-> TRUE]
<1>1. e \in Letter /\ e.user = u BY DEF Letter
<1>2. Len(letters) \in Nat BY LenProperties
<1> HIDE DEF e
<1>3. LettersAfterRequest(u) = Append(Spent(u), e) BY DEF LettersAfterRequest, e
<1>4. /\ Append(Spent(u), e) \in Seq(Letter)
      /\ Len(Append(Spent(u), e)) = Len(letters) + 1
      /\ \A i \in 1..Len(letters) : Append(Spent(u), e)[i] = Spent(u)[i]
      /\ Append(Spent(u), e)[Len(letters) + 1] = e
  BY <1>1, LettersSpent, AppendProperties
<1>5. DOMAIN Append(Spent(u), e) = 1..(Len(letters) + 1) BY <1>4, LenProperties
<1> QED BY <1>1, <1>2, <1>3, <1>4, <1>5, LettersSpent

LEMMA RevokedType ==
  ASSUME TypeOK, NEW u, NEW os
  PROVE  Revoked(u, os) \in [Sessions -> SessionRow \cup {None}]
BY DEF Revoked, TypeOK

LEMMA OvertakenType ==
  ASSUME TypeOK, NEW u, NEW os
  PROVE  Overtaken(u, os) \in [Phones -> [in : Sessions \cup {None}, call : PhoneCall \cup {None}]]
<1> SUFFICES ASSUME NEW p \in Phones, phone[p].call # None
             PROVE  [phone[p] EXCEPT !.call.raced = TRUE]
                      \in [in : Sessions \cup {None}, call : PhoneCall \cup {None}]
  BY DEF Overtaken, TypeOK
<1>1. phone[p] \in [in : Sessions \cup {None}, call : PhoneCall \cup {None}] BY DEF TypeOK
<1>2. phone[p].call \in PhoneCall BY <1>1
<1>3. [phone[p].call EXCEPT !.raced = TRUE] \in PhoneCall BY <1>2 DEF PhoneCall
<1>4. [phone[p] EXCEPT !.call.raced = TRUE]
        = [phone[p] EXCEPT !.call = [phone[p].call EXCEPT !.raced = TRUE]]
  OBVIOUS
<1> QED BY <1>1, <1>3, <1>4

LEMMA MovedType ==
  ASSUME TypeOK, NEW m
  PROVE  Moved(m) \in [Sessions -> ManagersRow \cup {None}]
<1> SUFFICES ASSUME NEW s \in Sessions, calls[s] # None
             PROVE  [calls[s] EXCEPT !.moved = TRUE] \in ManagersRow
  BY DEF Moved, TypeOK
<1>1. calls[s] \in ManagersRow BY DEF TypeOK
<1> QED BY <1>1 DEF ManagersRow

LEMMA SpareSession ==
  ASSUME NEW s \in NewSession
  PROVE  s \in Sessions /\ session[s] = None /\ \A p \in Phones : phone[p].in # s
BY DEF NewSession

PhoneRow == [in : Sessions \cup {None}, call : PhoneCall \cup {None}]

LEMMA TypeInit == Init => TypeOK
<1> SUFFICES ASSUME Init PROVE TypeOK OBVIOUS
<1> USE AccessAssumption
<1>1. status \in [Members -> {"NONE", "INVITED", "ACTIVE", "INACTIVE"}] BY DEF Init
<1>2. roles \in [Members -> SUBSET Roles] /\ number \in [Members -> Nat] BY DEF Init
<1>3. password \in [Users -> Nat] BY DEF Init
<1>4. letters \in Seq(Letter) BY DEF Init
<1>5. session \in [Sessions -> SessionRow \cup {None}]
  <2>1. \A s \in Consoles : ActorOf[s] \in Members OBVIOUS
  <2>2. \A s \in Consoles : Row(ActorOf[s][1], ActorOf[s][2], 1, FALSE) \in SessionRow
    BY <2>1, Persons DEF Row, SessionRow
  <2> QED BY <2>2 DEF Init
<1>6. phone \in [Phones -> PhoneRow] BY DEF Init, PhoneRow
<1>7. calls \in [Sessions -> ManagersRow \cup {None}] BY DEF Init
<1>8. sent \in 0..MaxCalls /\ overruled \in BOOLEAN
  <2>1. MaxCalls \in Nat /\ sent = 0 BY DEF Init
  <2>2. overruled \in BOOLEAN BY Zenon DEF Init
  <2> QED BY <2>1, <2>2
<1> QED BY <1>1, <1>2, <1>3, <1>4, <1>5, <1>6, <1>7, <1>8 DEF TypeOK, PhoneRow

LEMMA CallType ==
  ASSUME NEW kind \in {"login", "switch"}, NEW u \in Users, NEW o \in Orgs \cup {None},
         NEW pw \in Nat
  PROVE  Call(kind, u, o, pw) \in PhoneCall
BY DEF Call, PhoneCall

LEMMA EmployersAre ==
  ASSUME NEW u, NEW o \in Employers(u)
  PROVE  o \in Orgs /\ <<u, o>> \in Members /\ status[<<u, o>>] = "ACTIVE"
<1>1. PICK m \in Of(u) : status[m] = "ACTIVE" /\ o = m[2] BY DEF Employers
<1>2. m \in Members /\ m = <<u, o>> BY <1>1, NoneIsNobody DEF Of
<1> QED BY <1>1, <1>2, Persons

\* A person's step.
LEMMA PersonsType ==
  ASSUME IInv, NEW p \in Phones, PersonsStep(p)
  PROVE  session' \in [Sessions -> SessionRow \cup {None}] /\ phone' \in [Phones -> PhoneRow]
<1> USE NoneIsNobody, AccessAssumption
<1>0. TypeOK /\ ReadHolds(p) BY DEF IInv, Entitled
<1>1. phone[p] \in PhoneRow /\ phone \in [Phones -> PhoneRow] BY <1>0 DEF TypeOK, PhoneRow
<1>2. session \in [Sessions -> SessionRow \cup {None}] BY <1>0 DEF TypeOK
<1>3. phone[p].call # None => phone[p].call \in PhoneCall BY <1>1 DEF PhoneRow
<1>4. [phone[p] EXCEPT !.call = None] \in PhoneRow BY <1>1 DEF PhoneRow
<1> DEFINE Typed == session' \in [Sessions -> SessionRow \cup {None}] /\ phone' \in [Phones -> PhoneRow]
<1>5. CASE LoginChecks(p)
  <2>1. PICK u \in Users : phone' = [phone EXCEPT ![p].call = Call("login", u, None, password[u])]
    BY <1>5 DEF LoginChecks
  <2>2. Call("login", u, None, password[u]) \in PhoneCall BY <1>0, CallType DEF TypeOK
  <2>3. [phone[p] EXCEPT !.call = Call("login", u, None, password[u])] \in PhoneRow
    BY <1>1, <2>2 DEF PhoneRow
  <2> QED BY <1>1, <1>2, <1>5, <2>1, <2>3 DEF LoginChecks
<1>6. CASE LoginResolves(p)
  <2>1. ASSUME NEW o \in Employers(phone[p].call.user)
        PROVE  [phone[p] EXCEPT !.call.org = o] \in PhoneRow
    <3>1. o \in Orgs BY EmployersAre
    <3>2. [phone[p].call EXCEPT !.org = o] \in PhoneCall BY <1>3, <1>6, <3>1 DEF LoginResolves, PhoneCall
    <3> QED BY <1>1, <3>2 DEF PhoneRow
  <2>2. phone' = [phone EXCEPT ![p] = phone'[p]]
    BY <1>1, <1>6 DEF LoginResolves
  <2>3. phone'[p] \in PhoneRow BY <1>1, <1>4, <1>6, <2>1 DEF LoginResolves
  <2>4. UNCHANGED session BY <1>6 DEF LoginResolves
  <2> QED BY <1>1, <1>2, <2>2, <2>3, <2>4
<1>7. CASE LoginInserts(p)
  <2>1. Row(phone[p].call.user, phone[p].call.org, phone[p].call.pw, phone[p].call.raced)
          \in SessionRow
    BY <1>3, <1>7 DEF LoginInserts, PhoneCall, SessionRow, Row
  <2> DEFINE row == Row(phone[p].call.user, phone[p].call.org, phone[p].call.pw, phone[p].call.raced)
  <2>2. PICK s \in NewSession : /\ session' = [session EXCEPT ![s] = row]
                               /\ phone' = [phone EXCEPT ![p] = [in |-> s, call |-> None]]
    BY <1>7 DEF LoginInserts
  <2>3. [in |-> s, call |-> None] \in PhoneRow BY SpareSession DEF PhoneRow
  <2> HIDE DEF row
  <2>4. row \in SessionRow BY <2>1 DEF row
  <2> QED BY <1>1, <1>2, <2>2, <2>3, <2>4
<1>8. ASSUME NEW o \in Orgs, SwitchReads(p, o) PROVE Typed
  <2> DEFINE c == Call("switch", session[phone[p].in].user, o, session[phone[p].in].pw)
  <2>1. phone[p].in \in Sessions /\ Live(phone[p].in)
    BY <1>1, <1>8 DEF SwitchReads, SignedOut, Admitted, PhoneRow
  <2>2. session[phone[p].in].user \in Users /\ session[phone[p].in].pw \in Nat
    BY <1>0, <2>1, LivesAreRows DEF SessionRow
  <2>3. c \in PhoneCall BY <2>2, CallType
  <2> HIDE DEF c
  <2>4. [phone[p] EXCEPT !.call = c] \in PhoneRow BY <1>1, <2>3 DEF PhoneRow
  <2>5. phone' = [phone EXCEPT ![p].call = c] /\ UNCHANGED session BY <1>8 DEF SwitchReads, c
  <2> QED BY <1>1, <1>2, <2>4, <2>5
<1>9. CASE SwitchCommits(p)
  <2> DEFINE s == phone[p].in
             c == phone[p].call
             new == [session[s] EXCEPT !.org = c.org, !.raced = @ \/ c.raced]
  <2>1. c \in PhoneCall BY <1>3, <1>9 DEF SwitchCommits
  <2>2. s \in Sessions /\ c.org \in Orgs
    BY <1>0, <1>1, <1>9, <2>1 DEF SwitchCommits, ReadHolds, PhoneRow, PhoneCall
  <2>3. Live(s) => new \in SessionRow
    BY <1>0, <2>1, <2>2, LivesAreRows DEF SessionRow, PhoneCall
  <2> HIDE DEF c
  <2>4. session' = IF CanSwitch(s)
                   THEN [session EXCEPT ![s] = [session[s] EXCEPT !.org = c.org, !.raced = @ \/ c.raced]]
                   ELSE session
    BY <1>9 DEF SwitchCommits, c
  <2>5. session' \in [Sessions -> SessionRow \cup {None}] BY <1>2, <2>3, <2>4 DEF CanSwitch
  <2>6. phone' \in [Phones -> PhoneRow] BY <1>1, <1>4, <1>9 DEF SwitchCommits
  <2> QED BY <2>5, <2>6
<1>10. CASE Logout(p)
  <2>1. [in |-> None, call |-> None] \in PhoneRow BY DEF PhoneRow
  <2> QED BY <1>1, <1>2, <1>10, <2>1 DEF Logout
<1> QED BY <1>5, <1>6, <1>7, <1>8, <1>9, <1>10 DEF PersonsStep

LEMMA ManagersCallType ==
  ASSUME NEW kind \in CallKinds, NEW actor \in Members, NEW target \in Members,
         NEW chosen \in SUBSET Roles, NEW n \in Nat
  PROVE  LET c == ManagersCall(kind, actor, target, chosen, n) IN
         c \in ManagersRow /\ c.kind = kind /\ c.actor = actor /\ c.target = target
BY DEF ManagersCall, ManagersRow

\* What a manager may send.
MaySend(c) ==
    /\ c \in ManagersRow
    /\ c.actor[2] = c.target[2]
    /\ c.kind = "deactivate" => c.actor # c.target
    /\ c.kind \notin {"letter", "write"}
    /\ c.kind = "edit" => Exists(c.target)
    /\ c.number = 0 \/ ~Creates(c)

LEMMA Actors ==
  ASSUME IInv, NEW s \in Sessions, NEW who, Allowed(s, who)
  PROVE  Holder(s) \in Members /\ Holder(s)[2] = session[s].org
<1>1. Holder(s) \in Members
  BY DEF Allowed, Admitted, IInv, Entitled, SessionHolds
<1> QED BY <1>1 DEF Holder

\* A manager's press.
LEMMA PressesAreLawful ==
  ASSUME IInv, NEW s \in Sessions, NEW m \in Members,
         \/ PressStatus(s, m)
         \/ \E chosen \in RoleInputs, n \in TypedNumbers \cup {number[m]} : PressEdit(s, m, chosen, n)
         \/ \E chosen \in RoleInputs : ConsoleCreates(s, m, chosen) \/ PhoneRegisters(s, m, chosen)
  PROVE  \E c : MaySend(c) /\ Press(s, c)
<1> USE AccessAssumption
<1>0. {} \in SUBSET Roles /\ 0 \in Nat OBVIOUS
<1>1. CASE PressStatus(s, m)
  <2> DEFINE kind == IF status[m] = "ACTIVE" THEN "deactivate" ELSE "activate"
  <2>1. Holder(s) \in Members /\ Holder(s)[2] = m[2] BY <1>1, Actors DEF PressStatus, OfOrg
  <2>2. kind \in CallKinds /\ kind \notin {"edit", "write", "invite", "create", "letter"}
    BY DEF CallKinds
  <2>3. kind = "deactivate" => Holder(s) # m BY <1>1 DEF PressStatus, MayTarget
  <2>4. Press(s, ManagersCall(kind, Holder(s), m, {}, 0)) BY <1>1 DEF PressStatus
  <2> HIDE DEF kind
  <2>5. MaySend(ManagersCall(kind, Holder(s), m, {}, 0))
    BY <1>0, <2>1, <2>2, <2>3, ManagersCallType DEF MaySend, Creates
  <2> QED BY <2>4, <2>5
<1>2. ASSUME NEW chosen \in RoleInputs, NEW n \in TypedNumbers \cup {number[m]},
             PressEdit(s, m, chosen, n)
      PROVE  \E c : MaySend(c) /\ Press(s, c)
  <2>1. Holder(s) \in Members /\ Holder(s)[2] = m[2] BY <1>2, Actors DEF PressEdit, OfOrg
  <2>2. chosen \in SUBSET Roles /\ n \in Nat BY DEF IInv, TypeOK
  <2>3. "edit" \in CallKinds /\ Exists(m) BY <1>2 DEF CallKinds, PressEdit
  <2>4. MaySend(ManagersCall("edit", Holder(s), m, chosen, n))
    BY <2>1, <2>2, <2>3, ManagersCallType DEF MaySend, Creates
  <2> QED BY <1>2, <2>4 DEF PressEdit
<1>3. ASSUME NEW chosen \in RoleInputs, NEW kind \in {"invite", "create"},
             PressCreate(s, m, chosen, kind)
      PROVE  \E c : MaySend(c) /\ Press(s, c)
  <2>1. Holder(s) \in Members /\ Holder(s)[2] = m[2] BY <1>3, Actors DEF PressCreate, OfOrg
  <2>2. chosen \in SUBSET Roles OBVIOUS
  <2>3. kind \in CallKinds /\ kind \notin {"deactivate", "edit", "write", "letter"} BY DEF CallKinds
  <2>4. ManagersCall(kind, Holder(s), m, chosen, 0).number = 0 BY DEF ManagersCall
  <2>5. MaySend(ManagersCall(kind, Holder(s), m, chosen, 0))
    BY <1>0, <2>1, <2>2, <2>3, <2>4, ManagersCallType DEF MaySend
  <2> QED BY <1>3, <2>5 DEF PressCreate
<1> QED BY <1>1, <1>2, <1>3 DEF ConsoleCreates, PhoneRegisters

LEMMA TypeNext == IInv /\ [Next]_vars => TypeOK'
<1> SUFFICES ASSUME IInv, [Next]_vars PROVE TypeOK' OBVIOUS
<1> USE NoneIsNobody, AccessAssumption
<1>0. TypeOK BY DEF IInv
<1>1. CASE UNCHANGED vars BY <1>0, <1>1 DEF vars, memberships, TypeOK
<1>2. ASSUME NEW p \in Phones, PersonsStep(p) PROVE TypeOK'
  <2>1. session' \in [Sessions -> SessionRow \cup {None}] /\ phone' \in [Phones -> PhoneRow]
    BY <1>2, PersonsType
  <2>2. UNCHANGED <<memberships, password, letters, calls, sent, overruled>>
    BY <1>2
    DEF PersonsStep, LoginChecks, LoginResolves, LoginInserts, Logout, SwitchReads, SwitchCommits
  <2> QED BY <1>0, <2>1, <2>2 DEF TypeOK, PhoneRow, memberships
<1>3. ASSUME NEW u \in Comers, RequestReset(u) PROVE TypeOK'
  <2>1. letters' \in Seq(Letter) BY <1>0, <1>3, LettersAsked DEF RequestReset, TypeOK
  <2> QED BY <1>0, <1>3, <2>1 DEF RequestReset, TypeOK, memberships
<1>4. ASSUME NEW i \in DOMAIN letters, Redeem(i) PROVE TypeOK'
  <2> DEFINE u == letters[i].user
  <2>1. u \in Users
    <3>1. letters[i] \in Letter BY <1>0, LenProperties, ElementOfSeq DEF TypeOK
    <3> QED BY <3>1 DEF Letter
  <2> HIDE DEF u
  <2>2. letters' \in Seq(Letter) BY <1>0, <1>4, <2>1, LettersSpent DEF Redeem, TypeOK, u
  <2>3. session' \in [Sessions -> SessionRow \cup {None}] BY <1>0, <1>4, RevokedType DEF Redeem
  <2>4. phone' \in [Phones -> PhoneRow] BY <1>0, <1>4, OvertakenType DEF Redeem, PhoneRow
  <2>5. password' \in [Users -> Nat] BY <1>0, <1>4, <2>1 DEF Redeem, TypeOK, u
  <2>6. status' \in [Members -> {"NONE", "INVITED", "ACTIVE", "INACTIVE"}]
    BY <1>0, <1>4 DEF Redeem, TypeOK
  <2> QED BY <1>0, <1>4, <2>2, <2>3, <2>4, <2>5, <2>6 DEF Redeem, TypeOK, PhoneRow
<1>5. CASE CallLost
  <2>1. phone' \in [Phones -> PhoneRow]
    <3>1. ASSUME NEW p \in Phones PROVE [phone[p] EXCEPT !.call = None] \in PhoneRow
      <4>1. phone[p] \in PhoneRow BY <1>0 DEF TypeOK, PhoneRow
      <4> QED BY <4>1 DEF PhoneRow
    <3>2. phone \in [Phones -> PhoneRow] BY <1>0 DEF TypeOK, PhoneRow
    <3>3. UNCHANGED phone \/ \E p \in Phones : phone' = [phone EXCEPT ![p] = [phone[p] EXCEPT !.call = None]]
      BY <1>5 DEF CallLost
    <3> QED BY <3>1, <3>2, <3>3
  <2>2. session' \in [Sessions -> SessionRow \cup {None}]
    <3>1. ASSUME NEW p \in Phones, NEW s \in NewSession,
                 phone[p].call # None, phone[p].call.org # None
          PROVE  Row(phone[p].call.user, phone[p].call.org, phone[p].call.pw, phone[p].call.raced)
                   \in SessionRow
      <4>1. phone[p].call \in PhoneCall BY <1>0, <3>1 DEF TypeOK
      <4> QED BY <3>1, <4>1 DEF PhoneCall, SessionRow, Row
    <3>2. session \in [Sessions -> SessionRow \cup {None}] BY <1>0 DEF TypeOK
    <3>3. \/ UNCHANGED session
          \/ \E p \in Phones, s \in NewSession :
               /\ phone[p].call # None /\ phone[p].call.org # None
               /\ session' = [session EXCEPT ![s] =
                    Row(phone[p].call.user, phone[p].call.org, phone[p].call.pw, phone[p].call.raced)]
      BY <1>5 DEF CallLost
    <3> QED BY <3>1, <3>2, <3>3, SpareSession
  <2>3. calls' \in [Sessions -> ManagersRow \cup {None}] BY <1>0, <1>5 DEF CallLost, TypeOK
  <2> QED BY <1>0, <1>5, <2>1, <2>2, <2>3 DEF CallLost, TypeOK, PhoneRow, memberships
<1>6. ASSUME NEW s \in Sessions, NEW m \in Members,
             \/ PressStatus(s, m)
             \/ \E chosen \in RoleInputs, n \in TypedNumbers \cup {number[m]} : PressEdit(s, m, chosen, n)
             \/ \E chosen \in RoleInputs : ConsoleCreates(s, m, chosen) \/ PhoneRegisters(s, m, chosen)
      PROVE  TypeOK'
  <2>1. PICK c : MaySend(c) /\ Press(s, c) BY <1>6, PressesAreLawful
  <2>2. calls' \in [Sessions -> ManagersRow \cup {None}] BY <1>0, <2>1 DEF Press, MaySend, TypeOK
  <2>3. sent' \in 0..MaxCalls BY <1>0, <2>1 DEF Press, TypeOK
  <2> QED BY <1>0, <2>1, <2>2, <2>3 DEF Press, TypeOK, memberships
<1>7. ASSUME NEW s \in Sessions, StatusCommits(s) PROVE TypeOK'
  <2>1. session' \in [Sessions -> SessionRow \cup {None}]
    BY <1>0, <1>7, RevokedType DEF StatusCommits, TypeOK
  <2>2. phone' \in [Phones -> PhoneRow] BY <1>0, <1>7, OvertakenType DEF StatusCommits, PhoneRow, TypeOK
  <2>3. status' \in [Members -> {"NONE", "INVITED", "ACTIVE", "INACTIVE"}]
    BY <1>0, <1>7 DEF StatusCommits, TypeOK
  <2>4. calls' \in [Sessions -> ManagersRow \cup {None}] BY <1>0, <1>7 DEF StatusCommits, TypeOK
  <2>5. overruled' \in BOOLEAN BY <1>7, Zenon DEF StatusCommits, Overrules
  <2> QED BY <1>0, <1>7, <2>1, <2>2, <2>3, <2>4, <2>5 DEF StatusCommits, TypeOK, PhoneRow
<1>8. ASSUME NEW s \in Sessions, EditCommits(s) PROVE TypeOK'
  <2>1. session' \in [Sessions -> SessionRow \cup {None}]
    BY <1>0, <1>8, RevokedType DEF EditCommits, TypeOK
  <2>2. phone' \in [Phones -> PhoneRow] BY <1>0, <1>8, OvertakenType DEF EditCommits, PhoneRow, TypeOK
  <2>3. calls[s] \in ManagersRow BY <1>0, <1>8 DEF EditCommits, TypeOK
  <2>4. roles' \in [Members -> SUBSET Roles] /\ number' \in [Members -> Nat]
    <3>1. \/ /\ roles' = [roles EXCEPT ![calls[s].target] = calls[s].roles]
             /\ number' = [number EXCEPT ![calls[s].target] = calls[s].number]
          \/ UNCHANGED <<roles, number>>
      BY <1>8 DEF EditCommits
    <3>2. calls[s].roles \in SUBSET Roles /\ calls[s].number \in Nat BY <2>3 DEF ManagersRow
    <3> QED BY <1>0, <3>1, <3>2 DEF TypeOK
  <2>5. calls' \in [Sessions -> ManagersRow \cup {None}]
    <3>1. \/ calls' = [Moved(calls[s].target) EXCEPT ![s] = None]
          \/ calls' = [calls EXCEPT ![s] = None]
      BY <1>8 DEF EditCommits
    <3>2. Moved(calls[s].target) \in [Sessions -> ManagersRow \cup {None}] BY <1>0, MovedType
    <3> QED BY <1>0, <3>1, <3>2 DEF TypeOK
  <2>6. overruled' \in BOOLEAN BY <1>0, <1>8, Zenon DEF EditCommits, Overrules, TypeOK
  <2> QED BY <1>0, <1>8, <2>1, <2>2, <2>4, <2>5, <2>6 DEF EditCommits, TypeOK, PhoneRow
<1>12. ASSUME NEW s \in Sessions, EditReads(s) PROVE TypeOK'
  <2>1. calls[s] \in ManagersRow BY <1>0, <1>12 DEF EditReads, TypeOK
  <2>2. [calls[s] EXCEPT !.kind = "write"] \in ManagersRow BY <2>1 DEF ManagersRow, CallKinds
  <2>3. calls' \in [Sessions -> ManagersRow \cup {None}]
    BY <1>0, <1>12, <2>2 DEF EditReads, TypeOK
  <2> QED BY <1>0, <1>12, <2>3 DEF EditReads, TypeOK, memberships
<1>9. ASSUME NEW s \in Sessions, CreateReads(s) PROVE TypeOK'
  <2> DEFINE n == NextEmployeeNumber(calls[s].target[2])
             k == UserExists(Person(calls[s].target))
  <2>1. calls[s] \in ManagersRow BY <1>0, <1>9 DEF CreateReads, Creates, TypeOK
  <2>2. n \in Nat BY <1>0, <2>1, NumberIsNew DEF ManagersRow
  <2>3. k \in BOOLEAN BY DEF UserExists
  <2> HIDE DEF n, k
  <2>4. [calls[s] EXCEPT !.number = n, !.known = k] \in ManagersRow
    BY <2>1, <2>2, <2>3 DEF ManagersRow
  <2>5. calls' = [calls EXCEPT ![s] = IF MayCreate(calls[s])
                                      THEN [calls[s] EXCEPT !.number = n, !.known = k] ELSE None]
    BY <1>9 DEF CreateReads, n, k
  <2>6. calls' \in [Sessions -> ManagersRow \cup {None}] BY <1>0, <2>4, <2>5 DEF TypeOK
  <2> QED BY <1>0, <1>9, <2>6 DEF CreateReads, TypeOK, memberships
<1>10. ASSUME NEW s \in Sessions, CreateCommits(s) PROVE TypeOK'
  <2>1. calls[s] \in ManagersRow BY <1>0, <1>10 DEF CreateCommits, Creates, TypeOK
  <2>2. [calls[s] EXCEPT !.kind = "letter"] \in ManagersRow BY <2>1 DEF ManagersRow, CallKinds
  <2>3. calls' \in [Sessions -> ManagersRow \cup {None}]
    <3>1. \/ calls' = [Moved(calls[s].target) EXCEPT ![s] = None]
          \/ calls' = [Moved(calls[s].target) EXCEPT ![s] = [calls[s] EXCEPT !.kind = "letter"]]
          \/ calls' = [calls EXCEPT ![s] = None]
      BY <1>10 DEF CreateCommits
    <3>2. Moved(calls[s].target) \in [Sessions -> ManagersRow \cup {None}] BY <1>0, MovedType
    <3> QED BY <1>0, <2>2, <3>1, <3>2 DEF TypeOK
  <2>4. roles' \in [Members -> SUBSET Roles] /\ number' \in [Members -> Nat]
    <3>1. \/ /\ roles' = [roles EXCEPT ![calls[s].target] = calls[s].roles]
             /\ number' = [number EXCEPT ![calls[s].target] = calls[s].number]
          \/ UNCHANGED <<roles, number>>
      BY <1>10 DEF CreateCommits, memberships
    <3>2. calls[s].roles \in SUBSET Roles /\ calls[s].number \in Nat BY <2>1 DEF ManagersRow
    <3> QED BY <1>0, <3>1, <3>2 DEF TypeOK
  <2>5. status' \in [Members -> {"NONE", "INVITED", "ACTIVE", "INACTIVE"}]
    BY <1>0, <1>10 DEF CreateCommits, TypeOK, memberships
  <2>6. password' \in [Users -> Nat] BY <1>0, <1>10 DEF CreateCommits, TypeOK
  <2> QED BY <1>0, <1>10, <2>3, <2>4, <2>5, <2>6 DEF CreateCommits, TypeOK
<1>11. ASSUME NEW s \in Sessions, Invite(s) PROVE TypeOK'
  <2>1. calls[s] \in ManagersRow BY <1>0, <1>11 DEF Invite, TypeOK
  <2>2. Person(calls[s].target) \in Users BY <2>1, Persons DEF Person, ManagersRow
  <2>3. letters' \in Seq(Letter) BY <1>0, <1>11, <2>2, LettersAsked DEF Invite, TypeOK
  <2> QED BY <1>0, <1>11, <2>3 DEF Invite, TypeOK, memberships
<1> QED
  BY <1>1, <1>2, <1>3, <1>4, <1>5, <1>6, <1>7, <1>8, <1>9, <1>10, <1>11, <1>12
  DEF Next, ManagersStep

-----------------------------------------------------------------------------
(* Sessions and the reads of sign-ins and switches.                        *)

\* Nobody's account ends.
AccountsStay == \A m \in Members : Exists(m) => status'[m] # "NONE"

LEMMA UsersStay ==
  ASSUME AccountsStay, NEW u, UserExists(u)
  PROVE  UserExists(u)'
BY DEF AccountsStay, UserExists, Exists, Of

\* A session in force is somebody's who has an account.
LEMMA HoldersExist ==
  ASSUME IInv, NEW s \in Sessions, Live(s), ~session[s].raced
  PROVE  UserExists(session[s].user)
<1>1. Holder(s) \in Members /\ status[Holder(s)] = "ACTIVE" /\ Holder(s)[1] = session[s].user
  BY DEF IInv, Entitled, SessionHolds, Holder
<1> QED BY <1>1 DEF UserExists, Exists, Of

\* A step that ends no session and gives a password to a new account only.
LEMMA StatusStep ==
  ASSUME IInv, TypeOK', AccountsStay, UNCHANGED <<session, phone>>,
         \A m \in Members : status[m] = "ACTIVE" => status'[m] = "ACTIVE",
         \A u \in Users : password'[u] # password[u] => ~UserExists(u)
  PROVE  Entitled'
<1>1. ASSUME NEW s \in Sessions PROVE SessionHolds(s)'
  <2> SUFFICES ASSUME Live(s) PROVE SessionHolds(s)' BY DEF SessionHolds, Live
  <2>1. session[s] \in SessionRow BY LivesAreRows DEF IInv
  <2>2. SessionHolds(s) BY DEF IInv, Entitled
  <2>3. CASE session[s].raced BY <2>2, <2>3 DEF SessionHolds, Holder, Live
  <2>4. CASE ~session[s].raced
    <3>1. UserExists(session[s].user) BY <2>4, HoldersExist
    <3>2. password'[session[s].user] = password[session[s].user] BY <2>1, <3>1 DEF SessionRow
    <3> QED BY <2>2, <2>4, <3>2 DEF SessionHolds, Holder, Live
  <2> QED BY <2>3, <2>4
<1>2. ASSUME NEW p \in Phones PROVE ReadHolds(p)'
  <2> DEFINE c == phone[p].call
  <2> SUFFICES ASSUME c # None PROVE ReadHolds(p)' BY DEF ReadHolds
  <2>1. c \in PhoneCall /\ UserExists(c.user) BY DEF IInv, TypeOK, Entitled, ReadHolds
  <2>2. password'[c.user] = password[c.user] BY <2>1 DEF PhoneCall
  <2>3. UserExists(c.user)' BY <2>1, UsersStay
  <2>4. ReadHolds(p) BY DEF IInv, Entitled
  <2> QED BY <2>2, <2>3, <2>4 DEF ReadHolds, Live
<1> QED BY <1>1, <1>2 DEF Entitled

\* A step that ends the sessions of u in os and overtakes his calls.
LEMMA RevokingStep ==
  ASSUME IInv, TypeOK', AccountsStay, NEW u \in Users, NEW os \in SUBSET Orgs,
         session' = Revoked(u, os), phone' = Overtaken(u, os),
         \A m \in Members : status[m] = "ACTIVE" /\ status'[m] # "ACTIVE" => m[1] = u /\ m[2] \in os,
         \A v \in Users : password'[v] # password[v] => v = u /\ os = Orgs
  PROVE  Entitled'
<1>0. TypeOK BY DEF IInv
<1>1. ASSUME NEW s \in Sessions PROVE SessionHolds(s)'
  <2> SUFFICES ASSUME Live(s)' PROVE SessionHolds(s)' BY DEF SessionHolds
  <2>1. Live(s) /\ session'[s] = session[s] /\ ~(session[s].user = u /\ session[s].org \in os)
    BY DEF Revoked, Live
  <2>2. session[s] \in SessionRow BY <1>0, <2>1, LivesAreRows
  <2>3. SessionHolds(s) BY DEF IInv, Entitled
  <2>4. Holder(s)[1] = session[s].user /\ Holder(s)[2] = session[s].org BY DEF Holder
  <2>5. status[Holder(s)] = "ACTIVE" => status'[Holder(s)] = "ACTIVE"
    BY <2>1, <2>3, <2>4 DEF SessionHolds
  <2>6. password'[session[s].user] = password[session[s].user]
    <3>1. session[s].user \in Users /\ session[s].org \in Orgs BY <2>2 DEF SessionRow
    <3>2. session[s].user = u => os # Orgs BY <2>1, <3>1
    <3> QED BY <3>1, <3>2
  <2> QED BY <2>1, <2>3, <2>5, <2>6 DEF SessionHolds, Holder
<1>2. ASSUME NEW p \in Phones PROVE ReadHolds(p)'
  <2> DEFINE c == phone[p].call
             d == phone'[p].call
  <2>1. /\ phone[p] \in PhoneRow
        /\ phone'[p] = IF c # None /\ c.user = u /\ (c.org = None \/ c.org \in os)
                       THEN [phone[p] EXCEPT !.call.raced = TRUE] ELSE phone[p]
    BY <1>0 DEF Overtaken, TypeOK, PhoneRow
  <2> SUFFICES ASSUME d # None PROVE ReadHolds(p)' BY DEF ReadHolds
  <2>2. c # None BY <2>1
  <2>3. c \in PhoneCall BY <2>1, <2>2 DEF PhoneRow
  <2>4. /\ d.kind = c.kind /\ d.user = c.user /\ d.org = c.org /\ d.pw = c.pw
        /\ phone'[p].in = phone[p].in
        /\ ~d.raced => ~c.raced /\ ~(c.user = u /\ (c.org = None \/ c.org \in os))
    <3>1. CASE c.user = u /\ (c.org = None \/ c.org \in os)
      <4>1. phone'[p] = [phone[p] EXCEPT !.call = [c EXCEPT !.raced = TRUE]] BY <2>1, <2>2, <3>1
      <4>2. phone'[p].call = [c EXCEPT !.raced = TRUE] /\ phone'[p].in = phone[p].in
        BY <2>1, <4>1 DEF PhoneRow
      <4> HIDE DEF c
      <4>3. /\ [c EXCEPT !.raced = TRUE].kind = c.kind /\ [c EXCEPT !.raced = TRUE].user = c.user
            /\ [c EXCEPT !.raced = TRUE].org = c.org /\ [c EXCEPT !.raced = TRUE].pw = c.pw
            /\ [c EXCEPT !.raced = TRUE].raced = TRUE
        BY <2>3 DEF PhoneCall
      <4>4. d = [c EXCEPT !.raced = TRUE] BY <4>2
      <4> HIDE DEF d
      <4> QED BY <4>2, <4>3, <4>4
    <3>2. CASE ~(c.user = u /\ (c.org = None \/ c.org \in os)) BY <2>1, <3>2
    <3> QED BY <3>1, <3>2
  <2>5. ReadHolds(p) BY DEF IInv, Entitled
  <2>6. UserExists(c.user)'
    <3>1. PICK v : v = c.user OBVIOUS
    <3>2. UserExists(v)' BY <2>2, <2>5, <3>1, UsersStay DEF ReadHolds
    <3> QED BY <2>4, <3>1, <3>2 DEF UserExists, Of, Exists
  <2>7. ~d.raced /\ d.org # None => status'[<<d.user, d.org>>] = "ACTIVE"
    <3> SUFFICES ASSUME ~d.raced, d.org # None PROVE status'[<<d.user, d.org>>] = "ACTIVE" OBVIOUS
    <3> DEFINE m == <<c.user, c.org>>
    <3>1. m \in Members /\ status[m] = "ACTIVE" BY <2>2, <2>4, <2>5 DEF ReadHolds
    <3>2. m[1] = c.user /\ m[2] = c.org OBVIOUS
    <3> QED BY <2>4, <3>1, <3>2
  <2>8. ~d.raced /\ d.kind = "login" => d.pw = password'[d.user]
    <3> SUFFICES ASSUME ~d.raced, d.kind = "login" PROVE d.pw = password'[d.user] OBVIOUS
    <3>1. c.pw = password[c.user] BY <2>2, <2>4, <2>5 DEF ReadHolds
    <3>2. c.user = u => os # Orgs BY <2>3, <2>4 DEF PhoneCall
    <3>3. password'[c.user] = password[c.user] BY <2>3, <3>2 DEF PhoneCall
    <3> QED BY <2>4, <3>1, <3>3
  <2>9. d.kind = "switch" =>
          /\ d.org # None /\ phone'[p].in # None
          /\ Live(phone[p].in)' => session'[phone'[p].in].user = d.user
    <3> SUFFICES ASSUME d.kind = "switch"
                 PROVE  /\ d.org # None /\ phone'[p].in # None
                        /\ Live(phone[p].in)' => session'[phone'[p].in].user = d.user
      OBVIOUS
    <3>1. c.org # None /\ phone[p].in # None /\ (Live(phone[p].in) => session[phone[p].in].user = c.user)
      BY <2>2, <2>4, <2>5 DEF ReadHolds
    <3>2. phone[p].in \in Sessions BY <2>1, <3>1 DEF PhoneRow
    <3> QED BY <2>4, <3>1, <3>2 DEF Revoked, Live
  <2> QED BY <2>2, <2>4, <2>5, <2>6, <2>7, <2>8, <2>9 DEF ReadHolds
<1> QED BY <1>1, <1>2 DEF Entitled

\* A step of one phone, which stores at most a session that no other phone holds.
LEMMA PhoneStep ==
  ASSUME IInv, NEW p \in Phones, UNCHANGED <<memberships, password>>,
         \A q \in Phones \ {p} : phone'[q] = phone[q],
         \A s \in Sessions :
            session'[s] # None =>
                \/ session[s] # None /\ session'[s].user = session[s].user
                \/ \A q \in Phones : phone[q].in # s,
         \A s \in Sessions : session'[s] = session[s] \/ SessionHolds(s)',
         ReadHolds(p)'
  PROVE  Entitled'
<1>1. ASSUME NEW s \in Sessions PROVE SessionHolds(s)'
  <2>1. SessionHolds(s) BY DEF IInv, Entitled
  <2> QED BY <2>1 DEF SessionHolds, Live, Holder, memberships
<1>2. ASSUME NEW q \in Phones PROVE ReadHolds(q)'
  <2>1. CASE q = p BY <2>1
  <2>2. CASE q # p
    <3>1. phone'[q] = phone[q] /\ ReadHolds(q) BY <2>2 DEF IInv, Entitled
    <3>2. phone[q] \in PhoneRow BY DEF IInv, TypeOK, PhoneRow
    <3>3. /\ status' = status /\ password' = password
          /\ phone[q].call # None => UserExists(phone[q].call.user)'
      BY <3>1 DEF memberships, ReadHolds, UserExists, Exists, Of
    <3>4. phone[q].call # None /\ phone[q].call.kind = "switch" =>
            /\ phone[q].call.org # None /\ phone[q].in # None
            /\ session'[phone[q].in] # None => session'[phone[q].in].user = phone[q].call.user
      BY <3>1, <3>2 DEF ReadHolds, Live, PhoneRow
    <3> QED BY <3>1, <3>3, <3>4 DEF ReadHolds, Live
  <2> QED BY <2>1, <2>2
<1> QED BY <1>1, <1>2 DEF Entitled

\* What a sign-in reads is what its session has, raced or not.
LEMMA InsertHolds ==
  ASSUME IInv, NEW p \in Phones, NEW s \in NewSession, UNCHANGED <<memberships, password>>,
         phone[p].call # None, phone[p].call.kind = "login", phone[p].call.org # None,
         session' = [session EXCEPT ![s] = Row(phone[p].call.user, phone[p].call.org,
                                               phone[p].call.pw, phone[p].call.raced)]
  PROVE  /\ SessionHolds(s)' /\ s \in Sessions
         /\ \A q \in Phones : phone[q].in # s
         /\ \A t \in Sessions \ {s} : session'[t] = session[t]
<1>1. s \in Sessions /\ \A q \in Phones : phone[q].in # s BY SpareSession
<1>2. session \in [Sessions -> SessionRow \cup {None}] BY DEF IInv, TypeOK
<1>3. session'[s] = Row(phone[p].call.user, phone[p].call.org, phone[p].call.pw, phone[p].call.raced)
  BY <1>1, <1>2
<1>4. ReadHolds(p) BY DEF IInv, Entitled
<1>5. SessionHolds(s)' BY <1>3, <1>4 DEF SessionHolds, ReadHolds, Holder, Row, memberships
<1> QED BY <1>1, <1>2, <1>5

LEMMA PersonsEntitled ==
  ASSUME IInv, NEW p \in Phones, PersonsStep(p)
  PROVE  Entitled'
<1> USE NoneIsNobody, AccessAssumption
<1> DEFINE c == phone[p].call
<1>0. TypeOK /\ ReadHolds(p) BY DEF IInv, Entitled
<1>1. phone[p] \in PhoneRow /\ phone \in [Phones -> PhoneRow] BY <1>0 DEF TypeOK, PhoneRow
<1>2. session \in [Sessions -> SessionRow \cup {None}] BY <1>0 DEF TypeOK
<1>3. phone[p].call # None => phone[p].call \in PhoneCall BY <1>1 DEF PhoneRow
<1>4. UNCHANGED <<memberships, password>>
  BY DEF PersonsStep, LoginChecks, LoginResolves, LoginInserts, Logout, SwitchReads, SwitchCommits
<1>5. CASE LoginChecks(p)
  <2>1. PICK u \in Users :
          password[u] > 0 /\ phone' = [phone EXCEPT ![p].call = Call("login", u, None, password[u])]
    BY <1>5 DEF LoginChecks
  <2>2. UserExists(u) BY <2>1 DEF IInv, Owned
  <2>3. phone'[p].call = Call("login", u, None, password[u])
    BY <1>1, <2>1 DEF PhoneRow
  <2>4. UserExists(u)' BY <1>4, <2>2 DEF UserExists, Exists, Of, memberships
  <2>5. UserExists(phone[p].call.user)'
    BY <2>3, <2>4 DEF Call, UserExists, Exists, Of
  <2>6. ReadHolds(p)' BY <1>4, <2>3, <2>5 DEF ReadHolds, Call
  <2>7. UNCHANGED session /\ \A q \in Phones \ {p} : phone'[q] = phone[q]
    BY <1>1, <1>5, <2>1 DEF LoginChecks
  <2> QED BY <1>4, <2>6, <2>7, PhoneStep
<1>6. CASE LoginResolves(p)
  <2>1. UNCHANGED session /\ \A q \in Phones \ {p} : phone'[q] = phone[q]
    BY <1>1, <1>6 DEF LoginResolves
  <2>2. CASE phone' = [phone EXCEPT ![p].call = None]
    <3>1. phone'[p].call = None BY <1>1, <2>2 DEF PhoneRow
    <3> QED BY <1>4, <2>1, <3>1, PhoneStep DEF ReadHolds
  <2>3. ASSUME NEW o \in Employers(phone[p].call.user), phone' = [phone EXCEPT ![p].call.org = o]
        PROVE  Entitled'
    <3>1. /\ o \in Orgs /\ <<phone[p].call.user, o>> \in Members
          /\ status[<<phone[p].call.user, o>>] = "ACTIVE"
      BY EmployersAre
    <3>2. phone'[p] = [phone[p] EXCEPT !.call.org = o] BY <1>1, <2>3
    <3>3. phone[p].call \in PhoneCall /\ phone[p].call.kind = "login" BY <1>3, <1>6 DEF LoginResolves
    <3>4. phone'[p].call = [phone[p].call EXCEPT !.org = o] BY <1>1, <3>2 DEF PhoneRow
    <3>5. /\ phone'[p].call.user = phone[p].call.user /\ phone'[p].call.org = o
          /\ phone'[p].call.pw = phone[p].call.pw /\ phone'[p].call.kind = "login"
          /\ phone'[p].call.raced = phone[p].call.raced
      BY <3>3, <3>4 DEF PhoneCall
    <3>6. UserExists(phone[p].call.user)'
      <4>1. UserExists(phone[p].call.user) BY <1>0, <3>3 DEF ReadHolds
      <4> QED BY <1>4, <3>5, <4>1 DEF UserExists, Exists, Of, memberships
    <3>7. ReadHolds(p)' BY <1>0, <1>4, <3>1, <3>3, <3>5, <3>6 DEF ReadHolds, memberships
    <3> QED BY <1>4, <2>1, <2>3, <3>7, PhoneStep
  <2> QED BY <1>6, <2>2, <2>3 DEF LoginResolves
<1>7. CASE LoginInserts(p)
  <2>1. PICK s \in NewSession :
          /\ session' = [session EXCEPT ![s] = Row(phone[p].call.user, phone[p].call.org,
                                                   phone[p].call.pw, phone[p].call.raced)]
          /\ phone' = [phone EXCEPT ![p] = [in |-> s, call |-> None]]
    BY <1>7 DEF LoginInserts
  <2>2. /\ SessionHolds(s)' /\ \A q \in Phones : phone[q].in # s
        /\ \A t \in Sessions \ {s} : session'[t] = session[t]
    BY <1>4, <1>7, <2>1, InsertHolds DEF LoginInserts
  <2>3. phone'[p].call = None /\ \A q \in Phones \ {p} : phone'[q] = phone[q] BY <1>1, <2>1
  <2>4. ReadHolds(p)' BY <2>3 DEF ReadHolds
  <2> QED BY <1>4, <2>2, <2>3, <2>4, PhoneStep
<1>8. ASSUME NEW o \in Orgs, SwitchReads(p, o) PROVE Entitled'
  <2> DEFINE s == phone[p].in
  <2>1. s \in Sessions /\ s # None /\ Live(s) /\ status[Holder(s)] = "ACTIVE"
    BY <1>1, <1>8 DEF SwitchReads, SignedOut, Admitted, PhoneRow
  <2>2. Holder(s) \in Members /\ Holder(s)[1] = session[s].user
    BY <2>1 DEF IInv, Entitled, SessionHolds, Holder
  <2>3. <<session[s].user, o>> \in Members /\ status[<<session[s].user, o>>] = "ACTIVE"
    BY <1>8, EmployersAre DEF SwitchReads
  <2>4. phone' = [phone EXCEPT ![p].call = Call("switch", session[s].user, o, session[s].pw)]
    BY <1>8 DEF SwitchReads
  <2>5. /\ phone'[p].call = Call("switch", session[s].user, o, session[s].pw) /\ phone'[p].in = s
        /\ \A q \in Phones \ {p} : phone'[q] = phone[q]
    BY <1>1, <2>4 DEF PhoneRow
  <2>6. UNCHANGED session BY <1>8 DEF SwitchReads
  <2>7. UserExists(phone[p].call.user)'
    BY <1>4, <2>1, <2>2, <2>5 DEF Call, UserExists, Exists, Of, memberships
  <2>8. ReadHolds(p)' BY <1>4, <2>1, <2>3, <2>5, <2>6, <2>7 DEF ReadHolds, Call, Live, memberships
  <2> QED BY <1>4, <2>5, <2>6, <2>8, PhoneStep
<1>9. CASE SwitchCommits(p)
  <2>0. PICK s : s = phone[p].in OBVIOUS
  <2>1. c \in PhoneCall /\ c # None /\ c.kind = "switch" BY <1>3, <1>9 DEF SwitchCommits
  <2>2. /\ s \in Sessions /\ c.org # None /\ <<c.user, c.org>> \in Members
        /\ ~c.raced => status[<<c.user, c.org>>] = "ACTIVE"
        /\ Live(s) => session[s].user = c.user
    BY <1>0, <1>1, <2>0, <2>1 DEF ReadHolds, PhoneRow
  <2>3. phone'[p].call = None /\ \A q \in Phones \ {p} : phone'[q] = phone[q]
    BY <1>1, <1>9 DEF SwitchCommits, PhoneRow
  <2>4. ReadHolds(p)' BY <2>3 DEF ReadHolds
  <2> HIDE DEF c
  <2>5. CASE ~Live(s)
    <3>1. UNCHANGED session BY <1>9, <2>0, <2>5 DEF SwitchCommits, CanSwitch
    <3> QED BY <1>4, <2>3, <2>4, <3>1, PhoneStep
  <2>6. CASE Live(s)
    <3>1. session' = [session EXCEPT ![s] = [session[s] EXCEPT !.org = c.org, !.raced = @ \/ c.raced]]
      BY <1>9, <2>0, <2>6 DEF SwitchCommits, CanSwitch, c
    <3>2. session[s] \in SessionRow BY <1>0, <2>2, <2>6, LivesAreRows
    <3>3. session'[s] = [session[s] EXCEPT !.org = c.org, !.raced = @ \/ c.raced]
      BY <1>2, <2>2, <3>1
    <3>4. /\ session'[s].user = session[s].user /\ session'[s].org = c.org
          /\ session'[s].pw = session[s].pw
          /\ session'[s].raced <=> session[s].raced \/ c.raced
      BY <3>2, <3>3 DEF SessionRow
    <3>5. SessionHolds(s) BY <2>2 DEF IInv, Entitled
    <3>6. SessionHolds(s)'
      BY <1>4, <2>2, <2>6, <3>4, <3>5 DEF SessionHolds, Holder, Live, memberships
    <3>7. \A t \in Sessions \ {s} : session'[t] = session[t] BY <1>2, <3>1
    <3>8. \A t \in Sessions : session'[t] = session[t] \/ SessionHolds(t)' BY <3>6, <3>7
    <3>9. \A t \in Sessions : session'[t] # None =>
            \/ session[t] # None /\ session'[t].user = session[t].user
            \/ \A q \in Phones : phone[q].in # t
      BY <2>6, <3>4, <3>7 DEF Live
    <3> QED BY <1>4, <2>3, <2>4, <3>8, <3>9, PhoneStep
  <2> QED BY <2>5, <2>6
<1>10. CASE Logout(p)
  <2>1. phone'[p].call = None /\ \A q \in Phones \ {p} : phone'[q] = phone[q]
    BY <1>1, <1>10 DEF Logout
  <2>2. ReadHolds(p)' BY <2>1 DEF ReadHolds
  <2>3. \A t \in Sessions : session'[t] = session[t] \/ session'[t] = None BY <1>2, <1>10 DEF Logout
  <2>4. \A t \in Sessions : session'[t] = session[t] \/ SessionHolds(t)'
    BY <2>3 DEF SessionHolds, Live
  <2> QED BY <1>4, <2>1, <2>2, <2>3, <2>4, PhoneStep
<1> QED BY <1>5, <1>6, <1>7, <1>8, <1>9, <1>10 DEF PersonsStep

LEMMA AccountsAlways ==
  ASSUME IInv, [Next]_vars
  PROVE  AccountsStay
<1>0. TypeOK BY DEF IInv
<1>1. CASE UNCHANGED status BY <1>1 DEF AccountsStay, Exists
<1>2. ASSUME NEW i \in DOMAIN letters, Redeem(i) PROVE AccountsStay
  BY <1>0, <1>2 DEF Redeem, AccountsStay, Exists, TypeOK
<1>3. ASSUME NEW s \in Sessions, StatusCommits(s) PROVE AccountsStay
  BY <1>0, <1>3 DEF StatusCommits, AccountsStay, Exists, TypeOK
<1>4. ASSUME NEW s \in Sessions, CreateCommits(s) PROVE AccountsStay
  BY <1>0, <1>4 DEF CreateCommits, AccountsStay, Exists, TypeOK, memberships
<1>5. CASE UNCHANGED vars BY <1>1, <1>5 DEF vars, memberships
<1>6. ASSUME NEW p \in Phones, PersonsStep(p) PROVE UNCHANGED status
  BY <1>6 DEF PersonsStep, LoginChecks, LoginResolves, LoginInserts, Logout, SwitchReads,
              SwitchCommits, memberships
<1>7. ASSUME NEW u \in Comers, RequestReset(u) PROVE UNCHANGED status
  BY <1>7 DEF RequestReset, memberships
<1>8. ASSUME NEW s \in Sessions, NEW m \in Members,
             \/ PressStatus(s, m)
             \/ \E chosen \in RoleInputs, n \in TypedNumbers \cup {number[m]} : PressEdit(s, m, chosen, n)
             \/ \E chosen \in RoleInputs : ConsoleCreates(s, m, chosen) \/ PhoneRegisters(s, m, chosen)
      PROVE  UNCHANGED status
  <2>1. PICK c : MaySend(c) /\ Press(s, c) BY <1>8, PressesAreLawful
  <2> QED BY <2>1 DEF Press, memberships
<1>9. ASSUME NEW s \in Sessions, EditReads(s) \/ EditCommits(s) \/ CreateReads(s) \/ Invite(s)
      PROVE  UNCHANGED status
  BY <1>9 DEF EditReads, EditCommits, CreateReads, Invite, memberships
<1>10. CallLost => UNCHANGED status BY DEF CallLost, memberships
<1> QED
  BY <1>1, <1>2, <1>3, <1>4, <1>5, <1>6, <1>7, <1>8, <1>9, <1>10 DEF Next, ManagersStep

LEMMA CallLostEntitled ==
  ASSUME IInv, CallLost
  PROVE  Entitled'
<1>0. TypeOK BY DEF IInv
<1>1. UNCHANGED <<memberships, password>> BY DEF CallLost
<1>2. phone \in [Phones -> PhoneRow] BY <1>0 DEF TypeOK, PhoneRow
<1>3. CASE UNCHANGED <<session, phone>>
  <2>1. ASSUME NEW s \in Sessions PROVE SessionHolds(s)'
    <3>1. SessionHolds(s) BY DEF IInv, Entitled
    <3> QED BY <1>1, <1>3, <3>1 DEF SessionHolds, Live, Holder, memberships
  <2>2. ASSUME NEW p \in Phones PROVE ReadHolds(p)'
    <3>1. ReadHolds(p) BY DEF IInv, Entitled
    <3> QED BY <1>1, <1>3, <3>1 DEF ReadHolds, Live, UserExists, Exists, Of, memberships
  <2> QED BY <2>1, <2>2 DEF Entitled
<1>4. ASSUME NEW p \in Phones, phone' = [phone EXCEPT ![p].call = None],
             \/ UNCHANGED session
             \/ \E s \in NewSession :
                  /\ phone[p].call # None /\ phone[p].call.kind = "login" /\ phone[p].call.org # None
                  /\ session' = [session EXCEPT ![s] = Row(phone[p].call.user, phone[p].call.org,
                                                           phone[p].call.pw, phone[p].call.raced)]
      PROVE  Entitled'
  <2>1. phone'[p].call = None /\ \A q \in Phones \ {p} : phone'[q] = phone[q]
    BY <1>2, <1>4 DEF PhoneRow
  <2>2. ReadHolds(p)' BY <2>1 DEF ReadHolds
  <2>3. CASE UNCHANGED session BY <1>1, <2>1, <2>2, <2>3, PhoneStep
  <2>4. CASE ~UNCHANGED session
    <3>1. PICK s \in NewSession :
            /\ phone[p].call # None /\ phone[p].call.kind = "login" /\ phone[p].call.org # None
            /\ session' = [session EXCEPT ![s] = Row(phone[p].call.user, phone[p].call.org,
                                                     phone[p].call.pw, phone[p].call.raced)]
      BY <1>4, <2>4
    <3>2. /\ SessionHolds(s)' /\ \A q \in Phones : phone[q].in # s
          /\ \A t \in Sessions \ {s} : session'[t] = session[t]
      BY <1>1, <3>1, InsertHolds
    <3> QED BY <1>1, <2>1, <2>2, <3>2, PhoneStep
  <2> QED BY <2>3, <2>4
<1> QED BY <1>3, <1>4 DEF CallLost

LEMMA EntitledNext == IInv /\ [Next]_vars => Entitled'
<1> SUFFICES ASSUME IInv, [Next]_vars PROVE Entitled' OBVIOUS
<1>0. TypeOK /\ TypeOK' /\ AccountsStay BY TypeNext, AccountsAlways DEF IInv
<1>1. CASE UNCHANGED <<session, phone, status, password>> BY <1>0, <1>1, StatusStep
<1>2. ASSUME NEW p \in Phones, PersonsStep(p) PROVE Entitled' BY <1>2, PersonsEntitled
<1>3. ASSUME NEW i \in DOMAIN letters, Redeem(i) PROVE Entitled'
  <2> DEFINE u == letters[i].user
  <2>1. u \in Users
    <3>1. letters[i] \in Letter BY <1>0, LenProperties, ElementOfSeq DEF TypeOK
    <3> QED BY <3>1 DEF Letter
  <2>2. session' = Revoked(u, Orgs) /\ phone' = Overtaken(u, Orgs) BY <1>3 DEF Redeem
  <2>3. \A m \in Members : status[m] = "ACTIVE" => status'[m] = "ACTIVE" BY <1>3 DEF Redeem
  <2>4. \A v \in Users : password'[v] # password[v] => v = u BY <1>0, <1>3 DEF Redeem, TypeOK
  <2> HIDE DEF u
  <2> QED BY <1>0, <2>1, <2>2, <2>3, <2>4, RevokingStep
<1>4. ASSUME NEW s \in Sessions, StatusCommits(s) PROVE Entitled'
  <2> DEFINE t == calls[s].target
             ends == calls[s].kind = "deactivate" /\ status[t] # "INACTIVE"
  <2>1. calls[s] \in ManagersRow /\ t \in Members /\ t[1] \in Users /\ {t[2]} \subseteq Orgs
    BY <1>0, <1>4, Persons DEF StatusCommits, TypeOK, ManagersRow
  <2>2. status' = [status EXCEPT ![t] = IF calls[s].kind = "activate" THEN "ACTIVE" ELSE "INACTIVE"]
    BY <1>4 DEF StatusCommits
  <2>3. UNCHANGED password BY <1>4 DEF StatusCommits
  <2>4. CASE ends
    <3>1. session' = Revoked(t[1], {t[2]}) /\ phone' = Overtaken(t[1], {t[2]})
      BY <1>4, <2>4 DEF StatusCommits, Person
    <3>2. \A m \in Members : status[m] = "ACTIVE" /\ status'[m] # "ACTIVE" =>
                                m[1] = t[1] /\ m[2] \in {t[2]}
      BY <1>0, <2>2 DEF TypeOK
    <3> HIDE DEF t
    <3> QED BY <1>0, <2>1, <2>3, <3>1, <3>2, RevokingStep
  <2>5. CASE ~ends
    <3>1. UNCHANGED <<session, phone>> BY <1>4, <2>5 DEF StatusCommits
    <3>2. calls[s].kind \in {"activate", "deactivate"} BY <1>4 DEF StatusCommits
    <3>3. \A m \in Members : status[m] = "ACTIVE" => status'[m] = "ACTIVE"
      BY <1>0, <2>2, <2>5, <3>2 DEF TypeOK
    <3> QED BY <1>0, <2>3, <3>1, <3>3, StatusStep
  <2> QED BY <2>4, <2>5
<1>5. ASSUME NEW s \in Sessions, EditCommits(s) PROVE Entitled'
  <2> DEFINE t == calls[s].target
  <2>1. calls[s] \in ManagersRow /\ t \in Members /\ t[1] \in Users /\ {t[2]} \subseteq Orgs
    BY <1>0, <1>5, Persons DEF EditCommits, TypeOK, ManagersRow
  <2>2. \/ session' = Revoked(t[1], {t[2]}) /\ phone' = Overtaken(t[1], {t[2]})
        \/ UNCHANGED <<session, phone>>
    BY <1>5 DEF EditCommits, Person
  <2>3. UNCHANGED <<status, password>> BY <1>5 DEF EditCommits
  <2> HIDE DEF t
  <2> QED BY <1>0, <1>1, <2>1, <2>2, <2>3, RevokingStep
<1>6. ASSUME NEW s \in Sessions, CreateCommits(s) PROVE Entitled'
  <2> DEFINE c == calls[s]
  <2>1. UNCHANGED <<session, phone>> BY <1>6 DEF CreateCommits
  <2>2. CASE CreateFits(c)
    <3>1. status[c.target] = "NONE" BY <2>2 DEF CreateFits, Exists
    <3>2. \A m \in Members : status[m] = "ACTIVE" => status'[m] = "ACTIVE"
      BY <1>0, <1>6, <2>2, <3>1 DEF CreateCommits, TypeOK
    <3>3. \A u \in Users : password'[u] # password[u] => ~UserExists(u)
      BY <1>0, <1>6, <2>2 DEF CreateCommits, CreateFits, TypeOK
    <3> QED BY <1>0, <2>1, <3>2, <3>3, StatusStep
  <2>3. CASE ~CreateFits(c)
    <3>1. UNCHANGED <<status, password>> BY <1>6, <2>3 DEF CreateCommits, memberships
    <3> QED BY <1>1, <2>1, <3>1
  <2> QED BY <2>2, <2>3
<1>7. CASE CallLost BY <1>7, CallLostEntitled
<1>8. CASE UNCHANGED vars BY <1>1, <1>8 DEF vars, memberships
<1>9. ASSUME NEW u \in Comers, RequestReset(u) PROVE Entitled'
  BY <1>1, <1>9 DEF RequestReset, memberships
<1>10. ASSUME NEW s \in Sessions, NEW m \in Members,
              \/ PressStatus(s, m)
              \/ \E chosen \in RoleInputs, n \in TypedNumbers \cup {number[m]} : PressEdit(s, m, chosen, n)
              \/ \E chosen \in RoleInputs : ConsoleCreates(s, m, chosen) \/ PhoneRegisters(s, m, chosen)
       PROVE  Entitled'
  <2>1. PICK c : MaySend(c) /\ Press(s, c) BY <1>10, PressesAreLawful
  <2> QED BY <1>1, <2>1 DEF Press, memberships
<1>11. ASSUME NEW s \in Sessions, EditReads(s) \/ CreateReads(s) \/ Invite(s) PROVE Entitled'
  BY <1>1, <1>11 DEF EditReads, CreateReads, Invite, memberships
<1> QED
  BY <1>2, <1>3, <1>4, <1>5, <1>6, <1>7, <1>8, <1>9, <1>10, <1>11 DEF Next, ManagersStep

-----------------------------------------------------------------------------
(* Accounts and letters.                                                   *)

LEMMA LetterIs ==
  ASSUME TypeOK, NEW i \in DOMAIN letters
  PROVE  letters[i] \in Letter /\ letters[i].user \in Users
<1>1. letters[i] \in Letter BY LenProperties, ElementOfSeq DEF TypeOK
<1> QED BY <1>1 DEF Letter

\* Steps that write no password, and no letter but to somebody who has an account.
LEMMA OwnedStep ==
  ASSUME IInv, AccountsStay,
         \A u \in Users : password'[u] # password[u] => UserExists(u)',
         \A i \in DOMAIN letters' :
            \/ i \in DOMAIN letters /\ letters'[i].user = letters[i].user
            \/ UserExists(letters'[i].user),
         \A s \in Sessions :
            calls'[s] # None /\ calls'[s].kind = "letter" =>
                \/ /\ calls[s] # None /\ calls[s].kind = "letter"
                   /\ calls'[s].target = calls[s].target
                \/ calls'[s].target \in Members /\ status'[calls'[s].target] # "NONE"
  PROVE  Owned'
<1>0. Owned BY DEF IInv
<1>1. ASSUME NEW u \in Users, password'[u] > 0 PROVE UserExists(u)'
  <2>1. CASE password'[u] = password[u] BY <1>0, <1>1, <2>1, UsersStay DEF Owned
  <2> QED BY <2>1
<1>2. ASSUME NEW i \in DOMAIN letters' PROVE UserExists(letters[i].user)'
  <2>1. PICK v : v = letters'[i].user OBVIOUS
  <2>2. UserExists(v) BY <1>0, <1>2, <2>1 DEF Owned
  <2>3. UserExists(v)' BY <2>2, UsersStay
  <2> QED BY <2>1, <2>3 DEF UserExists, Exists, Of
<1>3. ASSUME NEW s \in Sessions, calls'[s] # None, calls'[s].kind = "letter"
      PROVE  UserExists(Person(calls[s].target))'
  <2>1. CASE calls[s] # None /\ calls[s].kind = "letter" /\ calls'[s].target = calls[s].target
    <3>1. PICK v : v = Person(calls[s].target) OBVIOUS
    <3>2. UserExists(v) BY <1>0, <1>3, <2>1, <3>1 DEF Owned
    <3>3. UserExists(v)' BY <3>2, UsersStay
    <3> QED BY <2>1, <3>1, <3>3 DEF UserExists, Exists, Of, Person
  <2>2. CASE calls'[s].target \in Members /\ status'[calls'[s].target] # "NONE"
    BY <2>2 DEF UserExists, Exists, Of, Person
  <2> QED BY <1>3, <2>1, <2>2
<1> QED BY <1>1, <1>2, <1>3 DEF Owned

LEMMA LettersNext == IInv /\ [Next]_vars => LastLetterOnly'
<1> SUFFICES ASSUME IInv, [Next]_vars PROVE LastLetterOnly' OBVIOUS
<1> USE AccessAssumption
<1>0. TypeOK /\ LastLetterOnly BY DEF IInv
<1>1. CASE UNCHANGED letters BY <1>0, <1>1 DEF LastLetterOnly
<1>2. ASSUME NEW u \in Users, letters' = LettersAfterRequest(u) PROVE LastLetterOnly'
  <2>1. /\ DOMAIN letters' = 1..(Len(letters) + 1) /\ DOMAIN letters = 1..Len(letters)
        /\ Len(letters) \in Nat
        /\ \A i \in DOMAIN letters :
             /\ letters'[i].user = letters[i].user
             /\ letters'[i].usable <=> letters[i].usable /\ letters[i].user # u
        /\ letters'[Len(letters) + 1].user = u
    <3>1. letters \in Seq(Letter) BY <1>0 DEF TypeOK
    <3> DEFINE new == LettersAfterRequest(u)
    <3>2. /\ DOMAIN new = 1..(Len(letters) + 1) /\ DOMAIN letters = 1..Len(letters)
          /\ Len(letters) \in Nat
          /\ \A i \in DOMAIN letters :
               /\ new[i].user = letters[i].user
               /\ new[i].usable <=> letters[i].usable /\ letters[i].user # u
          /\ new[Len(letters) + 1].user = u
      BY <3>1, LettersAsked
    <3>3. letters' = new BY <1>2
    <3> HIDE DEF new
    <3> QED BY <3>2, <3>3, Zenon
  <2>2. SUFFICES ASSUME NEW i \in DOMAIN letters', NEW j \in DOMAIN letters', i < j,
                        letters'[i].user = letters'[j].user
                 PROVE  ~letters'[i].usable
    BY DEF LastLetterOnly
  <2>3. i \in DOMAIN letters BY <2>1, <2>2
  <2>4. CASE j \in DOMAIN letters BY <1>0, <2>1, <2>2, <2>3, <2>4 DEF LastLetterOnly
  <2>5. CASE j = Len(letters) + 1 BY <2>1, <2>2, <2>3, <2>5
  <2> QED BY <2>1, <2>4, <2>5
<1>3. ASSUME NEW i \in DOMAIN letters, Redeem(i) PROVE LastLetterOnly'
  <2>1. PICK u \in Users : letters' = Spent(u) BY <1>0, <1>3, LetterIs DEF Redeem
  <2>2. /\ DOMAIN letters' = DOMAIN letters
        /\ \A k \in DOMAIN letters :
             /\ letters'[k].user = letters[k].user
             /\ letters'[k].usable <=> letters[k].usable /\ letters[k].user # u
    BY <1>0, <2>1, LettersSpent DEF TypeOK
  <2> QED BY <1>0, <2>2 DEF LastLetterOnly
<1>4. ASSUME NEW s \in Sessions, Invite(s) PROVE LastLetterOnly'
  <2>1. calls[s] \in ManagersRow BY <1>0, <1>4 DEF Invite, TypeOK
  <2>2. Person(calls[s].target) \in Users BY <2>1, Persons DEF Person, ManagersRow
  <2> QED BY <1>2, <1>4, <2>2 DEF Invite
<1>5. ASSUME NEW s \in Sessions, NEW m \in Members,
             \/ PressStatus(s, m)
             \/ \E chosen \in RoleInputs, n \in TypedNumbers \cup {number[m]} : PressEdit(s, m, chosen, n)
             \/ \E chosen \in RoleInputs : ConsoleCreates(s, m, chosen) \/ PhoneRegisters(s, m, chosen)
      PROVE  UNCHANGED letters
  <2>1. PICK c : MaySend(c) /\ Press(s, c) BY <1>5, PressesAreLawful
  <2> QED BY <2>1 DEF Press
<1>6. ASSUME NEW p \in Phones, PersonsStep(p) PROVE UNCHANGED letters
  BY <1>6 DEF PersonsStep, LoginChecks, LoginResolves, LoginInserts, Logout, SwitchReads, SwitchCommits
<1>7. ASSUME NEW u \in Comers, RequestReset(u) PROVE LastLetterOnly'
  BY <1>2, <1>7 DEF RequestReset
<1>8. ASSUME NEW s \in Sessions,
             StatusCommits(s) \/ EditReads(s) \/ EditCommits(s) \/ CreateReads(s) \/ CreateCommits(s)
      PROVE  UNCHANGED letters
  BY <1>8 DEF StatusCommits, EditReads, EditCommits, CreateReads, CreateCommits
<1>9. CallLost \/ UNCHANGED vars => UNCHANGED letters BY DEF CallLost, vars
<1> QED
  BY <1>1, <1>3, <1>4, <1>5, <1>6, <1>7, <1>8, <1>9 DEF Next, ManagersStep

\* What marking the calls of an organisation keeps.
LEMMA MovedFields ==
  ASSUME TypeOK, NEW m, NEW s \in Sessions, calls[s] # None
  PROVE  LET c == Moved(m)[s] IN
         /\ c # None /\ c.kind = calls[s].kind /\ c.actor = calls[s].actor
         /\ c.target = calls[s].target /\ c.number = calls[s].number /\ c.roles = calls[s].roles
         /\ calls[s].moved => c.moved
         /\ calls[s].number > 0 /\ calls[s].target[2] = m[2] => c.moved
<1>1. calls[s] \in ManagersRow BY DEF TypeOK
<1>2. CASE calls[s].number > 0 /\ calls[s].target[2] = m[2]
  <2>1. Moved(m)[s] = [calls[s] EXCEPT !.moved = TRUE] BY <1>2 DEF Moved
  <2>2. [calls[s] EXCEPT !.moved = TRUE] \in ManagersRow BY <1>1 DEF ManagersRow
  <2> QED BY <1>1, <2>1, <2>2, NoneIsNobody DEF ManagersRow
<1>3. CASE ~(calls[s].number > 0 /\ calls[s].target[2] = m[2]) BY <1>3 DEF Moved
<1> QED BY <1>2, <1>3

-----------------------------------------------------------------------------
(* The calls of managers.                                                  *)

\* A call is a new one, or another step of the one it was.
SameCall(t) ==
    LET c == calls[t]
        d == calls'[t]
    IN
    /\ c # None /\ d.actor = c.actor /\ d.target = c.target /\ d.roles = c.roles
    /\ \/ d.kind = c.kind
       \/ d.kind = "letter" /\ status'[c.target] # "NONE"
       \/ /\ c.kind = "edit" /\ d.kind = "write"
          /\ ~Locked(c.target) /\ MayAssign(c) /\ UNCHANGED roles
          /\ \A u \in Sessions \ {t} : calls'[u] = calls[u]

LEMMA CallsNext ==
  ASSUME IInv, [Next]_vars, NEW t \in Sessions, calls'[t] # None
  PROVE  MaySend(calls'[t]) \/ SameCall(t)
<1> USE NoneIsNobody
<1>0. TypeOK BY DEF IInv
<1> DEFINE Goal == MaySend(calls'[t]) \/ SameCall(t)
<1>1. CASE calls'[t] = calls[t] BY <1>1 DEF SameCall
<1>2. ASSUME NEW s \in Sessions, NEW m \in Members,
             \/ PressStatus(s, m)
             \/ \E chosen \in RoleInputs, n \in TypedNumbers \cup {number[m]} : PressEdit(s, m, chosen, n)
             \/ \E chosen \in RoleInputs : ConsoleCreates(s, m, chosen) \/ PhoneRegisters(s, m, chosen)
      PROVE  Goal
  <2>1. PICK c : MaySend(c) /\ Press(s, c) BY <1>2, PressesAreLawful
  <2>2. calls' = [calls EXCEPT ![s] = c] BY <2>1 DEF Press
  <2>3. calls'[t] \in {c, calls[t]} BY <1>0, <2>2 DEF TypeOK
  <2> QED BY <1>1, <2>1, <2>3
<1>3. ASSUME NEW s \in Sessions, NEW m,
             \/ calls' = [calls EXCEPT ![s] = None]
             \/ calls' = [Moved(m) EXCEPT ![s] = None]
      PROVE  Goal
  <2>1. calls'[t] = calls[t] \/ calls'[t] = Moved(m)[t] BY <1>0, <1>3, MovedType DEF TypeOK
  <2>2. CASE calls'[t] = Moved(m)[t] /\ calls[t] # None
    BY <1>0, <2>2, MovedFields DEF SameCall
  <2>3. CASE calls[t] = None
    <3>1. Moved(m)[t] = None BY <2>3 DEF Moved
    <3> QED BY <1>1, <2>1, <2>3, <3>1
  <2> QED BY <1>1, <2>1, <2>2, <2>3
<1>4. ASSUME NEW s \in Sessions, StatusCommits(s) \/ EditCommits(s) \/ Invite(s) PROVE Goal
  BY <1>3, <1>4 DEF StatusCommits, EditCommits, Invite
<1>12. ASSUME NEW s \in Sessions, EditReads(s) PROVE Goal
  <2>1. calls[s] # None /\ calls[s] \in ManagersRow BY <1>0, <1>12 DEF EditReads, TypeOK
  <2>2. CASE t = s
    <3>1. PICK d : d = [calls[s] EXCEPT !.kind = "write"] OBVIOUS
    <3>2. calls' = [calls EXCEPT ![s] = IF MayAssign(calls[s]) THEN d ELSE None]
      BY <1>12, <3>1 DEF EditReads
    <3>3. MayAssign(calls[s]) /\ calls'[s] = d BY <1>0, <2>2, <3>2 DEF TypeOK
    <3>4. \A u \in Sessions \ {t} : calls'[u] = calls[u] BY <1>0, <2>2, <3>2 DEF TypeOK
    <3>5. d.actor = calls[s].actor /\ d.target = calls[s].target /\ d.roles = calls[s].roles
          /\ d.kind = "write"
      BY <2>1, <3>1 DEF ManagersRow
    <3>6. calls[s].kind = "edit" /\ ~Locked(calls[s].target) /\ UNCHANGED roles
      BY <1>12 DEF EditReads, memberships
    <3> QED BY <2>1, <2>2, <3>3, <3>4, <3>5, <3>6 DEF SameCall
  <2>3. CASE t # s BY <1>0, <1>1, <1>12, <2>3 DEF EditReads, TypeOK
  <2> QED BY <2>2, <2>3
<1>5. ASSUME NEW s \in Sessions, CreateReads(s) PROVE Goal
  <2>1. calls[s] # None /\ calls[s] \in ManagersRow BY <1>0, <1>5 DEF CreateReads, Creates, TypeOK
  <2>2. CASE t = s
    <3>1. PICK n, k : calls' = [calls EXCEPT ![s] = IF MayCreate(calls[s])
                                    THEN [calls[s] EXCEPT !.number = n, !.known = k] ELSE None]
      BY <1>5 DEF CreateReads
    <3>2. calls'[s] = [calls[s] EXCEPT !.number = n, !.known = k]
      BY <1>0, <2>2, <3>1 DEF TypeOK
    <3> QED BY <2>1, <2>2, <3>2 DEF SameCall, ManagersRow
  <2>3. CASE t # s BY <1>0, <1>1, <1>5, <2>3 DEF CreateReads, TypeOK
  <2> QED BY <2>2, <2>3
<1>6. ASSUME NEW s \in Sessions, CreateCommits(s) PROVE Goal
  <2>1. calls[s] # None /\ calls[s] \in ManagersRow BY <1>0, <1>6 DEF CreateCommits, Creates, TypeOK
  <2> DEFINE m == calls[s].target
             d == [calls[s] EXCEPT !.kind = "letter"]
  <2>2. \/ calls' = [calls EXCEPT ![s] = None] \/ calls' = [Moved(m) EXCEPT ![s] = None]
        \/ calls' = [Moved(m) EXCEPT ![s] = d]
    BY <1>6 DEF CreateCommits
  <2>3. CASE calls' = [Moved(m) EXCEPT ![s] = d]
    <3>1. /\ d.actor = calls[s].actor /\ d.target = calls[s].target
          /\ d.roles = calls[s].roles /\ d.kind = "letter"
      BY <2>1 DEF ManagersRow
    <3>4. status'[m] # "NONE"
      <4>1. m \in Members BY <2>1 DEF ManagersRow
      <4>2. CASE CreateFits(calls[s]) BY <1>0, <1>6, <4>1, <4>2 DEF CreateCommits, TypeOK
      <4>3. CASE ~CreateFits(calls[s])
        <5>1. calls' = [calls EXCEPT ![s] = None] BY <1>6, <4>3 DEF CreateCommits
        <5>2. calls'[s] = None BY <1>0, <5>1 DEF TypeOK
        <5>3. calls'[s] = d BY <1>0, <2>3, MovedType
        <5>4. d \in ManagersRow BY <2>1 DEF ManagersRow, CallKinds
        <5> QED BY <5>2, <5>3, <5>4
      <4> QED BY <4>2, <4>3
    <3>5. m = calls[s].target OBVIOUS
    <3> HIDE DEF m, d
    <3>2. CASE t = s
      <4>1. calls'[s] = d BY <1>0, <2>3, MovedType
      <4> QED BY <2>1, <3>1, <3>2, <3>4, <3>5, <4>1 DEF SameCall
    <3>3. CASE t # s
      <4>1. calls'[t] = Moved(m)[t] BY <1>0, <2>3, <3>3, MovedType
      <4>2. calls[t] # None BY <4>1 DEF Moved
      <4> QED BY <1>0, <4>1, <4>2, MovedFields DEF SameCall
    <3> QED BY <3>2, <3>3
  <2> HIDE DEF m, d
  <2> QED BY <1>3, <2>2, <2>3
<1>7. ASSUME NEW p \in Phones, PersonsStep(p) PROVE UNCHANGED calls
  BY <1>7 DEF PersonsStep, LoginChecks, LoginResolves, LoginInserts, Logout, SwitchReads, SwitchCommits
<1>8. ASSUME NEW u \in Comers, RequestReset(u) PROVE UNCHANGED calls BY <1>8 DEF RequestReset
<1>9. ASSUME NEW i \in DOMAIN letters, Redeem(i) PROVE UNCHANGED calls BY <1>9 DEF Redeem
<1>10. CASE CallLost BY <1>1, <1>3, <1>10 DEF CallLost
<1>11. UNCHANGED vars => UNCHANGED calls BY DEF vars
<1> QED
  BY <1>1, <1>2, <1>4, <1>5, <1>6, <1>7, <1>8, <1>9, <1>10, <1>11, <1>12 DEF Next, ManagersStep

LEMMA ActsNext == IInv /\ [Next]_vars => ActsOnOthers'
<1> SUFFICES ASSUME IInv, [Next]_vars, NEW t \in Sessions, calls'[t] # None
             PROVE  /\ calls'[t].actor[2] = calls'[t].target[2]
                    /\ calls'[t].kind = "deactivate" => calls'[t].actor # calls'[t].target
  BY DEF ActsOnOthers
<1>1. CASE MaySend(calls'[t]) BY <1>1 DEF MaySend
<1>2. CASE SameCall(t) BY <1>2 DEF SameCall, IInv, ActsOnOthers
<1> QED BY <1>1, <1>2, CallsNext

LEMMA OwnedNext == IInv /\ [Next]_vars => Owned'
<1> SUFFICES ASSUME IInv, [Next]_vars PROVE Owned' OBVIOUS
<1> USE AccessAssumption, NoneIsNobody
<1>0. TypeOK /\ Owned /\ AccountsStay BY AccountsAlways DEF IInv
<1> DEFINE Passwords == \A u \in Users : password'[u] # password[u] => UserExists(u)'
           Letters == \A i \in DOMAIN letters' :
                        \/ i \in DOMAIN letters /\ letters'[i].user = letters[i].user
                        \/ UserExists(letters'[i].user)
           Invitations == \A s \in Sessions :
                            calls'[s] # None /\ calls'[s].kind = "letter" =>
                                \/ /\ calls[s] # None /\ calls[s].kind = "letter"
                                   /\ calls'[s].target = calls[s].target
                                \/ calls'[s].target \in Members /\ status'[calls'[s].target] # "NONE"
<1>1. Passwords
  <2>1. ASSUME NEW i \in DOMAIN letters, Redeem(i) PROVE Passwords
    <3>1. letters[i].user \in Users /\ UserExists(letters[i].user)
      BY <1>0, LetterIs DEF Owned
    <3>2. \A u \in Users : password'[u] # password[u] => u = letters[i].user
      BY <1>0, <2>1 DEF Redeem, TypeOK
    <3> QED BY <1>0, <3>1, <3>2, UsersStay
  <2>2. ASSUME NEW s \in Sessions, CreateCommits(s) PROVE Passwords
    <3>1. calls[s] \in ManagersRow BY <1>0, <2>2 DEF CreateCommits, Creates, TypeOK
    <3>2. PICK m \in Members : m = calls[s].target BY <3>1 DEF ManagersRow
    <3>3. CASE UNCHANGED password BY <3>3
    <3>4. CASE password' # password
      <4>1. CreateFits(calls[s]) BY <2>2, <3>4 DEF CreateCommits
      <4>2. status'[m] # "NONE" BY <1>0, <2>2, <3>2, <4>1 DEF CreateCommits, TypeOK
      <4>3. UserExists(m[1])' BY <4>2 DEF UserExists, Exists, Of
      <4>4. \A u \in Users : password'[u] # password[u] => u = m[1]
        BY <1>0, <2>2, <3>2 DEF CreateCommits, TypeOK, Person
      <4> QED BY <4>3, <4>4
    <3> QED BY <3>3, <3>4
  <2>3. ASSUME NEW s \in Sessions, NEW m \in Members,
               \/ PressStatus(s, m)
               \/ \E chosen \in RoleInputs, n \in TypedNumbers \cup {number[m]} : PressEdit(s, m, chosen, n)
               \/ \E chosen \in RoleInputs : ConsoleCreates(s, m, chosen) \/ PhoneRegisters(s, m, chosen)
        PROVE  UNCHANGED password
    <3>1. PICK c : MaySend(c) /\ Press(s, c) BY <2>3, PressesAreLawful
    <3> QED BY <3>1 DEF Press
  <2>4. ASSUME NEW p \in Phones, PersonsStep(p) PROVE UNCHANGED password
    BY <2>4 DEF PersonsStep, LoginChecks, LoginResolves, LoginInserts, Logout, SwitchReads, SwitchCommits
  <2>5. ASSUME NEW u \in Comers, RequestReset(u) PROVE UNCHANGED password BY <2>5 DEF RequestReset
  <2>6. ASSUME NEW s \in Sessions,
               StatusCommits(s) \/ EditReads(s) \/ EditCommits(s) \/ CreateReads(s) \/ Invite(s)
        PROVE  UNCHANGED password
    BY <2>6 DEF StatusCommits, EditReads, EditCommits, CreateReads, Invite
  <2>7. CallLost \/ UNCHANGED vars => UNCHANGED password BY DEF CallLost, vars
  <2>8. UNCHANGED password => Passwords OBVIOUS
  <2> HIDE DEF Passwords
  <2> QED BY <2>1, <2>2, <2>3, <2>4, <2>5, <2>6, <2>7, <2>8 DEF Next, ManagersStep
<1>2. Letters
  <2>1. ASSUME NEW u \in Users, UserExists(u), letters' = LettersAfterRequest(u) PROVE Letters
    <3> DEFINE new == LettersAfterRequest(u)
    <3>1. letters \in Seq(Letter) BY <1>0 DEF TypeOK
    <3>2. /\ DOMAIN new = 1..(Len(letters) + 1) /\ DOMAIN letters = 1..Len(letters)
          /\ Len(letters) \in Nat
          /\ \A i \in DOMAIN letters : new[i].user = letters[i].user
          /\ new[Len(letters) + 1].user = u
      BY <3>1, LettersAsked
    <3> HIDE DEF new
    <3>3. \A i \in DOMAIN new : i \in DOMAIN letters \/ i = Len(letters) + 1 BY <3>2
    <3>4. letters' = new BY <2>1 DEF new
    <3> QED BY <2>1, <3>2, <3>3, <3>4
  <2>2. ASSUME NEW i \in DOMAIN letters, Redeem(i) PROVE Letters
    <3>1. PICK u \in Users : letters' = Spent(u) BY <1>0, <2>2, LetterIs DEF Redeem
    <3>2. letters \in Seq(Letter) BY <1>0 DEF TypeOK
    <3>3. DOMAIN Spent(u) = DOMAIN letters /\ \A k \in DOMAIN letters : Spent(u)[k].user = letters[k].user
      BY <3>2, LettersSpent
    <3> QED BY <3>1, <3>3
  <2>3. ASSUME NEW s \in Sessions, Invite(s) PROVE Letters
    <3>1. calls[s] \in ManagersRow BY <1>0, <2>3 DEF Invite, TypeOK
    <3>2. Person(calls[s].target) \in Users BY <3>1, Persons DEF Person, ManagersRow
    <3>3. UserExists(Person(calls[s].target)) BY <1>0, <2>3 DEF Invite, Owned
    <3> QED BY <2>1, <2>3, <3>2, <3>3 DEF Invite
  <2>4. ASSUME NEW u \in Comers, RequestReset(u) PROVE Letters
    BY <2>1, <2>4 DEF RequestReset
  <2>5. ASSUME NEW s \in Sessions, NEW m \in Members,
               \/ PressStatus(s, m)
               \/ \E chosen \in RoleInputs, n \in TypedNumbers \cup {number[m]} : PressEdit(s, m, chosen, n)
               \/ \E chosen \in RoleInputs : ConsoleCreates(s, m, chosen) \/ PhoneRegisters(s, m, chosen)
        PROVE  UNCHANGED letters
    <3>1. PICK c : MaySend(c) /\ Press(s, c) BY <2>5, PressesAreLawful
    <3> QED BY <3>1 DEF Press
  <2>6. ASSUME NEW p \in Phones, PersonsStep(p) PROVE UNCHANGED letters
    BY <2>6 DEF PersonsStep, LoginChecks, LoginResolves, LoginInserts, Logout, SwitchReads, SwitchCommits
  <2>7. ASSUME NEW s \in Sessions,
               StatusCommits(s) \/ EditReads(s) \/ EditCommits(s) \/ CreateReads(s) \/ CreateCommits(s)
        PROVE  UNCHANGED letters
    BY <2>7 DEF StatusCommits, EditReads, EditCommits, CreateReads, CreateCommits
  <2>8. CallLost \/ UNCHANGED vars => UNCHANGED letters BY DEF CallLost, vars
  <2>9. UNCHANGED letters => Letters OBVIOUS
  <2> HIDE DEF Letters
  <2> QED BY <2>2, <2>3, <2>4, <2>5, <2>6, <2>7, <2>8, <2>9 DEF Next, ManagersStep
<1>3. Invitations
  <2> SUFFICES ASSUME NEW s \in Sessions, calls'[s] # None, calls'[s].kind = "letter"
               PROVE  \/ /\ calls[s] # None /\ calls[s].kind = "letter"
                         /\ calls'[s].target = calls[s].target
                      \/ calls'[s].target \in Members /\ status'[calls'[s].target] # "NONE"
    OBVIOUS
  <2>1. SameCall(s) BY CallsNext DEF MaySend
  <2>2. calls[s] \in ManagersRow BY <1>0, <2>1 DEF SameCall, TypeOK
  <2> QED BY <2>1, <2>2 DEF SameCall, ManagersRow
<1> HIDE DEF Passwords, Letters, Invitations
<1> QED BY <1>0, <1>1, <1>2, <1>3, OwnedStep DEF Passwords, Letters, Invitations

-----------------------------------------------------------------------------
(* Edits, and the rows that they hold.                                     *)

\* The roles of a row that an edit holds are changed by that edit only.
LEMMA HeldRolesStay ==
  ASSUME IInv, [Next]_vars, NEW t \in Sessions,
         calls[t] # None, calls[t].kind = "write", calls'[t] # None
  PROVE  roles'[calls[t].target] = roles[calls[t].target]
<1> USE NoneIsNobody
<1>0. TypeOK /\ EditHolds(t) BY DEF IInv, EditsHold
<1>1. PICK m \in Members : m = calls[t].target BY <1>0 DEF TypeOK, ManagersRow
<1> DEFINE Stays == roles'[m] = roles[m]
<1>2. ASSUME NEW s \in Sessions, EditCommits(s) PROVE Stays
  <2>1. CASE s = t
    <3>1. \/ calls' = [Moved(m) EXCEPT ![t] = None] \/ calls' = [calls EXCEPT ![t] = None]
      BY <1>1, <1>2, <2>1 DEF EditCommits
    <3>2. calls'[t] = None BY <1>0, <3>1, MovedType DEF TypeOK
    <3> QED BY <3>2
  <2>2. CASE s # t
    <3>1. calls[s] # None /\ calls[s].kind = "write" BY <1>2 DEF EditCommits
    <3>2. calls[s].target # m BY <1>0, <1>1, <2>2, <3>1 DEF EditHolds
    <3> QED BY <1>0, <1>2, <3>2 DEF EditCommits, TypeOK
  <2> QED BY <2>1, <2>2
<1>3. ASSUME NEW s \in Sessions, CreateCommits(s) PROVE Stays
  <2>1. CASE CreateFits(calls[s])
    <3>1. calls[s].target # m BY <1>0, <1>1, <2>1 DEF CreateFits, EditHolds
    <3> QED BY <1>0, <1>3, <3>1 DEF CreateCommits, TypeOK, memberships
  <2>2. CASE ~CreateFits(calls[s]) BY <1>3, <2>2 DEF CreateCommits, memberships
  <2> QED BY <2>1, <2>2
<1>4. ASSUME NEW i \in DOMAIN letters, Redeem(i) PROVE UNCHANGED roles BY <1>4 DEF Redeem
<1>5. ASSUME NEW s \in Sessions, NEW k \in Members,
             \/ PressStatus(s, k)
             \/ \E chosen \in RoleInputs, n \in TypedNumbers \cup {number[k]} : PressEdit(s, k, chosen, n)
             \/ \E chosen \in RoleInputs : ConsoleCreates(s, k, chosen) \/ PhoneRegisters(s, k, chosen)
      PROVE  UNCHANGED roles
  <2>1. PICK c : MaySend(c) /\ Press(s, c) BY <1>5, PressesAreLawful
  <2> QED BY <2>1 DEF Press, memberships
<1>6. ASSUME NEW p \in Phones, PersonsStep(p) PROVE UNCHANGED roles
  BY <1>6 DEF PersonsStep, LoginChecks, LoginResolves, LoginInserts, Logout, SwitchReads,
              SwitchCommits, memberships
<1>7. ASSUME NEW u \in Comers, RequestReset(u) PROVE UNCHANGED roles
  BY <1>7 DEF RequestReset, memberships
<1>8. ASSUME NEW s \in Sessions, StatusCommits(s) \/ EditReads(s) \/ CreateReads(s) \/ Invite(s)
      PROVE  UNCHANGED roles
  BY <1>8 DEF StatusCommits, EditReads, CreateReads, Invite, memberships
<1>9. CallLost \/ UNCHANGED vars => UNCHANGED roles BY DEF CallLost, vars, memberships
<1>10. UNCHANGED roles => Stays OBVIOUS
<1>11. Stays
  BY <1>2, <1>3, <1>4, <1>5, <1>6, <1>7, <1>8, <1>9, <1>10 DEF Next, ManagersStep
<1> QED BY <1>1, <1>11

\* Nobody else holds the row that an edit holds after a step.
LEMMA HeldAlone ==
  ASSUME IInv, [Next]_vars, NEW s \in Sessions, NEW t \in Sessions \ {s},
         calls'[s] # None, calls'[s].kind = "write", calls'[t] # None, calls'[t].kind = "write"
  PROVE  calls'[t].target # calls'[s].target
<1>1. SameCall(s) /\ SameCall(t) BY CallsNext DEF MaySend
<1>2. CASE calls[s].kind = "write" /\ calls[t].kind = "write"
  BY <1>1, <1>2 DEF SameCall, IInv, EditsHold, EditHolds
<1>3. CASE calls[s].kind # "write"
  <2>1. calls'[t] = calls[t] /\ ~Locked(calls[s].target) BY <1>1, <1>3 DEF SameCall
  <2> QED BY <1>1, <2>1 DEF SameCall, Locked
<1>4. CASE calls[t].kind # "write"
  <2>1. calls'[s] = calls[s] /\ ~Locked(calls[t].target) BY <1>1, <1>4 DEF SameCall
  <2> QED BY <1>1, <2>1 DEF SameCall, Locked
<1> QED BY <1>2, <1>3, <1>4

LEMMA EditsNext == IInv /\ [Next]_vars => EditsHold'
<1> SUFFICES ASSUME IInv, [Next]_vars, NEW s \in Sessions,
                    calls'[s] # None, calls'[s].kind \in {"edit", "write"}
             PROVE  EditHolds(s)'
  BY DEF EditsHold, EditHolds
<1> USE NoneIsNobody
<1>0. TypeOK /\ AccountsStay /\ EditHolds(s) BY AccountsAlways DEF IInv, EditsHold
<1>1. CASE MaySend(calls'[s])
  <2>1. PICK m \in Members : m = calls'[s].target BY <1>1 DEF MaySend, ManagersRow
  <2>2. calls'[s].kind = "edit" /\ Exists(m) BY <1>1, <2>1 DEF MaySend
  <2>3. Exists(m)' BY <1>0, <2>2 DEF AccountsStay, Exists
  <2> QED BY <2>1, <2>2, <2>3 DEF EditHolds, Exists
<1>2. CASE SameCall(s)
  <2>1. calls[s] # None /\ calls[s] \in ManagersRow BY <1>0, <1>2 DEF SameCall, TypeOK
  <2>2. PICK m \in Members : m = calls[s].target BY <2>1 DEF ManagersRow
  <2>3. calls'[s].target = m /\ calls[s].kind \in {"edit", "write"} BY <1>2, <2>2 DEF SameCall
  <2>4. Exists(m) BY <1>0, <2>1, <2>2, <2>3 DEF EditHolds
  <2>5. Exists(m)' BY <1>0, <2>4 DEF AccountsStay, Exists
  <2>6. ASSUME calls'[s].kind = "write", m = calls[s].actor
        PROVE  "OWNER" \in calls[s].roles \/ roles'[m] \cap Managing = {}
    <3>1. CASE calls[s].kind = "write"
      <4>1. roles'[m] = roles[m] BY <2>1, <2>2, <3>1, HeldRolesStay
      <4> QED BY <1>0, <2>1, <2>2, <2>6, <3>1, <4>1 DEF EditHolds
    <3>2. CASE calls[s].kind # "write"
      <4>1. MayAssign(calls[s]) /\ UNCHANGED roles BY <1>2, <2>6, <3>2 DEF SameCall
      <4> QED BY <2>2, <2>6, <4>1 DEF MayAssign, Managing, Privileged, Creating
    <3> QED BY <3>1, <3>2
  <2>7. calls'[s].kind = "write" =>
          \A t \in Sessions \ {s} :
            calls'[t] # None /\ calls'[t].kind = "write" => calls'[t].target # m
    BY <2>3, HeldAlone
  <2>8. calls'[s].actor = calls[s].actor /\ calls'[s].roles = calls[s].roles
    BY <1>2 DEF SameCall
  <2> QED BY <2>3, <2>5, <2>6, <2>7, <2>8 DEF EditHolds, Exists
<1> QED BY <1>1, <1>2, CallsNext

-----------------------------------------------------------------------------
(* Managers that stay, and numbers that are free.                          *)

Manages(m) == status[m] = "ACTIVE" /\ roles[m] \cap Managing # {}

\* Who manages goes on, and somebody else takes the place of who does not.
LEMMA ManagersStay ==
  ASSUME IInv,
         \A m \in Members : Manages(m) =>
            \/ Manages(m)'
            \/ \E k \in OfOrg(m[2]) : Manages(k)',
         overruled => overruled'
  PROVE  LockoutNeedsARace'
<1> SUFFICES ASSUME ~overruled, NEW o \in Orgs, \E m \in OfOrg(o) : InitRoles[m] \cap Managing # {}
             PROVE  \E m \in OfOrg(o) : Manages(m)'
  BY DEF LockoutNeedsARace, Manages, OfOrg
<1>1. PICK m \in OfOrg(o) : Manages(m) BY DEF IInv, LockoutNeedsARace, Manages
<1>2. m \in Members /\ m[2] = o BY DEF OfOrg
<1> QED BY <1>1, <1>2

LEMMA LockoutNext == IInv /\ [Next]_vars => LockoutNeedsARace'
<1> SUFFICES ASSUME IInv, [Next]_vars PROVE LockoutNeedsARace' OBVIOUS
<1> USE NoneIsNobody
<1>0. TypeOK BY DEF IInv
<1>1. CASE UNCHANGED <<status, roles, overruled>>
  <2>1. \A m \in Members : Manages(m) => Manages(m)' BY <1>1 DEF Manages
  <2> QED BY <1>1, <2>1, ManagersStay
<1>2. ASSUME NEW i \in DOMAIN letters, Redeem(i) PROVE LockoutNeedsARace'
  <2>1. \A m \in Members : Manages(m) => Manages(m)' BY <1>2 DEF Manages, Redeem
  <2> QED BY <1>2, <2>1, ManagersStay DEF Redeem
<1>3. ASSUME NEW s \in Sessions, StatusCommits(s) PROVE LockoutNeedsARace'
  <2> DEFINE c == calls[s]
  <2>1. c \in ManagersRow /\ c # None /\ c.kind \in {"activate", "deactivate"}
    BY <1>0, <1>3 DEF StatusCommits, TypeOK
  <2>2. /\ c.actor \in Members /\ c.target \in Members /\ c.actor[2] = c.target[2]
        /\ c.kind = "deactivate" => c.actor # c.target
    BY <2>1 DEF ManagersRow, IInv, ActsOnOthers
  <2>3. UNCHANGED roles /\ Overrules(s) BY <1>3 DEF StatusCommits
  <2>4. CASE overruled' BY <2>4 DEF LockoutNeedsARace
  <2>5. CASE ~overruled'
    <3>1. Manages(c.actor) /\ ~overruled BY <2>3, <2>5 DEF Overrules, Manages
    <3>2. status' = [status EXCEPT ![c.target] = IF c.kind = "activate" THEN "ACTIVE" ELSE "INACTIVE"]
      BY <1>3 DEF StatusCommits
    <3> HIDE DEF c
    <3>3. ASSUME NEW m \in Members, Manages(m)
          PROVE  Manages(m)' \/ \E k \in OfOrg(m[2]) : Manages(k)'
      <4>1. CASE m # c.target \/ c.kind = "activate"
        BY <1>0, <2>3, <3>2, <3>3, <4>1 DEF Manages, TypeOK
      <4>2. CASE m = c.target /\ c.kind = "deactivate"
        <5>1. c.actor \in OfOrg(m[2]) BY <2>2, <4>2 DEF OfOrg
        <5>2. status'[c.actor] = status[c.actor] BY <1>0, <2>2, <3>2, <4>2 DEF TypeOK
        <5>3. PICK k : k = c.actor OBVIOUS
        <5>4. Manages(k)' BY <2>3, <3>1, <5>2, <5>3 DEF Manages
        <5> QED BY <5>1, <5>3, <5>4
      <4> QED BY <2>1, <4>1, <4>2
    <3> QED BY <3>1, <3>3, ManagersStay
  <2> QED BY <2>4, <2>5
<1>4. ASSUME NEW s \in Sessions, EditCommits(s) PROVE LockoutNeedsARace'
  <2> DEFINE c == calls[s]
  <2>1. c \in ManagersRow /\ c # None BY <1>0, <1>4 DEF EditCommits, TypeOK
  <2>2. c.actor \in Members /\ c.target \in Members /\ c.actor[2] = c.target[2]
    BY <2>1 DEF ManagersRow, IInv, ActsOnOthers
  <2>3. UNCHANGED status BY <1>4 DEF EditCommits
  <2>4. CASE ~NumberFree(c.target, c.number)
    <3>1. UNCHANGED <<roles, overruled>> BY <1>4, <2>4 DEF EditCommits
    <3> QED BY <1>1, <2>3, <3>1
  <2>5. CASE overruled' BY <2>5 DEF LockoutNeedsARace
  <2>6. CASE NumberFree(c.target, c.number) /\ ~overruled'
    <3>1. roles' = [roles EXCEPT ![c.target] = c.roles] /\ Overrules(s)
      BY <1>4, <2>6 DEF EditCommits
    <3>2. Manages(c.actor) /\ ~overruled BY <2>6, <3>1 DEF Overrules, Manages
    <3>3. c.target = c.actor => "OWNER" \in c.roles
      BY <1>4, <2>1, <3>2 DEF EditCommits, Manages, IInv, EditsHold, EditHolds
    <3> HIDE DEF c
    <3>4. ASSUME NEW m \in Members, Manages(m)
          PROVE  Manages(m)' \/ \E k \in OfOrg(m[2]) : Manages(k)'
      <4>1. CASE m # c.target BY <1>0, <2>3, <3>1, <3>4, <4>1 DEF Manages, TypeOK
      <4>2. CASE m = c.target /\ c.actor # c.target
        <5>1. c.actor \in OfOrg(m[2]) BY <2>2, <4>2 DEF OfOrg
        <5>2. roles'[c.actor] = roles[c.actor] BY <1>0, <2>2, <3>1, <4>2 DEF TypeOK
        <5>3. PICK k : k = c.actor OBVIOUS
        <5>4. Manages(k)' BY <2>3, <3>2, <5>2, <5>3 DEF Manages
        <5> QED BY <5>1, <5>3, <5>4
      <4>3. CASE m = c.target /\ c.actor = c.target
        <5>1. roles'[m] = c.roles /\ "OWNER" \in c.roles BY <1>0, <2>2, <3>1, <3>3, <4>3 DEF TypeOK
        <5> QED BY <2>3, <3>4, <5>1 DEF Manages, Managing
      <4> QED BY <4>1, <4>2, <4>3
    <3> QED BY <3>2, <3>4, ManagersStay
  <2> QED BY <2>4, <2>5, <2>6
<1>5. ASSUME NEW s \in Sessions, CreateCommits(s) PROVE LockoutNeedsARace'
  <2> DEFINE c == calls[s]
  <2>1. UNCHANGED overruled BY <1>5 DEF CreateCommits
  <2>2. CASE ~CreateFits(c)
    <3>1. UNCHANGED <<status, roles>> BY <1>5, <2>2 DEF CreateCommits, memberships
    <3> QED BY <1>1, <2>1, <3>1
  <2>3. CASE CreateFits(c)
    <3>1. status[c.target] = "NONE" BY <2>3 DEF CreateFits, Exists
    <3>2. \A m \in Members \ {c.target} : status'[m] = status[m] /\ roles'[m] = roles[m]
      BY <1>0, <1>5, <2>3 DEF CreateCommits, TypeOK
    <3>3. \A m \in Members : Manages(m) => m # c.target /\ Manages(m)'
      BY <3>1, <3>2 DEF Manages
    <3> QED BY <2>1, <3>3, ManagersStay
  <2> QED BY <2>2, <2>3
<1>6. ASSUME NEW s \in Sessions, NEW m \in Members,
             \/ PressStatus(s, m)
             \/ \E chosen \in RoleInputs, n \in TypedNumbers \cup {number[m]} : PressEdit(s, m, chosen, n)
             \/ \E chosen \in RoleInputs : ConsoleCreates(s, m, chosen) \/ PhoneRegisters(s, m, chosen)
      PROVE  UNCHANGED <<status, roles, overruled>>
  <2>1. PICK c : MaySend(c) /\ Press(s, c) BY <1>6, PressesAreLawful
  <2> QED BY <2>1 DEF Press, memberships
<1>7. ASSUME NEW p \in Phones, PersonsStep(p) PROVE UNCHANGED <<status, roles, overruled>>
  BY <1>7 DEF PersonsStep, LoginChecks, LoginResolves, LoginInserts, Logout, SwitchReads,
              SwitchCommits, memberships
<1>8. ASSUME NEW u \in Comers, RequestReset(u) PROVE UNCHANGED <<status, roles, overruled>>
  BY <1>8 DEF RequestReset, memberships
<1>9. ASSUME NEW s \in Sessions, EditReads(s) \/ CreateReads(s) \/ Invite(s)
      PROVE  UNCHANGED <<status, roles, overruled>>
  BY <1>9 DEF EditReads, CreateReads, Invite, memberships
<1>10. CallLost \/ UNCHANGED vars => UNCHANGED <<status, roles, overruled>>
  BY DEF CallLost, vars, memberships
<1> QED
  BY <1>1, <1>2, <1>3, <1>4, <1>5, <1>6, <1>7, <1>8, <1>9, <1>10 DEF Next, ManagersStep

\* The number a creation holds is free or has been moved.
NumberHolds(t) ==
    Creates(calls[t]) /\ calls[t].number > 0 =>
        calls[t].moved \/ NumberFree(calls[t].target, calls[t].number)

\* A step that writes no number, and by which no creation gets one.
LEMMA NumbersStay ==
  ASSUME IInv, UNCHANGED number,
         \A t \in Sessions : calls'[t] # None =>
            \/ calls'[t] = calls[t]
            \/ MaySend(calls'[t])
            \/ NumberHolds(t)'
  PROVE  TakenNumberNeedsARace'
<1> SUFFICES ASSUME NEW t \in Sessions PROVE NumberHolds(t)'
  BY DEF TakenNumberNeedsARace, NumberHolds
<1>0. TypeOK /\ NumberHolds(t) BY DEF IInv, TakenNumberNeedsARace, NumberHolds
<1>1. CASE calls'[t] = None BY <1>1 DEF NumberHolds, Creates
<1>2. CASE calls'[t] = calls[t] BY <1>0, <1>2 DEF NumberHolds, Creates, NumberFree
<1>3. CASE calls'[t] # None /\ MaySend(calls'[t])
  <2>1. calls'[t].number = 0 \/ ~Creates(calls'[t]) BY <1>3 DEF MaySend
  <2> QED BY <2>1 DEF NumberHolds, Creates
<1> QED BY <1>1, <1>2, <1>3

\* A step that gives m a number, with the end of s's transaction.
LEMMA NumberMoves ==
  ASSUME IInv, NEW s \in Sessions, NEW m \in Members, NEW n \in Nat, NEW d,
         d # None => d.kind = "letter",
         number' = [number EXCEPT ![m] = n],
         calls' = [Moved(m) EXCEPT ![s] = d]
  PROVE  TakenNumberNeedsARace'
<1> SUFFICES ASSUME NEW t \in Sessions PROVE NumberHolds(t)'
  BY DEF TakenNumberNeedsARace, NumberHolds
<1>0. TypeOK /\ NumberHolds(t) BY DEF IInv, TakenNumberNeedsARace, NumberHolds
<1>1. CASE t = s
  <2>1. calls'[t] = d BY <1>0, <1>1, MovedType
  <2> QED BY <2>1 DEF NumberHolds, Creates
<1>2. CASE t # s
  <2>1. calls'[t] = Moved(m)[t] BY <1>0, <1>2, MovedType
  <2>2. CASE calls[t] = None BY <2>1, <2>2 DEF Moved, NumberHolds, Creates
  <2>3. CASE calls[t] # None
    <3>1. calls[t] \in ManagersRow BY <1>0, <2>3 DEF TypeOK
    <3> DEFINE k == calls[t].target
    <3>2. /\ calls'[t].kind = calls[t].kind /\ calls'[t].target = k
          /\ calls'[t].number = calls[t].number
          /\ calls[t].moved => calls'[t].moved
          /\ calls[t].number > 0 /\ k[2] = m[2] => calls'[t].moved
      BY <1>0, <2>1, <2>3, MovedFields
    <3>3. CASE k[2] = m[2] BY <3>2, <3>3 DEF NumberHolds
    <3>4. CASE k[2] # m[2]
      <4>1. \A j \in OfOrg(k[2]) : number'[j] = number[j] BY <1>0, <3>4 DEF OfOrg, TypeOK
      <4>2. NumberFree(k, calls[t].number) => \A j \in OfOrg(k[2]) \ {k} : number'[j] # calls[t].number
        BY <4>1 DEF NumberFree
      <4>3. Creates(calls'[t]) => Creates(calls[t]) BY <2>3, <3>2 DEF Creates
      <4>4. SUFFICES ASSUME Creates(calls'[t]), calls'[t].number > 0, ~calls'[t].moved
                     PROVE  \A j \in OfOrg(calls'[t].target[2]) \ {calls'[t].target} :
                                number'[j] # calls'[t].number
        BY DEF NumberHolds, NumberFree, OfOrg, Creates
      <4>5. NumberFree(k, calls[t].number) BY <1>0, <3>2, <4>3, <4>4 DEF NumberHolds
      <4> QED BY <3>2, <4>2, <4>5
    <3> QED BY <3>3, <3>4
  <2> QED BY <2>2, <2>3
<1> QED BY <1>1, <1>2

LEMMA TakenNext == IInv /\ [Next]_vars => TakenNumberNeedsARace'
<1> SUFFICES ASSUME IInv, [Next]_vars PROVE TakenNumberNeedsARace' OBVIOUS
<1> USE NoneIsNobody
<1>0. TypeOK BY DEF IInv
<1>1. CASE UNCHANGED <<number, calls>> BY <1>1, NumbersStay
<1>2. ASSUME NEW s \in Sessions, UNCHANGED number, calls' = [calls EXCEPT ![s] = None]
      PROVE  TakenNumberNeedsARace'
  <2>1. \A t \in Sessions : calls'[t] # None => calls'[t] = calls[t] BY <1>0, <1>2 DEF TypeOK
  <2> QED BY <1>2, <2>1, NumbersStay
<1>3. ASSUME NEW s \in Sessions, NEW m \in Members,
             \/ PressStatus(s, m)
             \/ \E chosen \in RoleInputs, n \in TypedNumbers \cup {number[m]} : PressEdit(s, m, chosen, n)
             \/ \E chosen \in RoleInputs : ConsoleCreates(s, m, chosen) \/ PhoneRegisters(s, m, chosen)
      PROVE  TakenNumberNeedsARace'
  <2>1. PICK c : MaySend(c) /\ Press(s, c) BY <1>3, PressesAreLawful
  <2>2. UNCHANGED number BY <2>1 DEF Press, memberships
  <2>3. \A t \in Sessions : calls'[t] \in {c, calls[t]} BY <1>0, <2>1 DEF Press, TypeOK
  <2>4. \A t \in Sessions : calls'[t] # None => calls'[t] = calls[t] \/ MaySend(calls'[t])
    BY <2>1, <2>3
  <2> QED BY <2>2, <2>4, NumbersStay
<1>4. ASSUME NEW s \in Sessions, EditCommits(s) PROVE TakenNumberNeedsARace'
  <2>1. calls[s] \in ManagersRow BY <1>0, <1>4 DEF EditCommits, TypeOK
  <2>2. PICK m \in Members, n \in Nat : m = calls[s].target /\ n = calls[s].number
    BY <2>1 DEF ManagersRow
  <2>3. \/ number' = [number EXCEPT ![m] = n] /\ calls' = [Moved(m) EXCEPT ![s] = None]
        \/ UNCHANGED number /\ calls' = [calls EXCEPT ![s] = None]
    BY <1>4, <2>2 DEF EditCommits
  <2> QED BY <1>2, <2>2, <2>3, NumberMoves
<1>13. ASSUME NEW s \in Sessions, EditReads(s) PROVE TakenNumberNeedsARace'
  <2>1. calls[s] \in ManagersRow BY <1>0, <1>13 DEF EditReads, TypeOK
  <2>2. PICK d : d = [calls[s] EXCEPT !.kind = "write"] OBVIOUS
  <2>3. d.kind = "write" BY <2>1, <2>2 DEF ManagersRow
  <2>4. UNCHANGED number /\ calls' = [calls EXCEPT ![s] = IF MayAssign(calls[s]) THEN d ELSE None]
    BY <1>13, <2>2 DEF EditReads, memberships
  <2>5. calls'[s] \in {d, None} /\ \A t \in Sessions \ {s} : calls'[t] = calls[t]
    BY <1>0, <2>4 DEF TypeOK
  <2>6. NumberHolds(s)' BY <2>3, <2>5 DEF NumberHolds, Creates
  <2> QED BY <2>4, <2>5, <2>6, NumbersStay
<1>5. ASSUME NEW s \in Sessions, CreateReads(s) PROVE TakenNumberNeedsARace'
  <2>1. calls[s] \in ManagersRow /\ Creates(calls[s]) /\ UNCHANGED number
    BY <1>0, <1>5 DEF CreateReads, Creates, TypeOK, memberships
  <2>2. PICK m \in Members : m = calls[s].target BY <2>1 DEF ManagersRow
  <2>3. CASE ~MayCreate(calls[s])
    <3>1. calls' = [calls EXCEPT ![s] = None] BY <1>5, <2>3 DEF CreateReads
    <3> QED BY <1>2, <2>1, <3>1
  <2>4. CASE MayCreate(calls[s])
    <3>1. PICK n, k : /\ n = NextEmployeeNumber(m[2])
                      /\ calls' = [calls EXCEPT ![s] = [calls[s] EXCEPT !.number = n, !.known = k]]
      BY <1>5, <2>2, <2>4 DEF CreateReads
    <3>2. n \in Nat /\ \A j \in OfOrg(m[2]) : number[j] < n BY <1>0, <3>1, NumberIsNew
    <3>3. calls'[s] = [calls[s] EXCEPT !.number = n, !.known = k] BY <1>0, <3>1 DEF TypeOK
    <3>4. calls'[s].target = m /\ calls'[s].number = n BY <2>1, <2>2, <3>3 DEF ManagersRow
    <3>5. \A j \in OfOrg(m[2]) : number'[j] # n
      <4>1. \A j \in OfOrg(m[2]) : number[j] \in Nat BY <1>0 DEF TypeOK, OfOrg
      <4> QED BY <2>1, <3>2, <4>1
    <3>6. NumberHolds(s)' BY <3>4, <3>5 DEF NumberHolds, NumberFree, OfOrg
    <3>7. \A t \in Sessions \ {s} : calls'[t] = calls[t] BY <1>0, <3>1 DEF TypeOK
    <3>8. \A t \in Sessions : calls'[t] = calls[t] \/ NumberHolds(t)' BY <3>6, <3>7
    <3> QED BY <2>1, <3>8, NumbersStay
  <2> QED BY <2>3, <2>4
<1>6. ASSUME NEW s \in Sessions, CreateCommits(s) PROVE TakenNumberNeedsARace'
  <2>1. calls[s] \in ManagersRow BY <1>0, <1>6 DEF CreateCommits, Creates, TypeOK
  <2>2. PICK m \in Members, n \in Nat : m = calls[s].target /\ n = calls[s].number
    BY <2>1 DEF ManagersRow
  <2> DEFINE d == [calls[s] EXCEPT !.kind = "letter"]
  <2>3. d.kind = "letter" BY <2>1 DEF ManagersRow
  <2>4. \/ /\ number' = [number EXCEPT ![m] = n]
           /\ calls' = [Moved(m) EXCEPT ![s] = None] \/ calls' = [Moved(m) EXCEPT ![s] = d]
        \/ UNCHANGED number /\ calls' = [calls EXCEPT ![s] = None]
    BY <1>6, <2>2 DEF CreateCommits, memberships
  <2> HIDE DEF d
  <2> QED BY <1>2, <2>2, <2>3, <2>4, NumberMoves
<1>7. ASSUME NEW s \in Sessions, StatusCommits(s) \/ Invite(s) PROVE TakenNumberNeedsARace'
  BY <1>2, <1>7 DEF StatusCommits, Invite, memberships
<1>8. ASSUME NEW p \in Phones, PersonsStep(p) PROVE UNCHANGED <<number, calls>>
  BY <1>8 DEF PersonsStep, LoginChecks, LoginResolves, LoginInserts, Logout, SwitchReads,
              SwitchCommits, memberships
<1>9. ASSUME NEW u \in Comers, RequestReset(u) PROVE UNCHANGED <<number, calls>>
  BY <1>9 DEF RequestReset, memberships
<1>10. ASSUME NEW i \in DOMAIN letters, Redeem(i) PROVE UNCHANGED <<number, calls>>
  BY <1>10 DEF Redeem
<1>11. CASE CallLost BY <1>1, <1>2, <1>11 DEF CallLost, memberships
<1>12. UNCHANGED vars => UNCHANGED <<number, calls>> BY DEF vars, memberships
<1> QED
  BY <1>1, <1>3, <1>4, <1>5, <1>6, <1>7, <1>8, <1>9, <1>10, <1>11, <1>12, <1>13
  DEF Next, ManagersStep

-----------------------------------------------------------------------------
(* The theorems.                                                           *)

LEMMA InitHolds == Init => IInv
<1> SUFFICES ASSUME Init PROVE IInv OBVIOUS
<1> USE AccessAssumption, ManagersAreEmployed, NoneIsNobody
<1>1. TypeOK BY TypeInit
<1>2. \A m \in Members : InitNumber[m] > 0 => status[m] = "ACTIVE" /\ Exists(m)
  BY DEF Init, Exists
<1>3. Owned
  <2>1. ASSUME NEW u \in Users, password[u] > 0 PROVE UserExists(u)
    <3>1. PICK m \in Of(u) : InitNumber[m] > 0 BY <2>1 DEF Init
    <3> QED BY <1>2, <3>1 DEF UserExists, Of
  <2>2. DOMAIN letters = {} BY DEF Init
  <2>3. \A s \in Sessions : calls[s] = None BY DEF Init
  <2> QED BY <2>1, <2>2, <2>3 DEF Owned
<1>4. ASSUME NEW s \in Sessions PROVE SessionHolds(s)
  <2>1. CASE s \in Consoles
    <3>1. ActorOf[s] \in Members /\ InitNumber[ActorOf[s]] > 0 BY <2>1
    <3>2. session[s] = Row(ActorOf[s][1], ActorOf[s][2], 1, FALSE) BY <2>1 DEF Init
    <3>3. Holder(s) = ActorOf[s] BY <3>1, <3>2 DEF Holder, Row
    <3>4. ActorOf[s] \in Of(ActorOf[s][1]) /\ ActorOf[s][1] \in Users BY <3>1, Persons DEF Of
    <3>5. password[ActorOf[s][1]] = 1 BY <3>1, <3>4 DEF Init
    <3> QED BY <1>2, <3>1, <3>2, <3>3, <3>5 DEF SessionHolds, Row
  <2>2. CASE s \notin Consoles BY <2>2 DEF Init, SessionHolds, Live
  <2> QED BY <2>1, <2>2
<1>5. \A p \in Phones : ReadHolds(p) BY DEF Init, ReadHolds
<1>6. LastLetterOnly BY DEF Init, LastLetterOnly
<1>7. ActsOnOthers /\ EditsHold /\ TakenNumberNeedsARace
  BY DEF Init, ActsOnOthers, EditsHold, EditHolds, TakenNumberNeedsARace, Creates
<1>8. LockoutNeedsARace
  <2> SUFFICES ASSUME NEW o \in Orgs, NEW m \in OfOrg(o), InitRoles[m] \cap Managing # {}
               PROVE  status[m] = "ACTIVE" /\ roles[m] \cap Managing # {}
    BY DEF LockoutNeedsARace
  <2>1. m \in Members /\ InitNumber[m] > 0 BY DEF OfOrg, Managing
  <2> QED BY <1>2, <2>1 DEF Init
<1> QED BY <1>1, <1>3, <1>4, <1>5, <1>6, <1>7, <1>8 DEF IInv, Entitled

LEMMA NextHolds == IInv /\ [Next]_vars => IInv'
BY TypeNext, OwnedNext, EntitledNext, LettersNext, ActsNext, EditsNext, LockoutNext, TakenNext
DEF IInv

\* The inductive invariant holds in every reachable state.
THEOREM Invariance == Spec => []IInv
<1> QED BY InitHolds, NextHolds, PTL DEF Spec

\* The state has its types.
THEOREM TypeCorrect == Spec => []TypeOK
<1>1. IInv => TypeOK BY DEF IInv
<1> QED BY <1>1, Invariance, PTL

\* No revocation leaves a session behind but one whose own sign-in or switch it overtook.
THEOREM SessionsAreEntitled == Spec => []LiveSessionsAreEntitled
<1>1. IInv => LiveSessionsAreEntitled
  BY DEF IInv, Entitled, SessionHolds, LiveSessionsAreEntitled
<1> QED BY <1>1, Invariance, PTL

\* An organisation loses its managers only by a call that outlived its caller's right.
THEOREM LockoutByARace == Spec => []LockoutNeedsARace
<1>1. IInv => LockoutNeedsARace BY DEF IInv
<1> QED BY <1>1, Invariance, PTL

\* A generated number is taken only by a change that its transaction could not see.
THEOREM NumbersByARace == Spec => []TakenNumberNeedsARace
<1>1. IInv => TakenNumberNeedsARace BY DEF IInv
<1> QED BY <1>1, Invariance, PTL

\* What a step does that gives somebody with an account a new password.
NewestLetter ==
    \A u \in Users : UserExists(u) /\ password'[u] # password[u] =>
        \E i \in DOMAIN letters :
            /\ letters[i].user = u /\ letters[i].usable /\ ~letters'[i].usable
            /\ \A j \in DOMAIN letters \ {i} : letters[j].user = u =>
                j < i /\ ~letters[j].usable

LEMMA NewestLetterNext == IInv /\ [Next]_vars => NewestLetter
<1> SUFFICES ASSUME IInv, [Next]_vars PROVE NewestLetter OBVIOUS
<1>0. TypeOK /\ LastLetterOnly BY DEF IInv
<1>1. CASE UNCHANGED password BY <1>1 DEF NewestLetter
<1>2. ASSUME NEW i \in DOMAIN letters, Redeem(i) PROVE NewestLetter
  <2>1. letters[i].user \in Users BY <1>0, LetterIs
  <2>2. letters' = Spent(letters[i].user) /\ letters[i].usable BY <1>2 DEF Redeem, Redeemable
  <2>3. letters \in Seq(Letter) BY <1>0 DEF TypeOK
  <2>4. ~letters'[i].usable BY <2>1, <2>2, <2>3, LettersSpent
  <2>5. \A u \in Users : password'[u] # password[u] => u = letters[i].user
    BY <1>0, <1>2 DEF Redeem, TypeOK
  <2>6. ASSUME NEW j \in DOMAIN letters \ {i}, letters[j].user = letters[i].user
        PROVE  j < i /\ ~letters[j].usable
    <3>1. i \in Nat /\ j \in Nat BY <2>3, LenProperties
    <3>2. ~(i < j) BY <1>0, <2>2, <2>6 DEF LastLetterOnly
    <3>3. j < i BY <3>1, <3>2
    <3> QED BY <1>0, <2>6, <3>3 DEF LastLetterOnly
  <2> QED BY <2>2, <2>4, <2>5, <2>6 DEF NewestLetter
<1>3. ASSUME NEW s \in Sessions, CreateCommits(s) PROVE NewestLetter
  <2>1. \A u \in Users : password'[u] # password[u] => ~UserExists(u)
    BY <1>0, <1>3 DEF CreateCommits, CreateFits, TypeOK
  <2> QED BY <2>1 DEF NewestLetter
<1>4. ASSUME NEW s \in Sessions, NEW m \in Members,
             \/ PressStatus(s, m)
             \/ \E chosen \in RoleInputs, n \in TypedNumbers \cup {number[m]} : PressEdit(s, m, chosen, n)
             \/ \E chosen \in RoleInputs : ConsoleCreates(s, m, chosen) \/ PhoneRegisters(s, m, chosen)
      PROVE  UNCHANGED password
  <2>1. PICK c : MaySend(c) /\ Press(s, c) BY <1>4, PressesAreLawful
  <2> QED BY <2>1 DEF Press
<1>5. ASSUME NEW p \in Phones, PersonsStep(p) PROVE UNCHANGED password
  BY <1>5 DEF PersonsStep, LoginChecks, LoginResolves, LoginInserts, Logout, SwitchReads, SwitchCommits
<1>6. ASSUME NEW u \in Comers, RequestReset(u) PROVE UNCHANGED password BY <1>6 DEF RequestReset
<1>7. ASSUME NEW s \in Sessions,
             StatusCommits(s) \/ EditReads(s) \/ EditCommits(s) \/ CreateReads(s) \/ Invite(s)
      PROVE  UNCHANGED password
  BY <1>7 DEF StatusCommits, EditReads, EditCommits, CreateReads, Invite
<1>8. CallLost \/ UNCHANGED vars => UNCHANGED password BY DEF CallLost, vars
<1> QED BY <1>1, <1>2, <1>3, <1>4, <1>5, <1>6, <1>7, <1>8 DEF Next, ManagersStep

\* Only the newest letter gives a password, once.
THEOREM PasswordsByLetters == Spec => PasswordNeedsNewestLetter
<1>1. IInv /\ [Next]_vars => NewestLetter BY NewestLetterNext
<1> QED BY <1>1, Invariance, PTL DEF Spec, PasswordNeedsNewestLetter, NewestLetter
=============================================================================
