------------------------------- MODULE Access -------------------------------
(***************************************************************************)
(* Who may come in.  People sign in, ask for a new password and redeem the *)
(* letter they were sent (auth/service.go, from the phone's LoginScreen);  *)
(* managers invite, edit, deactivate and reactivate employees              *)
(* (operations.go, from the console's App.tsx and the phone's              *)
(* AccountRegistrationCard).                                               *)
(*                                                                         *)
(* Login and the switch of the organisation read, and later write, with    *)
(* nothing locked between; a manager's call is let in by the middleware    *)
(* (resolver.go) before its transaction begins, and an edit and a creation *)
(* decide from a snapshot before they write.  These are the steps here.    *)
(* The rotation of the refresh token is PhoneSession's: here a session is  *)
(* live or has ended, and the row of one that has ended is forgotten.      *)
(*                                                                         *)
(* Bounds: MaxCalls calls of managers, MaxLetters letters, as many live    *)
(* sessions at once as Sessions has members.                               *)
(***************************************************************************)
EXTENDS Naturals, FiniteSets, Sequences, FiniteSetsExt

CONSTANTS Members,       \* pairs <<user, organisation>>: those that are, or may be, employed
          Phones, Sessions,
          Comers,        \* the users who sign in on these phones
          InitRoles,     \* the roles of every <<user, organisation>>
          InitNumber,    \* its employee number, 0 where there is no membership
          Consoles,      \* the sessions that are live at the start: managers at work
          ActorOf,       \* whose they are
          RoleInputs,    \* the sets of roles that the editor's boxes can hold
          TypedNumbers,  \* the employee numbers that somebody types into it
          MaxCalls, MaxLetters,
          None

Users == {m[1] : m \in Members}
Orgs == {m[2] : m \in Members}
Roles == {"OWNER", "ADMIN", "SUPERVISOR", "EMPLOYEE"}  \* HR may do what ADMIN may

ASSUME AccessAssumption ==
    /\ Comers \subseteq Users /\ Consoles \subseteq Sessions /\ ActorOf \in [Consoles -> Members]
    /\ InitRoles \in [Members -> SUBSET Roles] /\ InitNumber \in [Members -> Nat]
    /\ RoleInputs \subseteq (SUBSET Roles) \ {{}} /\ TypedNumbers \subseteq Nat \ {0}
    /\ MaxCalls \in Nat /\ MaxLetters \in Nat

\* Who manages at the start is employed, and so is who sits at a console.
ASSUME ManagersAreEmployed ==
    /\ \A m \in Members : InitRoles[m] \cap {"OWNER", "ADMIN"} # {} => InitNumber[m] > 0
    /\ \A s \in Consoles : InitNumber[ActorOf[s]] > 0

\* The rows of sessions, and the calls of phones and of managers' screens.
SessionRow == [user : Users, org : Orgs, pw : Nat, raced : BOOLEAN]
PhoneCall ==
    [kind : {"login", "switch"}, user : Users, org : Orgs \cup {None}, pw : Nat, raced : BOOLEAN]
Letter == [user : Users, usable : BOOLEAN]
CallKinds == {"activate", "deactivate", "edit", "write", "invite", "create", "letter"}
ManagersRow ==
    [kind : CallKinds, actor : Members, target : Members, roles : SUBSET Roles, number : Nat,
     known : BOOLEAN, moved : BOOLEAN]

ASSUME NoneIsNobody ==
    /\ IsFiniteSet(Members)
    /\ \A m \in Members : m = <<m[1], m[2]>>
    /\ None \notin Orgs \cup Sessions /\ None \notin SessionRow
    /\ None \notin PhoneCall /\ None \notin ManagersRow

VARIABLES
    status, roles, number,  \* the rows of organization_memberships
    password,  \* of every user: 0 is the random one nobody knows
    letters,   \* password_reset_tokens, in the order of their creation
    session,   \* the rows of refresh_sessions that are not revoked nor expired
    phone,     \* the session every phone is signed in to, and the call it waits for
    calls,     \* the call of every manager's screen
    sent,
    overruled  \* history: a call was committed for somebody who had lost the right to it

vars == <<status, roles, number, password, letters, session, phone, calls, sent, overruled>>
memberships == <<status, roles, number>>

Person(m) == m[1]
Of(u) == {m \in Members : m[1] = u}
Exists(m) == status[m] # "NONE"
UserExists(u) == \E m \in Of(u) : Exists(m)
OfOrg(o) == {m \in Members : m[2] = o}

Managing == {"OWNER", "ADMIN"}               \* the roles that hold employee.manage
Creating == Managing \cup {"SUPERVISOR"}     \* the roles that hold employee.create
Privileged == Creating

Live(s) == session[s] # None
Holder(s) == <<session[s].user, session[s].org>>

\* What the middleware asks of every request: Resolve.
Admitted(s) == Live(s) /\ status[Holder(s)] = "ACTIVE"
Allowed(s, who) == Admitted(s) /\ roles[Holder(s)] \cap who # {}

\* For a mutant: the status is not asked for.
EmployersOfAny(u) == {m[2] : m \in {m \in Of(u) : Exists(m)}}

\* Where u is employed: what a sign-in and a switch ask.
Employers(u) == {m[2] : m \in {m \in Of(u) : status[m] = "ACTIVE"}}

Row(u, o, pw, raced) == [user |-> u, org |-> o, pw |-> pw, raced |-> raced]

Init ==
    /\ status = [m \in Members |-> IF InitNumber[m] = 0 THEN "NONE" ELSE "ACTIVE"]
    /\ roles = InitRoles /\ number = InitNumber
    /\ password = [u \in Users |-> IF \E m \in Of(u) : InitNumber[m] > 0 THEN 1 ELSE 0]
    /\ letters = <<>>
    /\ session = [s \in Sessions |->
                    IF s \in Consoles THEN Row(ActorOf[s][1], ActorOf[s][2], 1, FALSE) ELSE None]
    /\ phone = [p \in Phones |-> [in |-> None, call |-> None]]
    /\ calls = [s \in Sessions |-> None]
    /\ sent = 0 /\ overruled = FALSE

-----------------------------------------------------------------------------
(* Sessions that end, and steps that are overtaken.                        *)

\* revoked_at = COALESCE(revoked_at, ...) for the sessions of u in the organisations os.
Revoked(u, os) ==
    [s \in Sessions |-> IF Live(s) /\ session[s].user = u /\ session[s].org \in os
                        THEN None ELSE session[s]]

\* A sign-in or a switch of u's that has read what is being changed has been overtaken.
Overtaken(u, os) ==
    [p \in Phones |->
        LET c == phone[p].call IN
        IF c # None /\ c.user = u /\ (c.org = None \/ c.org \in os)
        THEN [phone[p] EXCEPT !.call.raced = TRUE] ELSE phone[p]]

Call(kind, u, org, pw) == [kind |-> kind, user |-> u, org |-> org, pw |-> pw, raced |-> FALSE]

-----------------------------------------------------------------------------
(* The phone.  Its screen waits for one call at a time; only a session that *)
(* has ended, or a logout, shows the sign-in form again.                   *)

SignedOut(p) == phone[p].in = None

\* Login: the password is compared, and the account must be active somewhere.
LoginChecks(p) ==
    /\ SignedOut(p) /\ phone[p].call = None
    /\ \E u \in Comers :
        /\ password[u] > 0
        /\ phone' = [phone EXCEPT ![p].call = Call("login", u, None, password[u])]
    /\ UNCHANGED <<memberships, password, letters, session, calls, sent, overruled>>

\* resolveOrganization: the organisation asked for, or the oldest membership.
LoginResolves(p) ==
    LET c == phone[p].call IN
    /\ c # None /\ c.kind = "login" /\ c.org = None
    /\ IF Employers(c.user) = {} THEN phone' = [phone EXCEPT ![p].call = None]
       ELSE \E o \in Employers(c.user) : phone' = [phone EXCEPT ![p].call.org = o]
    /\ UNCHANGED <<memberships, password, letters, session, calls, sent, overruled>>

\* The identity of a new row.
NewSession ==
    LET free == {s \in Sessions : session[s] = None /\ \A p \in Phones : phone[p].in # s} IN
    IF free = {} THEN {} ELSE {CHOOSE s \in free : TRUE}

\* The session is stored, whatever was changed since the reads.
LoginInserts(p) ==
    LET c == phone[p].call IN
    /\ c # None /\ c.kind = "login" /\ c.org # None
    /\ \E s \in NewSession :
        /\ session' = [session EXCEPT ![s] = Row(c.user, c.org, c.pw, c.raced)]
        /\ phone' = [phone EXCEPT ![p] = [in |-> s, call |-> None]]
    /\ UNCHANGED <<memberships, password, letters, calls, sent, overruled>>

\* SwitchOrganization reads the membership first and locks the session after.
SwitchReads(p, o) ==
    LET s == phone[p].in IN
    /\ ~SignedOut(p) /\ phone[p].call = None
    /\ Admitted(s) /\ o \in Employers(session[s].user) \ {session[s].org}
    /\ phone' = [phone EXCEPT ![p].call = Call("switch", session[s].user, o, session[s].pw)]
    /\ UNCHANGED <<memberships, password, letters, session, calls, sent, overruled>>

CanSwitch(s) == Live(s)

SwitchCommits(p) ==
    LET s == phone[p].in
        c == phone[p].call
    IN
    /\ c # None /\ c.kind = "switch"
    /\ session' = IF CanSwitch(s)
                  THEN [session EXCEPT ![s].org = c.org, ![s].raced = @ \/ c.raced]
                  ELSE session
    /\ phone' = [phone EXCEPT ![p].call = None]
    /\ UNCHANGED <<memberships, password, letters, calls, sent, overruled>>

\* Logout revokes the session if it is admitted; the phone forgets it in any case.
Logout(p) ==
    LET s == phone[p].in IN
    /\ ~SignedOut(p) /\ phone[p].call = None
    /\ session' = IF Admitted(s) THEN [session EXCEPT ![s] = None] ELSE session
    /\ phone' = [phone EXCEPT ![p] = [in |-> None, call |-> None]]
    /\ UNCHANGED <<memberships, password, letters, calls, sent, overruled>>

-----------------------------------------------------------------------------
(* Letters, asked for and redeemed on any phone: the form of the sign-in   *)
(* screen that a link opens does not wait for the calls of another.        *)

\* For a mutant: the earlier letters stay good.
LettersAfterRequestAll(u) == Append(letters, [user |-> u, usable |-> TRUE])

\* used_at is set in the earlier letters of u.
Spent(u) ==
    [i \in DOMAIN letters |->
        IF letters[i].user = u THEN [letters[i] EXCEPT !.usable = FALSE] ELSE letters[i]]

\* RequestPasswordReset: the earlier letters are spent and a new one is sent.
\* Two requests for one user are serialised by the rows they update.
LettersAfterRequest(u) == Append(Spent(u), [user |-> u, usable |-> TRUE])

RequestReset(u) ==
    /\ UserExists(u)
    /\ Len(letters) < MaxLetters
    /\ letters' = LettersAfterRequest(u)
    /\ UNCHANGED <<memberships, password, session, phone, calls, sent, overruled>>

\* A letter is good until it is used or replaced.  One that expires after its thirty
\* minutes is one that nobody redeems: nothing else reads it.
Redeemable(i) == letters[i].usable

\* The row of m is locked by an edit that has been allowed and has not been written.
Locked(m) == \E s \in Sessions : calls[s] # None /\ calls[s].kind = "write" /\ calls[s].target = m

\* The memberships that the first password of a user activates.
Activated(u) == {m \in Members : Person(m) = u /\ status[m] = "INVITED"}

\* ResetPassword, with any letter that its user was ever sent.
Redeem(i) ==
    LET u == letters[i].user IN
    /\ Redeemable(i) /\ \A m \in Activated(u) : ~Locked(m)
    /\ password' = [password EXCEPT ![u] = @ + 1]
    /\ status' = [m \in Members |-> IF m \in Activated(u) THEN "ACTIVE" ELSE status[m]]
    /\ letters' = Spent(u)
    /\ session' = Revoked(u, Orgs)
    /\ phone' = Overtaken(u, Orgs)
    /\ UNCHANGED <<roles, number, calls, sent, overruled>>

-----------------------------------------------------------------------------
(* Managers.  A call is let in (Press...), then its transaction runs.      *)

Press(s, c) ==
    /\ calls[s] = None /\ sent < MaxCalls
    /\ sent' = sent + 1
    /\ calls' = [calls EXCEPT ![s] = c]
    /\ UNCHANGED <<memberships, password, letters, session, phone, overruled>>

ManagersCall(kind, actor, target, chosen, n) ==
    [kind |-> kind, actor |-> actor, target |-> target, roles |-> chosen, number |-> n,
     known |-> TRUE, moved |-> FALSE]

\* For a mutant: nobody is spared.
MayTargetAnyone(kind, actor, target) == TRUE

\* Nobody deactivates himself.
MayTarget(kind, actor, target) == kind = "activate" \/ target # actor

\* The button under an employee: it offers the opposite of the status listed, and
\* is hidden while an invitation is open.
PressStatus(s, target) ==
    LET kind == IF status[target] = "ACTIVE" THEN "deactivate" ELSE "activate" IN
    /\ Allowed(s, Managing)
    /\ target \in OfOrg(session[s].org) /\ status[target] \in {"ACTIVE", "INACTIVE"}
    /\ MayTarget(kind, Holder(s), target)
    /\ Press(s, ManagersCall(kind, Holder(s), target, {}, 0))

\* The editor sends every field that it holds; the number is the one it was opened
\* with, or one that was typed.
PressEdit(s, target, chosen, n) ==
    /\ Allowed(s, Managing)
    /\ target \in OfOrg(session[s].org) /\ Exists(target)
    /\ n \in {number[target]} \cup TypedNumbers
    /\ Press(s, ManagersCall("edit", Holder(s), target, chosen, n))

\* The forms for a new employee, or for a supervisor if the manager is an owner.
PressCreate(s, target, chosen, kind) ==
    /\ Allowed(s, Creating)
    /\ target \in OfOrg(session[s].org) /\ ~Exists(target)
    /\ chosen \in {{"EMPLOYEE"}} \cup {{"SUPERVISOR"} : r \in roles[Holder(s)] \cap {"OWNER"}}
    /\ Press(s, ManagersCall(kind, Holder(s), target, chosen, 0))

\* The console's leaves the password open if an invitation is to be sent.
ConsoleCreates(s, target, chosen) ==
    \E kind \in {"invite", "create"} : PressCreate(s, target, chosen, kind)

\* The card on the phone is for owners and supervisors, and asks for a password.
PhoneRegisters(s, target, chosen) ==
    /\ Allowed(s, {"OWNER", "SUPERVISOR"})
    /\ PressCreate(s, target, chosen, "create")

\* History: the commit of s's call is somebody's who could not send it any more.
Overrules(s) ==
    overruled' = (overruled \/ status[calls[s].actor] # "ACTIVE"
                            \/ roles[calls[s].actor] \cap Managing = {})

\* changeEmployeeStatus.
StatusCommits(s) ==
    LET c == calls[s]
        u == Person(c.target)
        ends == c.kind = "deactivate" /\ status[c.target] # "INACTIVE"
    IN
    /\ c # None /\ c.kind \in {"activate", "deactivate"} /\ ~Locked(c.target)
    /\ status' = [status EXCEPT ![c.target] =
                    IF c.kind = "activate" THEN "ACTIVE" ELSE "INACTIVE"]
    /\ session' = IF ends THEN Revoked(u, {c.target[2]}) ELSE session
    /\ phone' = IF ends THEN Overtaken(u, {c.target[2]}) ELSE phone
    /\ calls' = [calls EXCEPT ![s] = None]
    /\ Overrules(s)
    /\ UNCHANGED <<roles, number, password, letters, sent>>

\* validateUpdatedRoles, and that an owner keeps the role on his own row.
MayAssign(c) ==
    /\ IF "OWNER" \in roles[c.actor]
       THEN "OWNER" \in c.roles => "OWNER" \in roles[c.target]
       ELSE roles[c.target] \cap Privileged = {} /\ c.roles = {"EMPLOYEE"}
    /\ c.target = c.actor /\ "OWNER" \in roles[c.target] => "OWNER" \in c.roles

\* The unique key over organisation and employee number.
NumberFree(m, n) == \A k \in OfOrg(m[2]) \ {m} : number[k] # n

\* The transactions that have read the numbers of an organisation do not see a change.
Moved(m) ==
    [s \in Sessions |->
        IF calls[s] # None /\ calls[s].number > 0 /\ calls[s].target[2] = m[2]
        THEN [calls[s] EXCEPT !.moved = TRUE] ELSE calls[s]]

\* updateEmployee locks the row of the employee.  Whether the edit is allowed is read from
\* a snapshot: nothing locks the roles of the manager who sent it.
EditReads(s) ==
    LET c == calls[s] IN
    /\ c # None /\ c.kind = "edit" /\ ~Locked(c.target)
    /\ calls' = [calls EXCEPT ![s] = IF MayAssign(c) THEN [c EXCEPT !.kind = "write"] ELSE None]
    /\ UNCHANGED <<memberships, password, letters, session, phone, sent, overruled>>

\* It writes the row and the roles, and ends the sessions of the employee.
EditCommits(s) ==
    LET c == calls[s] IN
    /\ c # None /\ c.kind = "write"
    /\ IF NumberFree(c.target, c.number)
       THEN /\ roles' = [roles EXCEPT ![c.target] = c.roles]
            /\ number' = [number EXCEPT ![c.target] = c.number]
            /\ session' = Revoked(Person(c.target), {c.target[2]})
            /\ phone' = Overtaken(Person(c.target), {c.target[2]})
            /\ calls' = [Moved(c.target) EXCEPT ![s] = None]
            /\ Overrules(s)
       ELSE /\ calls' = [calls EXCEPT ![s] = None]
            /\ UNCHANGED <<roles, number, session, phone, overruled>>
    /\ UNCHANGED <<status, password, letters, sent>>

\* For a mutant: the employees are counted.
NextEmployeeNumberCounted(o) == Cardinality({m \in OfOrg(o) : Exists(m)}) + 1

\* nextEmployeeNumber.
NextEmployeeNumber(o) == Max({number[m] : m \in OfOrg(o)}) + 1

Creates(c) == c # None /\ c.kind \in {"invite", "create"}

\* validateCreatedRoles.
MayCreate(c) ==
    IF "OWNER" \in roles[c.actor] THEN "OWNER" \notin c.roles ELSE c.roles = {"EMPLOYEE"}

\* createEmployee begins.  The role check is the first read of the transaction and
\* fixes what its plain reads see: the lock of the organisation that is taken next
\* orders the writes of two creations, and not what they read.
CreateReads(s) ==
    LET c == calls[s] IN
    /\ Creates(c) /\ c.number = 0
    /\ calls' = IF MayCreate(c)
                THEN [calls EXCEPT ![s].number = NextEmployeeNumber(c.target[2]),
                                   ![s].known = UserExists(Person(c.target))]
                ELSE [calls EXCEPT ![s] = None]
    /\ UNCHANGED <<memberships, password, letters, session, phone, sent, overruled>>

\* The unique keys over the e-mail, and over organisation and user.
CreateFits(c) ==
    /\ ~Exists(c.target) /\ NumberFree(c.target, c.number)
    /\ c.known \/ ~UserExists(Person(c.target))

\* It commits; somebody who had no account and was given no password is invited.
CreateCommits(s) ==
    LET c == calls[s]
        u == Person(c.target)
        invited == c.kind = "invite" /\ ~c.known
    IN
    /\ Creates(c) /\ c.number > 0
    /\ IF CreateFits(c)
       THEN /\ status' = [status EXCEPT ![c.target] = IF invited THEN "INVITED" ELSE "ACTIVE"]
            /\ roles' = [roles EXCEPT ![c.target] = c.roles]
            /\ number' = [number EXCEPT ![c.target] = c.number]
            /\ password' = IF c.known \/ invited THEN password ELSE [password EXCEPT ![u] = 1]
            /\ calls' = [Moved(c.target) EXCEPT
                            ![s] = IF invited THEN [c EXCEPT !.kind = "letter"] ELSE None]
       ELSE /\ calls' = [calls EXCEPT ![s] = None]
            /\ UNCHANGED <<memberships, password>>
    /\ UNCHANGED <<letters, session, phone, sent, overruled>>

\* The invitation is asked for after the commit, as any letter is.
Invite(s) ==
    /\ calls[s] # None /\ calls[s].kind = "letter"
    /\ letters' = LettersAfterRequest(Person(calls[s].target))
    /\ calls' = [calls EXCEPT ![s] = None]
    /\ UNCHANGED <<memberships, password, session, phone, sent, overruled>>

-----------------------------------------------------------------------------
(* What goes wrong by itself.                                              *)

\* The process stops before an invitation is asked for, an edit is rolled back and lets
\* its row go, or a phone's call or its answer is lost: a session may be stored that no
\* phone knows of.  A manager's call that is lost on its way is one whose transaction
\* never runs.
CallLost ==
    /\ \/ \E s \in Sessions :
            /\ calls[s] # None /\ calls[s].kind \in {"letter", "write"}
            /\ calls' = [calls EXCEPT ![s] = None]
            /\ UNCHANGED <<session, phone>>
       \/ \E p \in Phones :
            /\ phone[p].call # None /\ phone' = [phone EXCEPT ![p].call = None]
            /\ UNCHANGED <<session, calls>>
       \/ \E p \in Phones, s \in NewSession :
            LET c == phone[p].call IN
            /\ c # None /\ c.kind = "login" /\ c.org # None
            /\ session' = [session EXCEPT ![s] = Row(c.user, c.org, c.pw, c.raced)]
            /\ phone' = [phone EXCEPT ![p].call = None]
            /\ UNCHANGED calls
    /\ UNCHANGED <<memberships, password, letters, sent, overruled>>

PersonsStep(p) ==
    \/ LoginChecks(p) \/ LoginResolves(p) \/ LoginInserts(p) \/ Logout(p)
    \/ \E o \in Orgs : SwitchReads(p, o)
    \/ SwitchCommits(p)

ManagersStep(s) ==
    \/ \E m \in Members :
        \/ PressStatus(s, m)
        \/ \E chosen \in RoleInputs, n \in TypedNumbers \cup {number[m]} : PressEdit(s, m, chosen, n)
        \/ \E chosen \in RoleInputs : ConsoleCreates(s, m, chosen) \/ PhoneRegisters(s, m, chosen)
    \/ StatusCommits(s) \/ EditReads(s) \/ EditCommits(s)
    \/ CreateReads(s) \/ CreateCommits(s) \/ Invite(s)

Next ==
    \/ \E p \in Phones : PersonsStep(p)
    \/ \E u \in Comers : RequestReset(u)
    \/ \E i \in DOMAIN letters : Redeem(i)
    \/ \E s \in Sessions : ManagersStep(s)
    \/ CallLost

Spec == Init /\ [][Next]_vars

-----------------------------------------------------------------------------
\* The types of the state.
TypeOK ==
    /\ status \in [Members -> {"NONE", "INVITED", "ACTIVE", "INACTIVE"}]
    /\ roles \in [Members -> SUBSET Roles] /\ number \in [Members -> Nat]
    /\ password \in [Users -> Nat]
    /\ letters \in Seq(Letter)
    /\ session \in [Sessions -> SessionRow \cup {None}]
    /\ phone \in [Phones -> [in : Sessions \cup {None}, call : PhoneCall \cup {None}]]
    /\ calls \in [Sessions -> ManagersRow \cup {None}]
    /\ sent \in 0..MaxCalls /\ overruled \in BOOLEAN

\* A live session was opened with the password in force by somebody whose membership
\* is active, unless the very sign-in or switch that stored it was overtaken by a reset,
\* an edit or a deactivation between its reads and its write (service.go:48 and :154
\* hold no lock there): the revocations of ResetPassword, updateEmployee and
\* changeEmployeeStatus leave nothing else behind, in any organisation.
LiveSessionsAreEntitled ==
    \A s \in Sessions : Live(s) =>
        session[s].raced \/ (status[Holder(s)] = "ACTIVE" /\ session[s].pw = password[session[s].user])

\* Whoever has an account gets a new password only with a letter that is the last one
\* sent to him and the only one still good, and that letter is spent by it
\* (service.go:198 and :235): no order of invitations, requests and redemptions leaves
\* an earlier letter good, or a letter good for a second time.
PasswordNeedsNewestLetter ==
    [][\A u \in Users : UserExists(u) /\ password'[u] # password[u] =>
        \E i \in DOMAIN letters :
            /\ letters[i].user = u /\ letters[i].usable /\ ~letters'[i].usable
            /\ \A j \in DOMAIN letters \ {i} : letters[j].user = u =>
                j < i /\ ~letters[j].usable]_vars

\* An organisation that has managers keeps an active one through every order of edits
\* and deactivations, unless a call was committed for a manager who had lost his own
\* right after the middleware let the call in (operations.go:470 and :334: nobody
\* deactivates himself or takes Owner from himself, and two managers can do it to one
\* another).
LockoutNeedsARace ==
    overruled \/ \A o \in Orgs :
        (\E m \in OfOrg(o) : InitRoles[m] \cap Managing # {}) =>
            \E m \in OfOrg(o) : status[m] = "ACTIVE" /\ roles[m] \cap Managing # {}

\* The number that a creation has generated is free, unless a number was given in the
\* same organisation after the creation's first read (operations.go:271: the number is
\* computed under the organisation's lock, from a snapshot taken before it).
TakenNumberNeedsARace ==
    \A s \in Sessions :
        LET c == calls[s] IN
        Creates(c) /\ c.number > 0 => c.moved \/ NumberFree(c.target, c.number)
=============================================================================
