---------------------------- MODULE PhoneSession ----------------------------
(***************************************************************************)
(* The session of a phone against refresh_sessions of the API.  A sign-in  *)
(* opens a token family; every refresh and every switch of organisation    *)
(* rotates it.  The phone keeps a pair in three places: in secure storage, *)
(* in sessionRef, which the renewal handler reads, and in the state of     *)
(* AuthProvider, which the screens read.  A screen's request that is       *)
(* answered 401 asks for a renewal, which all such requests share, and is  *)
(* sent once more.  Requests and answers are lost, and the app is killed.  *)
(*                                                                         *)
(* A pair is named by its family, its place in the family's rotations and  *)
(* the organisation its access token carries.                              *)
(***************************************************************************)
EXTENDS Naturals, FiniteSets

CONSTANTS
  Families,      \* ids of refresh_sessions
  Orgs,          \* organisations the user is an active member of
  Calls,         \* requests of screens under way at one time
  MaxRotations,  \* bound on the rotations of a family
  NoPair, Demo, Idle,      \* no session, the session of the demo, nothing under way
  Granted, Refusal, Lost   \* answers without a pair: 2xx, 401, none

Pair == [family: Families, n: 0..MaxRotations, org: Orgs]
Tokens == Pair \cup {NoPair, Demo}
Kinds == {"load", "switch", "logout", "login"}
Answers == Pair \cup {Granted, Refusal, Lost}

\* A request: what it asks for, the pair it carries, whether it was sent again.
Request == [kind: Kinds, pair: Tokens, org: Orgs \cup {Idle}, again: BOOLEAN,
            at: {"sent", "answered", "waiting", "refused"}, answer: Answers \cup {Idle}]
\* A refresh, of the renewal handler or of the restore at launch.
Refresh == [pair: Pair, answer: Answers \cup {Idle}]
\* A row of refresh_sessions.
Row == [n: 0..MaxRotations, org: Orgs, live: BOOLEAN]

ASSUME RotationsAreBounded == MaxRotations \in Nat
ASSUME MarksAreNoValues ==
  /\ NoPair # Demo /\ {NoPair, Demo} \cap Pair = {}
  /\ {Granted, Refusal, Lost, Idle} \cap Pair = {}
  /\ Refusal \notin {Granted, Lost} /\ Idle \notin {Granted, Refusal, Lost}
  /\ Idle \notin Request \cup Refresh \cup Row

VARIABLES
  family,    \* refresh_sessions: current rotation, active organisation, live or revoked
  expired,   \* access tokens of earlier rotations than this have expired
  stored,    \* SecureStore
  held,      \* sessionRef.current
  shown,     \* the session of AuthProvider
  ready,     \* the restore has ended
  restore,   \* the refresh of the restore
  renewal,   \* accessTokenRenewalInFlight
  request,   \* the screens' requests
  unheard,   \* families that rotated and whose new pair the phone never heard
  switched   \* families whose last rotation was a switch of organisation

serverVars == <<family, expired>>
phoneVars == <<stored, held, shown>>
vars == <<family, expired, stored, held, shown, ready, restore, renewal, request,
          unheard, switched>>

TypeOK ==
  /\ family \in [Families -> Row \cup {Idle}]
  /\ expired \in [Families -> 0..(MaxRotations + 1)]
  /\ stored \in Tokens /\ held \in Tokens /\ shown \in Tokens
  /\ ready \in BOOLEAN
  /\ restore \in Refresh \cup {Idle} /\ renewal \in Refresh \cup {Idle}
  /\ request \in [Calls -> Request \cup {Idle}]
  /\ unheard \subseteq Families /\ switched \subseteq Families

Init ==
  /\ family = [f \in Families |-> Idle] /\ expired = [f \in Families |-> 0]
  /\ stored = NoPair /\ held = NoPair /\ shown = NoPair
  /\ ready = FALSE
  /\ restore = Idle /\ renewal = Idle
  /\ request = [c \in Calls |-> Idle]
  /\ unheard = {} /\ switched = {}

-----------------------------------------------------------------------------
(* services/auth: one transaction each. *)

Opened(f) == family[f] # Idle
CanRotate(f) == family[f].n < MaxRotations

\* The JWT has not expired, and the resolver finds the live row with its organisation.
Authentic(p) ==
  /\ p \in Pair
  /\ p.n >= expired[p.family]
  /\ family[p.family].live
  /\ family[p.family].org = p.org

\* What a call may do to the rows, and what it answers.
Handed(f, n, o) ==
  [family |-> [family EXCEPT ![f] = [n |-> n, org |-> o, live |-> TRUE]],
   answer |-> [family |-> f, n |-> n, org |-> o]]
Rotated(f, o) == IF CanRotate(f) THEN {Handed(f, family[f].n + 1, o)} ELSE {}
Ended(f, answer) == [family |-> [family EXCEPT ![f].live = FALSE], answer |-> answer]
Unchanged(answer) == [family |-> family, answer |-> answer]

\* Refresh: a live family takes its current token only, and any other one ends it.
ServeRefresh(p) ==
  LET row == family[p.family] IN
  IF ~row.live THEN {Unchanged(Refusal)}
  ELSE IF p.n # row.n THEN {Ended(p.family, Refusal)}
  ELSE Rotated(p.family, row.org)

ServeLogin == {Handed(f, 0, o) : f \in {g \in Families : ~Opened(g)}, o \in Orgs}

ServeSwitch(p, o) == Rotated(p.family, o)

ServeLogout(p) == {Ended(p.family, Granted)}

\* A request by its route, behind the session resolver.  A demo token is answered by
\* demoRequest on the phone, unless fetchAPI itself put it on a retry.
Serve(r) ==
  CASE r.kind = "login" -> ServeLogin
    [] r.kind # "login" /\ r.pair = Demo /\ ~r.again -> {Unchanged(Granted)}
    [] r.kind # "login" /\ ~Authentic(r.pair) /\ (r.pair = Demo => r.again) -> {Unchanged(Refusal)}
    [] r.kind = "switch" /\ Authentic(r.pair) -> ServeSwitch(r.pair, r.org)
    [] r.kind = "logout" /\ Authentic(r.pair) -> ServeLogout(r.pair)
    [] r.kind = "load" /\ Authentic(r.pair) -> {Unchanged(Granted)}

\* A password reset or updateEmployee revokes every session of the user.
EndSessions ==
  /\ \E f \in Families : Opened(f) /\ family[f].live
  /\ family' = [f \in Families |-> IF Opened(f) THEN [family[f] EXCEPT !.live = FALSE] ELSE Idle]
  /\ UNCHANGED <<expired, phoneVars, ready, restore, renewal, request, unheard, switched>>

\* Bound: the access token of the last rotation does not expire.
Expire(f) ==
  /\ Opened(f) /\ expired[f] <= family[f].n /\ CanRotate(f)
  /\ expired' = [expired EXCEPT ![f] = family[f].n + 1]
  /\ UNCHANGED <<family, phoneVars, ready, restore, renewal, request, unheard, switched>>

-----------------------------------------------------------------------------
(* The network serves a call and hands its answer on, or loses either. *)

Carry(outcomes, Heard(_)) ==
  \/ \E out \in outcomes :
       /\ family' = out.family
       /\ \/ Heard(out.answer) /\ UNCHANGED unheard
          \/ /\ Heard(Lost)
             /\ unheard' = unheard \cup {f \in Families : out.answer \in Pair /\ out.answer.family = f}
  \/ Heard(Lost) /\ UNCHANGED <<family, unheard>>

CarryRequest(c) ==
  LET Heard(answer) == request' = [request EXCEPT ![c].at = "answered", ![c].answer = answer]
  IN /\ request[c] # Idle /\ request[c].at = "sent"
     /\ Carry(Serve(request[c]), Heard)
     /\ switched' = IF family' # family /\ request[c].kind = "switch"
                    THEN switched \cup {request[c].pair.family} ELSE switched
     /\ UNCHANGED <<expired, phoneVars, ready, restore, renewal>>

CarryRenewal ==
  LET Heard(answer) == renewal' = [renewal EXCEPT !.answer = answer]
  IN /\ renewal # Idle /\ renewal.answer = Idle
     /\ Carry(ServeRefresh(renewal.pair), Heard)
     /\ switched' = IF renewal'.answer \in Pair THEN switched \ {renewal.pair.family} ELSE switched
     /\ UNCHANGED <<expired, phoneVars, ready, restore, request>>

CarryRestore ==
  LET Heard(answer) == restore' = [restore EXCEPT !.answer = answer]
  IN /\ restore # Idle /\ restore.answer = Idle
     /\ Carry(ServeRefresh(restore.pair), Heard)
     /\ switched' = IF restore'.answer \in Pair THEN switched \ {restore.pair.family} ELSE switched
     /\ UNCHANGED <<expired, phoneVars, ready, renewal, request>>

-----------------------------------------------------------------------------
(* AuthProvider and fetchAPI. *)

Save(p) == held' = p /\ shown' = p /\ stored' = p

\* Root renders screens once the restore has ended: LoginScreen without a session, the
\* tabs with one.
SignInShown == ready /\ shown = NoPair
ScreensShown == ready /\ shown # NoPair

\* loading of LoginScreen and switching of ProfileScreen disable their buttons.
UnderWay(kind) == \E c \in Calls : request[c] # Idle /\ request[c].kind = kind
SignInOffered == SignInShown /\ ~UnderWay("login")
SwitchOffered == ScreensShown /\ shown # Demo /\ ~UnderWay("switch")
LogoutOffered == ScreensShown

Ask(c, kind, o) ==
  /\ request[c] = Idle
  /\ request' = [request EXCEPT ![c] = [kind |-> kind, pair |-> shown, org |-> o,
                                        again |-> FALSE, at |-> "sent", answer |-> Idle]]
  /\ UNCHANGED <<serverVars, phoneVars, ready, restore, renewal, unheard, switched>>

SubmitLogin(c) == SignInOffered /\ Ask(c, "login", Idle)
LoadScreen(c) == ScreensShown /\ Ask(c, "load", Idle)
Logout(c) == LogoutOffered /\ Ask(c, "logout", Idle)
ChooseOrganization(c) ==
  SwitchOffered /\ \E o \in Orgs \ {shown.org} : Ask(c, "switch", o)

EnterDemo ==
  /\ SignInOffered
  /\ Save(Demo)
  /\ UNCHANGED <<serverVars, ready, restore, renewal, request, unheard, switched>>

\* A 401 that may still be renewed.
AsksRenewal(r) ==
  r.at = "answered" /\ r.answer = Refusal /\ r.kind # "login" /\ ~r.again

SentAgain(r, p) == [r EXCEPT !.pair = p, !.again = TRUE, !.at = "sent", !.answer = Idle]

\* For a mutant: the handler refreshes without asking what is held by now.
UnauthorizedReplays(c) ==
  /\ request[c] # Idle /\ AsksRenewal(request[c]) /\ renewal = Idle
  /\ request' = [request EXCEPT ![c].at = "waiting"]
  /\ renewal' = [pair |-> request[c].pair, answer |-> Idle]
  /\ UNCHANGED <<serverVars, phoneVars, ready, restore, unheard, switched>>

\* renewAccessToken: join the renewal under way, else ask the handler, which answers
\* with the session held by now, or refreshes the one that failed.
Unauthorized(c) ==
  /\ request[c] # Idle /\ AsksRenewal(request[c])
  /\ \/ /\ renewal # Idle
        /\ request' = [request EXCEPT ![c].at = "waiting"]
        /\ UNCHANGED renewal
     \/ /\ renewal = Idle /\ held = NoPair
        /\ request' = [request EXCEPT ![c].at = "refused"]
        /\ UNCHANGED renewal
     \/ /\ renewal = Idle /\ held \notin {NoPair, request[c].pair}
        /\ request' = [request EXCEPT ![c] = SentAgain(@, held)]
        /\ UNCHANGED renewal
     \/ /\ renewal = Idle /\ held = request[c].pair
        /\ request' = [request EXCEPT ![c].at = "waiting"]
        /\ renewal' = [pair |-> held, answer |-> Idle]
  /\ UNCHANGED <<serverVars, phoneVars, ready, restore, unheard, switched>>

Waiting(c) == request[c] # Idle /\ request[c].at = "waiting"

\* For a mutant: only one of the requests that waited goes on.
RenewalDoneResumesOne ==
  /\ renewal # Idle /\ renewal.answer # Idle
  /\ Save(IF renewal.answer \in Pair THEN renewal.answer ELSE NoPair)
  /\ \E c \in {d \in Calls : Waiting(d)} :
       request' = [request EXCEPT ![c].at = "refused"]
  /\ renewal' = Idle
  /\ UNCHANGED <<serverVars, ready, restore, unheard, switched>>

\* The handler saves what the refresh answered; every request that waited goes on.
RenewalDone ==
  /\ renewal # Idle /\ renewal.answer # Idle
  /\ \/ /\ renewal.answer \in Pair
        /\ Save(renewal.answer)
        /\ request' = [c \in Calls |-> IF Waiting(c) THEN SentAgain(request[c], renewal.answer)
                                       ELSE request[c]]
     \/ /\ renewal.answer \notin Pair
        /\ Save(NoPair)
        /\ request' = [c \in Calls |-> IF Waiting(c) THEN [request[c] EXCEPT !.at = "refused"]
                                       ELSE request[c]]
  /\ renewal' = Idle
  /\ UNCHANGED <<serverVars, ready, restore, unheard, switched>>

Over(c) ==
  /\ request[c] # Idle
  /\ request[c].at = "refused" \/ (request[c].at = "answered" /\ ~AsksRenewal(request[c]))
  /\ request' = [request EXCEPT ![c] = Idle]
  /\ UNCHANGED <<serverVars, ready, restore, renewal, unheard, switched>>

\* login and switchOrganization save the pair they were given.
HandedOver(c) ==
  /\ Over(c) /\ request[c].kind \in {"login", "switch"}
  /\ IF request[c].answer \in Pair THEN Save(request[c].answer) ELSE UNCHANGED phoneVars

\* logout clears the session whatever it was answered.
LoggedOut(c) == Over(c) /\ request[c].kind = "logout" /\ Save(NoPair)

Loaded(c) == Over(c) /\ request[c].kind = "load" /\ UNCHANGED phoneVars

\* The restore at launch: a stored session whose access token has not expired is shown.
Fresh(p) == p \in Pair => p.n >= expired[p.family]

Restore ==
  /\ ~ready /\ restore = Idle
  /\ \/ /\ Fresh(stored)
        /\ shown' = stored /\ ready' = TRUE
        /\ UNCHANGED restore
     \/ /\ ~Fresh(stored)
        /\ restore' = [pair |-> stored, answer |-> Idle]
        /\ UNCHANGED <<shown, ready>>
  /\ UNCHANGED <<serverVars, stored, held, renewal, request, unheard, switched>>

RestoreDone ==
  /\ restore # Idle /\ restore.answer # Idle
  /\ Save(IF restore.answer \in Pair THEN restore.answer ELSE NoPair)
  /\ restore' = Idle /\ ready' = TRUE
  /\ UNCHANGED <<serverVars, renewal, request, unheard, switched>>

\* Pairs that were handed out and are not saved yet.
OnTheWay ==
  {a \in Pair : \/ \E c \in Calls : request[c] # Idle /\ request[c].answer = a
                \/ renewal # Idle /\ renewal.answer = a
                \/ restore # Idle /\ restore.answer = a}

\* The system ends the app: SecureStore survives.
Kill ==
  /\ held' = NoPair /\ shown' = NoPair /\ ready' = FALSE
  /\ restore' = Idle /\ renewal' = Idle
  /\ request' = [c \in Calls |-> Idle]
  /\ unheard' = unheard \cup {a.family : a \in OnTheWay}
  /\ UNCHANGED <<serverVars, stored, switched>>

RequestStep(c) ==
  CarryRequest(c) \/ Unauthorized(c) \/ HandedOver(c) \/ LoggedOut(c) \/ Loaded(c)
RenewalStep == CarryRenewal \/ RenewalDone
RestoreStep == Restore \/ CarryRestore \/ RestoreDone

Next ==
  \/ \E c \in Calls : SubmitLogin(c) \/ LoadScreen(c) \/ ChooseOrganization(c) \/ Logout(c)
  \/ \E c \in Calls : RequestStep(c)
  \/ RenewalStep \/ RestoreStep
  \/ EnterDemo \/ Kill \/ EndSessions
  \/ \E f \in Families : Expire(f)

Spec == Init /\ [][Next]_vars

\* fetch settles, with an answer or an error, and the app's promises are run.
Fairness ==
  /\ \A c \in Calls : WF_vars(RequestStep(c))
  /\ WF_vars(RenewalStep) /\ WF_vars(RestoreStep)

FairSpec == Spec /\ Fairness

-----------------------------------------------------------------------------
(* Properties. *)

\* A refresh of the phone ended a family that was live: its token was replayed.
Replayed(f) ==
  /\ Opened(f) /\ family[f].live /\ ~family'[f].live
  /\ <<renewal, restore>>' # <<renewal, restore>>

\* A session is revoked for a replayed token only if an answer that rotated it was
\* lost, or a switch of organisation was the last to rotate it: the renewal that
\* requests share never replays a token by itself, however they interleave
\* (auth.tsx setAccessTokenRenewalHandler, api.ts renewAccessToken, Service.Refresh).
ReplayNeedsALostAnswer ==
  [][\A f \in Families : Replayed(f) => f \in unheard \cup switched]_vars

\* What docs/security-review.md says of concurrent loads, switches included.
NeverReplayed == [][\A f \in Families : Replayed(f) => f \in unheard]_vars

\* Every request a screen makes ends, those that wait for a renewal too.
RequestsEnd == \A c \in Calls : (request[c] # Idle) ~> (request[c] = Idle)
=============================================================================
