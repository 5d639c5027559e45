----------------------------- MODULE OfflineOutbox -----------------------------
(***************************************************************************)
(* An employee's attendance actions on the way from the phone to the       *)
(* server: the two screens that offer them, the request of a press, the    *)
(* outbox in AsyncStorage that keeps a press whose request failed, and the *)
(* flushes that send the outbox again, asked for by the screens' loads and *)
(* by the reconnect listeners.                                             *)
(*                                                                         *)
(* One module-level promise chain (serialize) runs the flushes and the     *)
(* writes of the outbox one after the other.  A request the phone has      *)
(* given up may still reach the server later (wire).                       *)
(***************************************************************************)
EXTENDS Naturals, Sequences, FiniteSets, SequencesExt

CONSTANTS
  Memberships,  \* memberships that sign in on the phone
  First,        \* the one signed in at first
  NeedsSelfie,  \* the policy asks for a selfie with the main action, or only for a QR or Wi-Fi
  MaxPresses,   \* bound on the presses
  MaxTroubles,  \* bound on the times the phone goes offline, the app is ended or another signs in
  None

ASSUME BoundsAreNat == MaxPresses \in Nat /\ MaxTroubles \in Nat
ASSUME PolicyIsBoolean == NeedsSelfie \in BOOLEAN
ASSUME FirstIsAMember == First \in Memberships
ASSUME NoneIsNoMember == None \notin Memberships

Screens == {"home", "attendance"}
States == {"NOT_STARTED", "WORKING", "ON_BREAK", "COMPLETED"}
Actions == {"CLOCK_IN", "CLOCK_OUT", "START_BREAK", "END_BREAK", "WORK_MORE"}
Keys == 1..MaxPresses
Request == [key: Keys, member: Memberships, action: Actions, selfie: BOOLEAN]
Item == [request: Request, status: {"PENDING", "NEEDS_REVIEW"}]
Answers == {"done", "refused", "failed"}
Press == [request: Request, net: {"sent", "failed"}, live: BOOLEAN]
Asker == [kind: {"load", "net"}, member: Memberships]
Flush == [asker: Asker, todo: Seq(Item), next: Seq(Item), sent: BOOLEAN, dead: BOOLEAN,
          net: {"idle", "sent"}]

VARIABLES
  \* the server
  state,      \* attendance_state of each membership
  log,        \* the requests whose action is recorded, in order
  wire,       \* requests the phone has given up that are still under way
  \* AsyncStorage
  outbox,
  \* the app
  me,         \* the membership signed in
  shown,      \* the state each screen shows, None before the first load
  sheet,      \* the action of Home's evidence sheet
  press,      \* the request each screen has under way; not live once the screen is gone
  waiting,    \* flushes asked for and not begun
  flush,      \* the flush that runs
  offline,    \* the reconnect listeners have seen the phone offline
  \* bounds and history
  presses, troubles,
  saved       \* requests the employee was told are kept on the phone

serverVars == <<state, log, wire>>
appVars == <<me, shown, sheet, press>>
flushVars == <<waiting, flush, offline>>
offlineVars == <<serverVars, outbox, appVars, flushVars, presses, troubles, saved>>

OfflineTypeOK ==
  /\ state \in [Memberships -> States]
  /\ log \in Seq(Request)
  /\ wire \subseteq Request
  /\ outbox \in Seq(Item)
  /\ me \in Memberships
  /\ shown \in [Screens -> States \cup {None}]
  /\ sheet \in Actions \cup {None}
  /\ press \in [Screens -> Press \cup {None}]
  /\ waiting \subseteq Asker
  /\ flush \in Flush \cup {None}
  /\ offline \in BOOLEAN
  /\ presses \in 0..MaxPresses /\ troubles \in 0..MaxTroubles
  /\ saved \subseteq Request

KeysOf(items) == {items[i].request.key : i \in DOMAIN items}
Recorded == {log[i].key : i \in DOMAIN log}

-----------------------------------------------------------------------------
(* The server. *)

Transition(s, a) ==
  \/ s = "NOT_STARTED" /\ a = "CLOCK_IN"
  \/ s = "WORKING" /\ a \in {"CLOCK_OUT", "START_BREAK"}
  \/ s = "ON_BREAK" /\ a = "END_BREAK"
  \/ s = "COMPLETED" /\ a = "WORK_MORE"

\* optimisticAttendanceState, and what the server makes of an action it approves.
StateAfter(a) ==
  CASE a = "CLOCK_OUT" -> "COMPLETED"
    [] a = "START_BREAK" -> "ON_BREAK"
    [] OTHER -> "WORKING"

\* For a mutant: the key of an earlier request is not looked up.
KnownNever(r) == FALSE
Known(r) == \E i \in DOMAIN log : log[i].key = r.key /\ log[i].member = r.member

\* A request comes: it is recorded, or changes nothing.
Taken(r) ==
  /\ ~Known(r) /\ Transition(state[r.member], r.action)
  /\ state' = [state EXCEPT ![r.member] = StateAfter(r.action)]
  /\ log' = Append(log, r)

\* The replay of a recorded request is answered with the stored result when its fingerprint
\* is the same; an upload gives a selfie another attachment, and so another fingerprint.
Replayed(r) == Known(r) /\ ~r.selfie

\* fetchAPI sends a request again after a 401 with the token the renewal handler returns, and
\* that is the token of whoever is signed in by then.
Carried(r) == {r, [r EXCEPT !.member = me]}

\* Of those that come in late, the ones already recorded change nothing.
StillUnderWay(rs) == {r \in wire \cup rs : ~Known(r)}

\* What becomes of a request: net says what the phone hears.  Any may be refused, by the
\* policy or for its session, and any may get lost, before or after the server takes it.
Fate(request, net) == \E r \in Carried(request) :
  \/ net = "done" /\ Taken(r) /\ UNCHANGED wire
  \/ net = "done" /\ Replayed(r) /\ UNCHANGED serverVars
  \/ net = "refused" /\ UNCHANGED serverVars
  \/ net = "failed" /\ wire' = StillUnderWay({r}) /\ UNCHANGED <<state, log>>

\* A request given up comes in late, or never.
ServeLate(r) ==
  /\ r \in wire /\ wire' = wire \ {r}
  /\ Taken(r) \/ UNCHANGED <<state, log>>
  /\ UNCHANGED <<outbox, appVars, flushVars, presses, troubles, saved>>

-----------------------------------------------------------------------------
(* The screens. *)

\* The action a screen offers: primaryAttendanceAction on Home, secondaryAction beside it.
Offered(screen, s) ==
  IF screen = "home"
  THEN CASE s = "NOT_STARTED" -> "CLOCK_IN" [] s = "WORKING" -> "CLOCK_OUT" [] OTHER -> None
  ELSE CASE s = "WORKING" -> "START_BREAK" [] s = "ON_BREAK" -> "END_BREAK"
         [] s = "COMPLETED" -> "WORK_MORE" [] OTHER -> None

Submitting(screen) == press[screen] # None
OfferedNow(screen) == IF shown[screen] = None THEN None ELSE Offered(screen, shown[screen])

\* prepare, takeSelfie, scanDynamicQR and the Wi-Fi: the sheet keeps the action that was
\* offered, with what the policy asks for.
Prepare ==
  /\ OfferedNow("home") # None /\ ~Submitting("home") /\ sheet = None
  /\ sheet' = OfferedNow("home")
  /\ UNCHANGED <<serverVars, outbox, me, shown, press, flushVars, presses, troubles, saved>>

CloseSheet ==
  /\ sheet # None /\ sheet' = None
  /\ UNCHANGED <<serverVars, outbox, me, shown, press, flushVars, presses, troubles, saved>>

SendPress(screen, action, selfie) ==
  /\ presses < MaxPresses /\ presses' = presses + 1
  /\ press' = [press EXCEPT ![screen] =
       [request |-> [key |-> presses', member |-> me, action |-> action, selfie |-> selfie],
        net |-> "sent", live |-> TRUE]]

SubmitHome ==
  /\ sheet # None /\ ~Submitting("home")
  /\ SendPress("home", sheet, NeedsSelfie)
  /\ UNCHANGED <<serverVars, outbox, me, shown, sheet, flushVars, troubles, saved>>

SubmitAttendance ==
  /\ ~Submitting("attendance") /\ OfferedNow("attendance") # None
  /\ SendPress("attendance", OfferedNow("attendance"), FALSE)
  /\ UNCHANGED <<serverVars, outbox, me, shown, sheet, flushVars, troubles, saved>>

LoadAsk(m) == [kind |-> "load", member |-> m]
SheetAfter(screen) == IF screen = "home" /\ press[screen].live THEN None ELSE sheet

\* The request of a press is answered.  Recorded: the sheet closes and the screen loads.
Accepted(screen) ==
  LET r == press[screen].request IN
  /\ press[screen] # None /\ press[screen].net = "sent"
  /\ Fate(r, "done")
  /\ press' = [press EXCEPT ![screen] = None]
  /\ sheet' = SheetAfter(screen)
  /\ waiting' = waiting \cup {LoadAsk(r.member)}
  /\ shown' = IF screen = "home" /\ press[screen].live
              THEN [shown EXCEPT ![screen] = state'[me]] ELSE shown
  /\ UNCHANGED <<outbox, me, flush, offline, presses, troubles, saved>>

\* Refused: the screen says so and keeps its sheet.  Failed: the press is to be kept.
NotAccepted(screen) ==
  LET p == press[screen] IN
  /\ p # None /\ p.net = "sent"
  /\ \/ Fate(p.request, "refused") /\ press' = [press EXCEPT ![screen] = None]
     \/ Fate(p.request, "failed") /\ press' = [press EXCEPT ![screen].net = "failed"]
  /\ UNCHANGED <<outbox, me, shown, sheet, flushVars, presses, troubles, saved>>

\* For a mutant: the write does not wait for the flush.
ChainFreeAlways == TRUE
ChainFree == flush = None

\* enqueue: the press is kept, and the screen shows what it will lead to.
Enqueue(screen) ==
  LET r == press[screen].request IN
  /\ press[screen] # None /\ press[screen].net = "failed"
  /\ ChainFree
  /\ outbox' = Append(outbox, [request |-> r, status |-> "PENDING"])
  /\ saved' = saved \cup {r}
  /\ shown' = [shown EXCEPT ![screen] =
                 IF @ # None /\ press[screen].live THEN StateAfter(r.action) ELSE @]
  /\ sheet' = SheetAfter(screen)
  /\ press' = [press EXCEPT ![screen] = None]
  /\ UNCHANGED <<serverVars, me, flushVars, presses, troubles>>

-----------------------------------------------------------------------------
(* Loads, reconnections and flushes. *)

\* Home asks for the state and then for a flush, Attendance the other way round.  Bound: a
\* screen loads again once the flushes asked for are over.
Load(screen) ==
  /\ waiting = {} /\ flush = None
  /\ waiting' = {LoadAsk(me)}
  /\ \/ screen = "home" /\ shown' = [shown EXCEPT ![screen] = state[me]]
     \/ screen = "attendance" /\ UNCHANGED shown
  /\ UNCHANGED <<serverVars, outbox, me, sheet, press, flush, offline, presses, troubles, saved>>

NetAsk == [kind |-> "net", member |-> me]
Synchronizing == NetAsk \in waiting \/ (flush # None /\ flush.asker = NetAsk)

Trouble == troubles < MaxTroubles /\ troubles' = troubles + 1

\* A listener stands once its screen knows the identity.
GoOffline ==
  /\ Trouble
  /\ ~offline /\ offline' = (\E s \in Screens : shown[s] # None)
  /\ UNCHANGED <<serverVars, outbox, appVars, waiting, flush, presses, saved>>

\* An event that says online: a listener that synchronizes lets it pass.
GoOnline ==
  /\ offline /\ ~Synchronizing
  /\ waiting' = waiting \cup {NetAsk}
  /\ offline' = FALSE
  /\ UNCHANGED <<serverVars, outbox, appVars, flush, presses, troubles, saved>>

BeginFlush(ask) ==
  /\ ask \in waiting /\ ChainFree /\ flush = None
  /\ waiting' = waiting \ {ask}
  /\ flush' = [asker |-> ask, todo |-> outbox, next |-> <<>>, sent |-> FALSE, dead |-> FALSE,
               net |-> "idle"]
  /\ UNCHANGED <<serverVars, outbox, appVars, offline, presses, troubles, saved>>

\* For a mutant: every item is sent, whoever pressed it.
PassedRegardless(item) == item.status = "NEEDS_REVIEW" \/ flush.dead
Passed(item) ==
  item.request.member # flush.asker.member \/ item.status = "NEEDS_REVIEW" \/ flush.dead

\* For a mutant: an answer that says no stops the flush and changes nothing.
KeptAsIs(f, net) == [f EXCEPT !.todo = Tail(@), !.next = Append(@, Head(f.todo)),
                              !.dead = TRUE, !.net = "idle"]

\* What a flush keeps of the item it sent.
Kept(f, net) ==
  LET item == Head(f.todo) IN
  CASE net = "done" -> [f EXCEPT !.todo = Tail(@), !.sent = TRUE, !.net = "idle"]
    [] net = "refused" ->
         [f EXCEPT !.todo = Tail(@), !.net = "idle",
                   !.next = Append(@, [item EXCEPT !.status = "NEEDS_REVIEW"])]
    [] OTHER ->
         [f EXCEPT !.todo = Tail(@), !.net = "idle", !.dead = TRUE, !.next = Append(@, item)]

PassItem ==
  /\ flush # None /\ flush.net = "idle" /\ flush.todo # <<>>
  /\ Passed(Head(flush.todo))
  /\ flush' = [flush EXCEPT !.todo = Tail(@), !.next = Append(@, Head(flush.todo))]
  /\ UNCHANGED <<serverVars, outbox, appVars, waiting, offline, presses, troubles, saved>>

\* The item goes out with the token of who asked for the flush.
SendItem ==
  /\ flush # None /\ flush.net = "idle" /\ flush.todo # <<>>
  /\ ~Passed(Head(flush.todo))
  /\ flush' = [flush EXCEPT !.net = "sent"]
  /\ UNCHANGED <<serverVars, outbox, appVars, waiting, offline, presses, troubles, saved>>

Outgoing == [Head(flush.todo).request EXCEPT !.member = flush.asker.member]

ItemAnswered(net) ==
  /\ flush # None /\ flush.net = "sent"
  /\ Fate(Outgoing, net)
  /\ flush' = Kept(flush, net)
  /\ UNCHANGED <<outbox, appVars, waiting, offline, presses, troubles, saved>>

\* The list is written back, and the screen that asked shows the result; a listener that
\* sent something loads its screen.
EndFlush ==
  LET ask == flush.asker IN
  /\ flush # None /\ flush.net = "idle" /\ flush.todo = <<>>
  /\ outbox' = flush.next
  /\ flush' = None
  /\ waiting' = IF ask.kind = "net" /\ flush.sent /\ ask.member = me
                THEN waiting \cup {LoadAsk(me)} ELSE waiting
  /\ \/ /\ ask.member = me /\ ask.kind = "load"
        /\ \E s \in Screens : (s = "home" => flush.sent) /\ shown' = [shown EXCEPT ![s] = state[me]]
     \/ UNCHANGED shown
  /\ UNCHANGED <<serverVars, me, sheet, press, offline, presses, troubles, saved>>

-----------------------------------------------------------------------------
(* The app as a whole. *)

Forgotten ==
  /\ shown' = [s \in Screens |-> None]
  /\ sheet' = None
  /\ offline' = FALSE

GivenUp == {press[s].request : s \in {x \in Screens : press[x] # None /\ press[x].net = "sent"}}

\* The system ends the app; what it had sent may still arrive.
Kill ==
  /\ Trouble /\ Forgotten
  /\ press' = [s \in Screens |-> None]
  /\ waiting' = {} /\ flush' = None
  /\ wire' = StillUnderWay(
       GivenUp \cup IF flush # None /\ flush.net = "sent" THEN {Outgoing} ELSE {})
  /\ UNCHANGED <<state, log, outbox, me, presses, saved>>

\* Another membership signs in: the screens are built anew, the requests and the chain of
\* flushes run on.
SwitchAccount ==
  /\ Trouble
  /\ \E m \in Memberships \ {me} : me' = m
  /\ Forgotten
  /\ press' = [s \in Screens |-> IF press[s] = None THEN None ELSE [press[s] EXCEPT !.live = FALSE]]
  /\ UNCHANGED <<serverVars, outbox, waiting, flush, presses, saved>>

OfflineInit ==
  /\ state = [m \in Memberships |-> "WORKING"]
  /\ log = <<>> /\ wire = {} /\ outbox = <<>>
  /\ me = First
  /\ shown = [s \in Screens |-> None] /\ sheet = None
  /\ press = [s \in Screens |-> None]
  /\ waiting = {} /\ flush = None /\ offline = FALSE
  /\ presses = 0 /\ troubles = 0 /\ saved = {}

FlushStep == (\E ask \in waiting : BeginFlush(ask)) \/ PassItem \/ SendItem \/ EndFlush

OfflineNext ==
  \/ \E r \in wire : ServeLate(r)
  \/ Prepare \/ CloseSheet \/ SubmitHome \/ SubmitAttendance
  \/ \E s \in Screens : Accepted(s) \/ NotAccepted(s) \/ Enqueue(s) \/ Load(s)
  \/ GoOffline \/ GoOnline \/ FlushStep
  \/ \E net \in Answers : ItemAnswered(net)
  \/ Kill \/ SwitchAccount

OfflineSpec == OfflineInit /\ [][OfflineNext]_offlineVars

\* The user comes back to Home again and again, the phone runs what was asked for, and the
\* network does not swallow every request of the flushes.
OfflineFairness ==
  /\ WF_offlineVars(Load("home"))
  /\ WF_offlineVars(FlushStep \/ \E net \in Answers : ItemAnswered(net))
  /\ SF_offlineVars(\E net \in {"done", "refused"} : ItemAnswered(net))

FairSpec == OfflineSpec /\ OfflineFairness

-----------------------------------------------------------------------------
(* Properties. *)

\* A press the employee was told is kept is in the outbox until the server has recorded it,
\* over flushes, ends of the app and sign-ins of others.  Flush and enqueue both write the
\* whole list, and only the chain keeps one from overwriting what the other added.
NothingVanishes == \A r \in saved : r.key \in Recorded \cup KeysOf(outbox)

\* However often a request is sent, and however late an attempt comes in, its action is
\* recorded once for a member.
RecordedOnce ==
  \A i, j \in DOMAIN log :
    log[i].key = log[j].key /\ log[i].member = log[j].member => i = j

\* A flush that the member who is signed in asked for records nobody else's presses, though
\* the outbox holds those of everyone who used the phone.
FlushSendsItsOwn ==
  [][LET item == Head(flush.todo) IN
     flush # None /\ flush.net = "sent" /\ flush.asker.member = me
       /\ log' # log /\ flush' # None /\ flush'.net = "idle"
     => Last(log').member = item.request.member]_offlineVars

\* The outbox is isolated by membership: a kept press is recorded for the one who pressed.
RecordedForItsMember ==
  \A i \in DOMAIN log : \A r \in saved : log[i].key = r.key => log[i].member = r.member

PendingHere ==
  {outbox[i].request.key : i \in {x \in DOMAIN outbox :
     outbox[x].request.member = me /\ outbox[x].status = "PENDING"}}

\* Every kept press of a member who stays signed in is either sent or put up for review.
QueuedIsSettled == \A k \in Keys : k \in PendingHere ~> k \notin PendingHere

\* A press put up for review as refused is not recorded: the retries of a request the server
\* took return its first result.
ReviewedIsUnrecorded ==
  \A i \in DOMAIN outbox :
    outbox[i].status = "NEEDS_REVIEW" => outbox[i].request.key \notin Recorded
=============================================================================
