--------------------------------- MODULE Kiosk ---------------------------------
(***************************************************************************)
(* One phone of the showroom used as a kiosk by every employee: the screen *)
(* and its asynchronous handlers, the token in SecureStore, the supervisor *)
(* who activates and leaves the mode, and the server's side of it.         *)
(*                                                                         *)
(* A handler keeps the values it was pressed with while it waits, and the  *)
(* screen may have gone on to another employee when its answer comes.      *)
(* Each handler under way is a record in a slot: what it waits for (kind), *)
(* the values it kept, whether its screen still stands (home), how the     *)
(* request fares (net) and what the server answered (state or token).      *)
(***************************************************************************)
EXTENDS Naturals, Sequences, FiniteSets

CONSTANTS
  Employees, Pins,
  HasPIN,       \* employees with a PIN at the start
  Approved,     \* employees whose clock-in waits for an approval
  Slots,        \* handlers under way at one time
  MaxTokens,    \* bound on activations
  MaxEvents,    \* bound on the events recorded
  MaxPresses,   \* bound on the handlers pressed
  Sent, Failed, Done, None

ASSUME BoundsAreNat == MaxTokens \in Nat \ {0} /\ MaxEvents \in Nat /\ MaxPresses \in Nat
ASSUME NoneIsNoValue == None \notin Employees \cup Pins \cup Nat
ASSUME AnswersDiffer == Sent # Failed /\ Sent # Done /\ Failed # Done

Tokens == 1..MaxTokens
States == {"NOT_STARTED", "WORKING", "ON_BREAK", "COMPLETED", "PENDING"}
Actions == {"CLOCK_IN", "CLOCK_OUT", "START_BREAK", "END_BREAK", "WORK_MORE"}
KioskActions == {"CLOCK_IN", "CLOCK_OUT", "END_BREAK"}
Phases == {"SELECT", "PIN", "ACTION", "SUCCESS"}
Kinds == {"verify", "upload", "action", "revoke", "logout", "activate"}
Homes == {"shown", "left", "killed"}

VARIABLES
  \* the server
  device,      \* the row of this installation in kiosk_devices
  pinHash,     \* organization_memberships.kiosk_pin_hash
  state,       \* attendance_state
  history,     \* the events recorded of an employee, in order
  \* the phone
  store,       \* the kiosk's token in SecureStore
  kiosk,       \* the kiosk mode shown
  session,     \* a supervisor is signed in
  card,        \* KioskActivationCard: an activation is under way
  screen,      \* KioskScreen
  timers,      \* reset timers pending that resetTimer no longer holds
  slot,        \* handlers under way
  presses,     \* handlers pressed so far
  \* history
  left,        \* how kiosk mode was last left
  doubled      \* the card was taken down while it saved, or an exit pressed while one was under way

server == <<device, pinHash, state, history>>
phone == <<store, kiosk, session, card>>
vars == <<server, phone, screen, timers, slot, presses, left, doubled>>

Status == [of: Employees, state: States]
Screen ==
  [phase: Phases, selected: Employees \cup {None}, status: Status \cup {None},
   pin: Pins \cup {None}, typedFor: Employees \cup {None},
   saving: BOOLEAN, resetTimer: BOOLEAN,
   context: SUBSET Employees]
Call ==
  [kind: Kinds, employee: Employees \cup {None}, pin: Pins \cup {None},
   typedFor: Employees \cup {None}, action: KioskActions \cup {None},
   of: Employees \cup {None}, token: Tokens \cup {None}, home: Homes,
   state: States \cup {None}, net: {Sent, Failed, Done}]

TypeOK ==
  /\ device \in [status: {"ACTIVE", "REVOKED", "NONE"}, token: 0..MaxTokens]
  /\ pinHash \in [Employees -> Pins \cup {None}]
  /\ state \in [Employees -> States]
  /\ history \in [Employees -> Seq(Actions)]
  /\ store \in Tokens \cup {None} /\ kiosk \in Tokens \cup {None}
  /\ session \in BOOLEAN /\ card \in BOOLEAN
  /\ screen \in Screen
  /\ timers \in Nat
  /\ slot \in [Slots -> Call \cup {None}]
  /\ presses \in 0..MaxPresses
  /\ left \in {"signed in", "signed out", "not left"} /\ doubled \in BOOLEAN

-----------------------------------------------------------------------------
(* The server. *)

\* resolveKiosk and authenticateKioskEmployee.
Opens(token) == device.status = "ACTIVE" /\ device.token = token
Authentic(e, p) == p # None /\ pinHash[e] = p

\* For a mutant: the state is not compared with the action.
AnyTransition(s, a) == s # "PENDING"

\* ValidateTransition, and the one clock-in of a day: the model is of one day.
Transition(s, a) ==
  \/ s = "NOT_STARTED" /\ a = "CLOCK_IN"
  \/ s = "WORKING" /\ a \in {"CLOCK_OUT", "START_BREAK"}
  \/ s = "ON_BREAK" /\ a = "END_BREAK"
  \/ s = "COMPLETED" /\ a = "WORK_MORE"
StateAfter(e, a) ==
  CASE a = "CLOCK_IN" -> IF e \in Approved THEN "PENDING" ELSE "WORKING"
    [] a = "CLOCK_OUT" -> "COMPLETED"
    [] a = "START_BREAK" -> "ON_BREAK"
    [] a \in {"END_BREAK", "WORK_MORE"} -> "WORKING"

Total == LET sum[es \in SUBSET Employees] ==
                IF es = {} THEN 0
                ELSE LET e == CHOOSE x \in es : TRUE IN Len(history[e]) + sum[es \ {e}]
         IN sum[Employees]
Recorded(e, a) ==
  /\ Total < MaxEvents
  /\ Transition(state[e], a)
  /\ state' = [state EXCEPT ![e] = StateAfter(e, a)]
  /\ history' = [history EXCEPT ![e] = Append(@, a)]

\* An answer reaches the handler unless the network loses it; a request whose app was
\* ended has no handler any more.
Answered(i, answer) ==
  \E c \in {answer, [slot[i] EXCEPT !.net = Failed]} :
    slot' = [slot EXCEPT ![i] = IF @.home = "killed" THEN None ELSE c]
Accepted(i) == Answered(i, [slot[i] EXCEPT !.net = Done])

RefusedOrLost(i) ==
  Answered(i, [slot[i] EXCEPT !.net = Failed]) /\ UNCHANGED <<server, left>>

ServeStatus(i) ==
  LET c == slot[i] IN
  /\ c.kind = "verify" /\ Opens(c.token) /\ Authentic(c.employee, c.pin)
  /\ Answered(i, [c EXCEPT !.net = Done, !.state = state[c.employee]])
  /\ UNCHANGED <<server, left>>

ServeSelfie(i) ==
  LET c == slot[i] IN
  /\ c.kind = "upload" /\ Opens(c.token) /\ Authentic(c.employee, c.pin)
  /\ Accepted(i)
  /\ UNCHANGED <<server, left>>

\* kioskAttendanceAction.  The policy may refuse any action, and a shift taken from the
\* status of another employee is refused unless both work in it.
ServeAction(i) ==
  LET c == slot[i] IN
  /\ c.kind = "action" /\ Opens(c.token) /\ Authentic(c.employee, c.pin)
  /\ Recorded(c.employee, c.action)
  /\ Accepted(i)
  /\ UNCHANGED <<device, pinHash, left>>

\* activateKiosk: one row for an installation, whose token the last activation replaces.
ServeActivation(i) ==
  /\ slot[i].kind = "activate" /\ device.token < MaxTokens
  /\ device' = [status |-> "ACTIVE", token |-> device.token + 1]
  /\ left' = "not left"
  /\ Answered(i, [slot[i] EXCEPT !.net = Done, !.token = device'.token])
  /\ UNCHANGED <<pinHash, state, history>>

\* revokeKiosk.
ServeRevocation(i) ==
  /\ slot[i].kind = "revoke"
  /\ device' = [device EXCEPT !.status = "REVOKED"]
  /\ Accepted(i)
  /\ UNCHANGED <<pinHash, state, history, left>>

\* A request is refused or gets lost, or is served.  Of a logout the phone needs no answer.
Serve(i) ==
  /\ slot[i] # None /\ slot[i].net = Sent
  /\ \/ RefusedOrLost(i)
     \/ ServeStatus(i)
     \/ ServeSelfie(i)
     \/ ServeAction(i)
     \/ ServeActivation(i)
     \/ ServeRevocation(i)
  /\ UNCHANGED <<phone, screen, timers, presses, doubled>>

\* A supervisor gives an employee a new PIN with EmployeeKioskPINCard.
PINGiven(e, p) == [pinHash EXCEPT ![e] = p]
ResetPIN(e) ==
  /\ \E p \in Pins : pinHash[e] # p /\ pinHash' = PINGiven(e, p)
  /\ UNCHANGED <<device, state, history, phone, screen, timers, slot, left, presses, doubled>>

\* The employee uses a phone of his own.
OwnPhone(e) ==
  /\ \E a \in Actions : Recorded(e, a)
  /\ UNCHANGED <<device, pinHash, phone, screen, timers, slot, left, presses, doubled>>

-----------------------------------------------------------------------------
(* The screen. *)

Blank ==
  [phase |-> "SELECT", selected |-> None, status |-> None, pin |-> None, typedFor |-> None,
   saving |-> FALSE, resetTimer |-> FALSE, context |-> {}]

\* For a mutant: the PIN is left for the next employee.
ResetKeepingPIN(s) ==
  [s EXCEPT !.phase = "SELECT", !.selected = None, !.status = None,
            !.saving = FALSE, !.resetTimer = FALSE]
Reset(s) ==
  [s EXCEPT !.phase = "SELECT", !.selected = None, !.status = None, !.pin = None,
            !.typedFor = None, !.saving = FALSE, !.resetTimer = FALSE]

Chosen(s, e) ==
  [s EXCEPT !.phase = "PIN", !.selected = e, !.status = None, !.pin = None, !.typedFor = None]

\* actionForState.
ActionForState(s) ==
  CASE s = "NOT_STARTED" -> "CLOCK_IN"
    [] s = "WORKING" -> "CLOCK_OUT"
    [] s = "ON_BREAK" -> "END_BREAK"
    [] OTHER -> None

Succeeded(s) ==
  [s EXCEPT !.phase = "SUCCESS", !.pin = None, !.typedFor = None, !.saving = FALSE,
            !.resetTimer = TRUE]

Ask(i, call) ==
  /\ presses < MaxPresses /\ presses' = presses + 1
  /\ slot[i] = None /\ slot' = [slot EXCEPT ![i] = call]
\* The app runs one handler of a kind it has disabled the button of; Kept is what a press keeps.
Kept(kind) ==
  [kind |-> kind, employee |-> screen.selected, pin |-> screen.pin,
   typedFor |-> screen.typedFor, action |-> None, of |-> None, token |-> kiosk,
   home |-> "shown", state |-> None, net |-> Sent]

OnScreen == kiosk # None
UnderWay(kind) == \E i \in Slots : slot[i] # None /\ slot[i].kind = kind

\* load: once, when the screen is built; a failure leaves no employee to choose.
Load ==
  /\ OnScreen /\ screen.context = {}
  /\ Opens(kiosk)
  /\ screen' = [screen EXCEPT !.context = {e \in Employees : pinHash[e] # None}]
  /\ screen'.context # {}
  /\ UNCHANGED <<server, phone, timers, slot, left, presses, doubled>>

Choosable(e) == OnScreen /\ screen.phase = "SELECT" /\ e \in screen.context
Choose(e) ==
  /\ Choosable(e)
  /\ screen' = Chosen(screen, e)
  /\ UNCHANGED <<server, phone, timers, slot, left, presses, doubled>>

AtPIN == OnScreen /\ screen.phase = "PIN" /\ screen.selected # None
\* The text of the field, once it has six digits.
EnterPIN(p) ==
  /\ AtPIN /\ screen.pin # p
  /\ screen' = [screen EXCEPT !.pin = p, !.typedFor = screen.selected]
  /\ UNCHANGED <<server, phone, timers, slot, left, presses, doubled>>

\* Kembali, Ganti karyawan, Selesai and Kembali sekarang, none of which waits for a handler.
Back ==
  /\ OnScreen /\ screen.phase # "SELECT" /\ screen.selected # None
  /\ screen' = Reset(screen)
  /\ UNCHANGED <<server, phone, timers, slot, left, presses, doubled>>

VerifyPIN(i) ==
  /\ AtPIN /\ ~screen.saving /\ screen.pin # None
  /\ Ask(i, Kept("verify"))
  /\ screen' = [screen EXCEPT !.saving = TRUE]
  /\ UNCHANGED <<server, phone, timers, left, doubled>>

AtAction ==
  OnScreen /\ screen.phase = "ACTION" /\ screen.selected # None /\ screen.status # None
\* submitAttendance up to the upload: the camera is refused or closed, or gives a photo.
SubmitAttendance(i) ==
  /\ AtAction /\ ~screen.saving
  /\ ActionForState(screen.status.state) # None
  /\ Ask(i, [Kept("upload") EXCEPT !.action = ActionForState(screen.status.state),
                                   !.of = screen.status.of])
  /\ screen' = [screen EXCEPT !.saving = TRUE]
  /\ UNCHANGED <<server, phone, timers, left, doubled>>

\* The screen is taken down: its handlers go on and no longer show anything, which leaves
\* a verification without any effect.
UnmountedCall(c) ==
  IF c = None \/ c.kind = "verify" THEN None
  ELSE IF c.kind # "activate" /\ c.home = "shown" THEN [c EXCEPT !.home = "left"] ELSE c
Unmounted(calls) == [i \in Slots |-> UnmountedCall(calls[i])]

\* kioskMode.clear and what follows it in exitKiosk.
ClearKiosk(how) ==
  /\ store' = None /\ kiosk' = None
  /\ screen' = Blank /\ timers' = 0
  /\ left' = how

\* The first press of Keluar kiosk only arms the second, so a model step is both.
ExitSignedOut ==
  /\ OnScreen /\ ~screen.saving /\ ~session
  /\ ClearKiosk("signed out")
  /\ slot' = Unmounted(slot)
  /\ doubled' = (doubled \/ UnderWay("revoke"))
  /\ UNCHANGED <<server, session, card, presses>>

ExitSignedIn(i) ==
  /\ OnScreen /\ ~screen.saving /\ session
  /\ Ask(i, Kept("revoke"))
  /\ screen' = [screen EXCEPT !.saving = TRUE]
  /\ doubled' = (doubled \/ UnderWay("revoke"))
  /\ UNCHANGED <<server, phone, timers, left>>

\* The timer of the last success calls reset, and so does one it replaced.
FireTimer ==
  /\ OnScreen
  /\ \/ screen.resetTimer /\ UNCHANGED timers
     \/ timers > 0 /\ timers' = timers - 1
  /\ screen' = Reset(screen)
  /\ UNCHANGED <<server, phone, slot, left, presses, doubled>>

-----------------------------------------------------------------------------
(* What a handler does with its answer. *)

Ended(i) == slot' = [slot EXCEPT ![i] = None]
Shows(i, shown) == screen' = IF slot[i].home = "shown" THEN shown ELSE screen
Error(i) == Ended(i) /\ Shows(i, [screen EXCEPT !.saving = FALSE])

VerifyDone(i) ==
  /\ slot[i].kind = "verify"
  /\ \/ slot[i].net = Failed /\ Error(i)
     \/ /\ slot[i].net = Done
        /\ Ended(i)
        /\ Shows(i, [screen EXCEPT !.status = [of |-> slot[i].employee,
                                                state |-> slot[i].state], !.phase = "ACTION",
                                   !.saving = FALSE])
  /\ UNCHANGED <<server, phone, timers, left, presses, doubled>>

\* The photo is stored; finding the place may fail.
UploadDone(i) ==
  /\ slot[i].kind = "upload"
  /\ \/ Error(i)
     \/ /\ slot[i].net = Done
        /\ slot' = [slot EXCEPT ![i].kind = "action", ![i].net = Sent]
        /\ UNCHANGED screen
  /\ UNCHANGED <<server, phone, timers, left, presses, doubled>>

\* The success screen; a timer that another success had set stays pending.
ActionDone(i) ==
  /\ slot[i].kind = "action"
  /\ \/ slot[i].net = Failed /\ Error(i) /\ UNCHANGED timers
     \/ /\ slot[i].net = Done
        /\ Ended(i)
        /\ Shows(i, Succeeded(screen))
        /\ timers' = IF slot[i].home = "shown" /\ screen.resetTimer THEN timers + 1 ELSE timers
  /\ UNCHANGED <<server, phone, left, presses, doubled>>

\* For a mutant: the mode is left whatever the server says.
CanLeaveAnyway(i) == TRUE
CanLeave(i) == slot[i].net = Done

\* What follows a revocation does not ask whether its screen still stands.
RevokeDone(i) ==
  /\ slot[i].kind = "revoke"
  /\ \/ ~CanLeave(i) /\ Error(i) /\ UNCHANGED <<phone, timers, left>>
     \/ /\ CanLeave(i)
        /\ ClearKiosk("signed in")
        /\ slot' = [Unmounted(slot) EXCEPT ![i].kind = "logout", ![i].net = Sent,
                                           ![i].home = "left"]
        /\ UNCHANGED <<session, card>>
  /\ UNCHANGED <<server, presses, doubled>>

\* The card is built anew with its screen, and no longer knows that it saves.
CardTakenDown == card' = FALSE /\ doubled' = (doubled \/ card)

\* logout ends the session of the phone whatever the server says.
LogoutDone(i) ==
  /\ slot[i].kind = "logout"
  /\ session' = FALSE /\ CardTakenDown
  /\ Ended(i)
  /\ UNCHANGED <<server, store, kiosk, screen, timers, left, presses>>

\* activate of the card: the token is stored, then the kiosk is shown.
ActivationDone(i) ==
  /\ slot[i].kind = "activate"
  /\ Ended(i)
  /\ card' = FALSE
  /\ IF slot[i].net = Failed
     THEN UNCHANGED <<store, kiosk, screen, timers>>
     ELSE /\ store' = slot[i].token /\ kiosk' = slot[i].token
          /\ IF kiosk = None THEN screen' = Blank /\ timers' = 0
                             ELSE UNCHANGED <<screen, timers>>
  /\ UNCHANGED <<server, session, left, presses, doubled>>

Return(i) ==
  /\ slot[i] # None /\ slot[i].net # Sent
  /\ \/ VerifyDone(i) \/ UploadDone(i) \/ ActionDone(i)
     \/ RevokeDone(i) \/ LogoutDone(i) \/ ActivationDone(i)

-----------------------------------------------------------------------------
(* The supervisor's screens and the app as a whole. *)

SignIn ==
  /\ kiosk = None /\ ~session
  /\ session' = TRUE
  /\ UNCHANGED <<server, store, kiosk, card, screen, timers, slot, left, presses, doubled>>

\* For a mutant: the button of the card is not disabled while it saves.
MayActivateAgain == kiosk = None /\ session
MayActivate == kiosk = None /\ session /\ ~card

Activate(i) ==
  /\ MayActivate /\ device.token < MaxTokens
  /\ Ask(i, [kind |-> "activate", employee |-> None, pin |-> None, typedFor |-> None,
             action |-> None, of |-> None, token |-> None, home |-> "shown",
             state |-> None, net |-> Sent])
  /\ card' = TRUE
  /\ UNCHANGED <<server, store, kiosk, session, screen, timers, left, doubled>>

\* Root loads the roles again when the access token is renewed, and builds its screens anew.
Remount ==
  /\ session
  /\ CardTakenDown /\ screen' = Blank /\ timers' = 0
  /\ slot' = Unmounted(slot)
  /\ UNCHANGED <<server, store, kiosk, session, presses, left>>

\* The phone ends the app, which starts again with what SecureStore holds: the token and the
\* session.  A request that changes something and was sent may still be served.
Killed(c) ==
  IF c # None /\ c.net = Sent /\ c.kind \in {"action", "activate", "revoke"}
  THEN [c EXCEPT !.home = "killed"] ELSE None
Restart ==
  /\ kiosk' = store
  /\ CardTakenDown /\ screen' = Blank /\ timers' = 0
  /\ slot' = [i \in Slots |-> Killed(slot[i])]
  /\ UNCHANGED <<server, store, session, presses, left>>

-----------------------------------------------------------------------------
Init ==
  /\ \/ kiosk = None /\ device = [status |-> "NONE", token |-> 0]
     \/ kiosk = 1 /\ device = [status |-> "ACTIVE", token |-> 1]
  /\ \E p \in Pins : pinHash = [e \in Employees |-> IF e \in HasPIN THEN p ELSE None]
  /\ state = [e \in Employees |-> "NOT_STARTED"]
  /\ history = [e \in Employees |-> <<>>]
  /\ store = kiosk /\ session = TRUE /\ card = FALSE
  /\ screen = Blank /\ timers = 0
  /\ slot = [i \in Slots |-> None]
  /\ presses = 0 /\ left = "not left" /\ doubled = FALSE

Next ==
  \/ \E e \in Employees : ResetPIN(e) \/ OwnPhone(e) \/ Choose(e)
  \/ \E p \in Pins : EnterPIN(p)
  \/ \E i \in Slots : Serve(i) \/ Return(i) \/ VerifyPIN(i) \/ SubmitAttendance(i)
                        \/ ExitSignedIn(i) \/ Activate(i)
  \/ Load \/ Back \/ ExitSignedOut \/ FireTimer
  \/ SignIn \/ Remount \/ Restart

Spec == Init /\ [][Next]_vars

-----------------------------------------------------------------------------
(* Properties. *)

\* A PIN is sent with the employee it was typed for and with no other, whoever is selected
\* when an answer comes, however the screen was left, and whichever handlers are under way.
PinStaysWithItsEmployee ==
  /\ screen.pin # None => screen.typedFor = screen.selected
  /\ \A i \in Slots :
       slot[i] # None /\ slot[i].pin # None => slot[i].typedFor = slot[i].employee

\* An action of an employee is not recorded twice in a row: an employee whose answer was lost,
\* who presses again, or who also uses a phone of his own, is recorded once.
NothingRecordedTwice ==
  \A e \in Employees : \A n \in 1..(Len(history[e]) - 1) : history[e][n] # history[e][n + 1]

\* A kiosk left by a supervisor who was signed in opens nothing any more until it is activated
\* again: exitKiosk revokes before it forgets the token.  The exception, here and in the next
\* property, are two activations or two exits that overlapped: the card was taken down while it
\* saved (a renewed session, a logout, a restart), or an exit was pressed while one was under way.
LeftKioskIsRevoked == left = "signed in" /\ ~doubled => device.status = "REVOKED"

\* The token the phone keeps is the one the server knows, also after lost answers of earlier
\* activations and revocations.
KeptTokenIsCurrent == store # None /\ ~doubled => store = device.token

\* backend/README.md: the status is read by the membership of the employee, not by the phone.
\* The screen offers an action only with the status of the employee it names.
StatusIsOfTheSelected ==
  screen.phase = "ACTION" => screen.selected # None /\ screen.status.of = screen.selected
=============================================================================
