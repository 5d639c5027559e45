----------------------------- MODULE KioskProofs -----------------------------
(***************************************************************************)
(* Theorems about Kiosk, for any employees and PINs, any number of         *)
(* handlers under way, and any bounds on presses, events and activations.  *)
(***************************************************************************)
EXTENDS Kiosk, SequenceTheorems, TLAPS

-----------------------------------------------------------------------------
(* The inductive invariant *)

Is(i, kind) == slot[i] # None /\ slot[i].kind = kind

\* What a press of a handler keeps is complete for what the server does with it.
Pressed ==
  \A i \in Slots : slot[i] # None =>
    /\ slot[i].kind \in {"verify", "upload", "action"} => slot[i].employee \in Employees
    /\ slot[i].kind \in {"upload", "action"} => slot[i].action \in KioskActions
    /\ slot[i].kind = "verify" /\ slot[i].net = Done => slot[i].state \in States

\* The state of an employee is the one his last event left.
LastRecorded ==
  \A e \in Employees :
    state[e] = IF history[e] = <<>> THEN "NOT_STARTED"
               ELSE StateAfter(e, history[e][Len(history[e])])

\* The kiosk that is shown is the one whose token the phone keeps.
TokenShown == kiosk = store

\* One activation, while there is no token, or one revocation, while there is one; and an answer
\* that says done is still true when it arrives.
OneTransfer ==
  ~doubled =>
    /\ \A i \in Slots : Is(i, "activate") => card /\ store = None
    /\ \A i \in Slots : Is(i, "revoke") => store # None
    /\ \A i, j \in Slots : Is(i, "activate") /\ Is(j, "activate") => i = j
    /\ \A i, j \in Slots : Is(i, "revoke") /\ Is(j, "revoke") => i = j
    /\ \A i \in Slots : Is(i, "activate") /\ slot[i].net = Done => slot[i].token = device.token
    /\ \A i \in Slots : Is(i, "revoke") /\ slot[i].net = Done => device.status = "REVOKED"

TokenInv == TokenShown /\ OneTransfer /\ LeftKioskIsRevoked /\ KeptTokenIsCurrent

-----------------------------------------------------------------------------
(* Handlers and the screen they stand on *)

MaybeCall == Call \cup {None}

\* d keeps what c was pressed with.
Keeps(d, c) ==
  /\ d.kind = c.kind /\ d.pin = c.pin /\ d.typedFor = c.typedFor
  /\ d.employee = c.employee /\ d.action = c.action

\* The handler d is what became of c, or of no other: a handler may end, and its home may go.
Remains(d, c) ==
  d # None =>
    c # None /\ Keeps(d, c) /\ d.net = c.net /\ d.token = c.token /\ d.state = c.state

\* Of the other slots there only remains what there was.
OnlySlot(i) == \A j \in Slots : j # i => Remains(slot'[j], slot[j])

LEMMA UnmountedFacts ==
  ASSUME NEW c \in MaybeCall
  PROVE  UnmountedCall(c) \in MaybeCall /\ Remains(UnmountedCall(c), c)
<1>1. CASE c = None \/ c.kind = "verify" BY <1>1 DEF UnmountedCall, MaybeCall, Remains
<1>2. CASE ~(c = None \/ c.kind = "verify")
  <2>1. c \in Call BY <1>2 DEF MaybeCall
  <2> DEFINE d == [c EXCEPT !.home = "left"]
  <2>2. d \in Call /\ Keeps(d, c) /\ d.net = c.net /\ d.token = c.token /\ d.state = c.state
    BY <2>1 DEF Call, Homes, Keeps
  <2>3. Keeps(c, c) BY DEF Keeps
  <2> HIDE DEF d
  <2>4. UnmountedCall(c) \in {c, d} BY <1>2 DEF UnmountedCall, d
  <2> QED BY <1>2, <2>1, <2>2, <2>3, <2>4 DEF MaybeCall, Remains
<1> QED BY <1>1, <1>2

LEMMA KilledFacts ==
  ASSUME NEW c \in MaybeCall
  PROVE  Killed(c) \in MaybeCall /\ Remains(Killed(c), c)
<1> DEFINE d == [c EXCEPT !.home = "killed"]
<1>1. CASE Killed(c) = None BY <1>1 DEF MaybeCall, Remains
<1>2. CASE Killed(c) # None
  <2>1. c \in Call /\ Killed(c) = d BY <1>2 DEF Killed, MaybeCall
  <2>2. d \in Call /\ Keeps(d, c) /\ d.net = c.net /\ d.token = c.token /\ d.state = c.state
    BY <2>1 DEF Call, Homes, Keeps
  <2>3. c # None BY <1>2 DEF Killed
  <2> HIDE DEF d
  <2> QED BY <2>1, <2>2, <2>3 DEF MaybeCall, Remains
<1> QED BY <1>1, <1>2

LEMMA AllUnmounted ==
  ASSUME TypeOK
  PROVE  /\ Unmounted(slot) \in [Slots -> MaybeCall]
         /\ \A i \in Slots : Remains(Unmounted(slot)[i], slot[i])
BY UnmountedFacts DEF TypeOK, Unmounted, MaybeCall

LEMMA ScreenTypes ==
  ASSUME TypeOK
  PROVE  /\ Blank \in Screen /\ Reset(screen) \in Screen /\ Succeeded(screen) \in Screen
         /\ [screen EXCEPT !.saving = FALSE] \in Screen
         /\ [screen EXCEPT !.saving = TRUE] \in Screen
         /\ \A e \in Employees : Chosen(screen, e) \in Screen
         /\ \A p \in Pins : [screen EXCEPT !.pin = p, !.typedFor = screen.selected] \in Screen
         /\ \A st \in Status : [screen EXCEPT !.status = st, !.phase = "ACTION",
                                              !.saving = FALSE] \in Screen
         /\ \A es \in SUBSET Employees : [screen EXCEPT !.context = es] \in Screen
BY DEF TypeOK, Screen, Blank, Reset, Succeeded, Chosen, Phases

LEMMA KeptType ==
  ASSUME TypeOK, NEW kind \in Kinds
  PROVE  /\ Kept(kind) \in Call /\ Kept(kind).kind = kind /\ Kept(kind).net = Sent
         /\ Kept(kind).pin = screen.pin /\ Kept(kind).typedFor = screen.typedFor
         /\ Kept(kind).employee = screen.selected
BY DEF TypeOK, Kept, Call, Screen, Homes

-----------------------------------------------------------------------------
(* The server *)

\* What the server answers to a handler is a handler still, with what it was pressed with.
LEMMA AnsweredFacts ==
  ASSUME TypeOK, NEW i \in Slots, slot[i] # None, NEW answer \in Call, Answered(i, answer),
         Keeps(answer, slot[i])
  PROVE  /\ slot' \in [Slots -> MaybeCall] /\ OnlySlot(i)
         /\ slot'[i] # None =>
              /\ slot'[i] = answer \/ slot'[i].net = Failed
              /\ Keeps(slot'[i], slot[i])
<1>1. slot[i] \in Call /\ slot \in [Slots -> MaybeCall] BY DEF TypeOK, MaybeCall
<1> DEFINE failed == [slot[i] EXCEPT !.net = Failed]
<1>2. failed \in Call /\ failed.net = Failed /\ Keeps(failed, slot[i])
  BY <1>1 DEF Call, Keeps
<1>3. PICK c \in {answer, failed} :
        slot' = [slot EXCEPT ![i] = IF slot[i].home = "killed" THEN None ELSE c]
  BY <1>1 DEF Answered
<1> HIDE DEF failed
<1>4. slot'[i] = IF slot[i].home = "killed" THEN None ELSE c BY <1>1, <1>3
<1>5. \A j \in Slots : j # i => slot'[j] = slot[j] BY <1>1, <1>3
<1>6. slot' \in [Slots -> MaybeCall] BY <1>1, <1>2, <1>3 DEF MaybeCall
<1>7. \A j \in Slots : Keeps(slot[j], slot[j]) BY DEF Keeps
<1> QED BY <1>2, <1>4, <1>5, <1>6, <1>7 DEF OnlySlot, Remains

\* What a device row may hold.
Devices == [status: {"ACTIVE", "REVOKED", "NONE"}, token: 0..MaxTokens]

LEMMA RecordedType ==
  ASSUME TypeOK, NEW e \in Employees, NEW a \in Actions, Recorded(e, a)
  PROVE  state' \in [Employees -> States] /\ history' \in [Employees -> Seq(Actions)]
<1>1. StateAfter(e, a) \in States BY DEF StateAfter, States, Actions
<1>2. Append(history[e], a) \in Seq(Actions) BY AppendProperties DEF TypeOK
<1> QED BY <1>1, <1>2 DEF Recorded, TypeOK

\* The server changes the row of the device by a revocation or an activation only.
DeviceStep(i) ==
  \/ device' = device
  \/ slot[i].kind = "revoke" /\ device' = [device EXCEPT !.status = "REVOKED"]
  \/ /\ slot[i].kind = "activate" /\ left' = "not left"
     /\ device' = [status |-> "ACTIVE", token |-> device.token + 1]

\* An answer that says done is true when it leaves.
TrueAnswer(i) ==
  slot'[i] # None /\ slot'[i].net = Done =>
    /\ slot'[i].kind = "verify" => slot'[i].state \in States
    /\ slot'[i].kind = "revoke" => device'.status = "REVOKED"
    /\ slot'[i].kind = "activate" => slot'[i].token = device'.token

Recording == \E e \in Employees, a \in Actions : Recorded(e, a)

LEMMA ServeFacts ==
  ASSUME TypeOK, Pressed, NEW i \in Slots, Serve(i)
  PROVE  /\ slot' \in [Slots -> MaybeCall] /\ OnlySlot(i)
         /\ slot[i] # None
         /\ slot'[i] # None => Keeps(slot'[i], slot[i])
         /\ TrueAnswer(i) /\ DeviceStep(i)
         /\ device' \in Devices
         /\ state' \in [Employees -> States] /\ history' \in [Employees -> Seq(Actions)]
         /\ left' = left \/ left' = "not left"
         /\ pinHash' = pinHash
         /\ UNCHANGED <<state, history>> \/ Recording
<1> USE DEF server
<1>1. slot[i] # None /\ slot[i] \in Call BY DEF Serve, TypeOK
<1>2. /\ device \in Devices /\ state \in [Employees -> States]
      /\ history \in [Employees -> Seq(Actions)]
  BY DEF TypeOK, Devices
<1> DEFINE failed == [slot[i] EXCEPT !.net = Failed]
           done == [slot[i] EXCEPT !.net = Done]
<1>3. /\ failed \in Call /\ Keeps(failed, slot[i]) /\ failed.net = Failed
      /\ done \in Call /\ Keeps(done, slot[i]) /\ done.net = Done
  BY <1>1 DEF Call, Keeps
<1>4. CASE RefusedOrLost(i)
  <2>1. Answered(i, failed) BY <1>4 DEF RefusedOrLost
  <2>2. UNCHANGED <<device, pinHash, state, history, left>> BY <1>4 DEF RefusedOrLost
  <2> HIDE DEF failed
  <2> QED BY <1>1, <1>2, <1>3, <2>1, <2>2, AnsweredFacts, AnswersDiffer DEF TrueAnswer, DeviceStep
<1>5. CASE ServeStatus(i)
  <2> DEFINE answer == [slot[i] EXCEPT !.net = Done, !.state = state[slot[i].employee]]
  <2>1. slot[i].kind = "verify" /\ Answered(i, answer)
        /\ UNCHANGED <<device, pinHash, state, history, left>>
    BY <1>5 DEF ServeStatus
  <2>2. slot[i].employee \in Employees BY <1>1, <2>1 DEF Pressed
  <2>3. state[slot[i].employee] \in States BY <1>2, <2>2
  <2>4. answer \in Call /\ Keeps(answer, slot[i]) /\ answer.state \in States
    BY <1>1, <2>3 DEF Call, Keeps
  <2> HIDE DEF answer
  <2>5. slot'[i] # None => slot'[i].kind = "verify"
    BY <1>1, <2>1, <2>4, AnsweredFacts DEF Keeps
  <2> QED BY <1>1, <1>2, <2>1, <2>4, <2>5, AnsweredFacts, AnswersDiffer DEF TrueAnswer, DeviceStep
<1>6. CASE ServeSelfie(i)
  <2>1. slot[i].kind = "upload" /\ Answered(i, done)
        /\ UNCHANGED <<device, pinHash, state, history, left>>
    BY <1>6 DEF ServeSelfie, Accepted
  <2> HIDE DEF done
  <2>2. slot'[i] # None => slot'[i].kind = "upload"
    BY <1>1, <1>3, <2>1, AnsweredFacts DEF Keeps
  <2> QED BY <1>1, <1>2, <1>3, <2>1, <2>2, AnsweredFacts DEF TrueAnswer, DeviceStep
<1>7. CASE ServeAction(i)
  <2>1. /\ slot[i].kind = "action" /\ Answered(i, done)
        /\ Recorded(slot[i].employee, slot[i].action)
        /\ UNCHANGED <<device, pinHash, left>>
    BY <1>7 DEF ServeAction, Accepted
  <2>2. slot[i].employee \in Employees /\ slot[i].action \in Actions
    BY <1>1, <2>1 DEF Pressed, KioskActions, Actions
  <2> HIDE DEF done
  <2>3. slot'[i] # None => slot'[i].kind = "action"
    BY <1>1, <1>3, <2>1, AnsweredFacts DEF Keeps
  <2>4. Recording BY <2>1, <2>2 DEF Recording
  <2>5. state' \in [Employees -> States] /\ history' \in [Employees -> Seq(Actions)]
    BY <2>1, <2>2, RecordedType
  <2> QED BY <1>1, <1>2, <1>3, <2>1, <2>3, <2>4, <2>5, AnsweredFacts DEF TrueAnswer, DeviceStep
<1>8. CASE ServeActivation(i)
  <2> DEFINE answer == [slot[i] EXCEPT !.net = Done, !.token = device'.token]
  <2>1. /\ slot[i].kind = "activate" /\ Answered(i, answer) /\ device.token < MaxTokens
        /\ device' = [status |-> "ACTIVE", token |-> device.token + 1]
        /\ left' = "not left"
        /\ UNCHANGED <<pinHash, state, history>>
    BY <1>8 DEF ServeActivation
  <2>2. device'.token \in 1..MaxTokens /\ device' \in Devices
    <3>1. device.token \in 0..MaxTokens /\ MaxTokens \in Nat BY <1>2, BoundsAreNat DEF Devices
    <3>2. device.token + 1 \in 1..MaxTokens /\ device.token + 1 \in 0..MaxTokens
      <4>1. device.token < MaxTokens BY <2>1
      <4>2. \A n \in 0..MaxTokens : n < MaxTokens => n + 1 \in 1..MaxTokens /\ n + 1 \in 0..MaxTokens
        BY <3>1
      <4> QED BY <3>1, <4>1, <4>2
    <3>3. device'.token = device.token + 1 /\ device'.status = "ACTIVE" BY <2>1
    <3>4. \A n \in 0..MaxTokens : [status |-> "ACTIVE", token |-> n] \in Devices BY DEF Devices
    <3> HIDE DEF Devices, answer
    <3>5. device' \in Devices BY <2>1, <3>2, <3>4
    <3> QED BY <3>2, <3>3, <3>5
  <2>3. answer \in Call /\ Keeps(answer, slot[i]) /\ answer.token = device'.token
    BY <1>1, <2>2 DEF Call, Keeps, Tokens
  <2> HIDE DEF answer
  <2>4. slot'[i] # None => slot'[i].kind = "activate"
    BY <1>1, <2>1, <2>3, AnsweredFacts DEF Keeps
  <2> QED BY <1>1, <1>2, <2>1, <2>2, <2>3, <2>4, AnsweredFacts, AnswersDiffer
          DEF TrueAnswer, DeviceStep
<1>9. CASE ServeRevocation(i)
  <2>1. /\ slot[i].kind = "revoke" /\ Answered(i, done)
        /\ device' = [device EXCEPT !.status = "REVOKED"]
        /\ UNCHANGED <<pinHash, state, history, left>>
    BY <1>9 DEF ServeRevocation, Accepted
  <2>2. device' \in Devices /\ device'.status = "REVOKED" BY <1>2, <2>1 DEF Devices
  <2> HIDE DEF done
  <2>3. slot'[i] # None => slot'[i].kind = "revoke"
    BY <1>1, <1>3, <2>1, AnsweredFacts DEF Keeps
  <2> QED BY <1>1, <1>2, <1>3, <2>1, <2>2, <2>3, AnsweredFacts DEF TrueAnswer, DeviceStep
<1> QED BY <1>4, <1>5, <1>6, <1>7, <1>8, <1>9 DEF Serve

-----------------------------------------------------------------------------
(* Types, and the PIN with its employee *)

ScreenFine(s) == s \in Screen /\ (s.pin # None => s.typedFor = s.selected)

CallFine(c) ==
  /\ c \in Call
  /\ c.pin # None => c.typedFor = c.employee
  /\ c.kind \in {"verify", "upload", "action"} => c.employee \in Employees
  /\ c.kind \in {"upload", "action"} => c.action \in KioskActions
  /\ c.kind = "verify" /\ c.net = Done => c.state \in States

SlotsFine(calls) ==
  calls \in [Slots -> MaybeCall] /\ \A i \in Slots : calls[i] # None => CallFine(calls[i])

\* The part of the invariant about each handler and the screen alone.
Local == TypeOK /\ Pressed /\ PinStaysWithItsEmployee

LEMMA LocalFine ==
  ASSUME Local
  PROVE  ScreenFine(screen) /\ SlotsFine(slot)
BY DEF Local, TypeOK, Pressed, PinStaysWithItsEmployee, ScreenFine, SlotsFine, CallFine, MaybeCall

LEMMA FineLocal ==
  ASSUME TypeOK, Pressed, PinStaysWithItsEmployee, ScreenFine(screen'), SlotsFine(slot'),
         pinHash' \in [Employees -> Pins \cup {None}],
         device' \in Devices, state' \in [Employees -> States],
         history' \in [Employees -> Seq(Actions)],
         store' \in Tokens \cup {None}, kiosk' \in Tokens \cup {None},
         session' \in BOOLEAN, card' \in BOOLEAN, timers' \in Nat, presses' \in 0..MaxPresses,
         left' \in {"signed in", "signed out", "not left"}, doubled' \in BOOLEAN
  PROVE  Local'
<1>1. TypeOK' BY DEF TypeOK, ScreenFine, SlotsFine, MaybeCall, Devices
<1>2. Pressed' BY DEF Pressed, SlotsFine, CallFine
<1>3. PinStaysWithItsEmployee' BY DEF PinStaysWithItsEmployee, SlotsFine, CallFine, ScreenFine
<1> QED BY <1>1, <1>2, <1>3 DEF Local

LEMMA ScreensFine ==
  ASSUME Local
  PROVE  /\ ScreenFine(Blank) /\ ScreenFine(Reset(screen)) /\ ScreenFine(Succeeded(screen))
         /\ ScreenFine([screen EXCEPT !.saving = FALSE])
         /\ ScreenFine([screen EXCEPT !.saving = TRUE])
         /\ \A e \in Employees : ScreenFine(Chosen(screen, e))
         /\ \A p \in Pins : ScreenFine([screen EXCEPT !.pin = p, !.typedFor = screen.selected])
         /\ \A st \in Status : ScreenFine([screen EXCEPT !.status = st, !.phase = "ACTION",
                                                         !.saving = FALSE])
         /\ \A es \in SUBSET Employees : ScreenFine([screen EXCEPT !.context = es])
<1>1. screen \in Screen /\ (screen.pin # None => screen.typedFor = screen.selected) /\ TypeOK
  BY LocalFine DEF Local, ScreenFine
<1>2. ScreenFine(Blank) /\ ScreenFine(Reset(screen)) /\ ScreenFine(Succeeded(screen))
  BY <1>1, ScreenTypes DEF ScreenFine, Screen, Blank, Reset, Succeeded
<1>3. /\ ScreenFine([screen EXCEPT !.saving = FALSE])
      /\ ScreenFine([screen EXCEPT !.saving = TRUE])
  BY <1>1, ScreenTypes DEF ScreenFine, Screen
<1>4. \A e \in Employees : ScreenFine(Chosen(screen, e))
  BY <1>1, ScreenTypes DEF ScreenFine, Screen, Chosen
<1>5. \A p \in Pins : ScreenFine([screen EXCEPT !.pin = p, !.typedFor = screen.selected])
  BY <1>1, ScreenTypes DEF ScreenFine, Screen
<1>6. \A st \in Status : ScreenFine([screen EXCEPT !.status = st, !.phase = "ACTION",
                                                   !.saving = FALSE])
  BY <1>1, ScreenTypes DEF ScreenFine, Screen
<1>7. \A es \in SUBSET Employees : ScreenFine([screen EXCEPT !.context = es])
  BY <1>1, ScreenTypes DEF ScreenFine, Screen
<1> QED BY <1>2, <1>3, <1>4, <1>5, <1>6, <1>7

\* A handler that only remains is as fine as it was.
LEMMA RemainsFine ==
  ASSUME NEW d \in Call, NEW c, CallFine(c), Keeps(d, c), d.net = c.net, d.state = c.state
  PROVE  CallFine(d)
BY DEF CallFine, Keeps

LEMMA SlotsRemain ==
  ASSUME SlotsFine(slot), NEW calls \in [Slots -> MaybeCall],
         \A j \in Slots : Remains(calls[j], slot[j])
  PROVE  SlotsFine(calls)
BY RemainsFine DEF SlotsFine, Remains, MaybeCall

LEMMA OneSlot ==
  ASSUME SlotsFine(slot), slot' \in [Slots -> MaybeCall], NEW i \in Slots, OnlySlot(i),
         slot'[i] # None => CallFine(slot'[i])
  PROVE  SlotsFine(slot')
BY RemainsFine DEF SlotsFine, OnlySlot, Remains, MaybeCall

LEMMA AskFacts ==
  ASSUME TypeOK, NEW i \in Slots, NEW call \in Call, Ask(i, call)
  PROVE  /\ slot' \in [Slots -> MaybeCall] /\ OnlySlot(i)
         /\ slot[i] = None /\ slot'[i] = call
         /\ presses' \in 0..MaxPresses
<1>1. slot \in [Slots -> MaybeCall] /\ slot' = [slot EXCEPT ![i] = call] /\ slot[i] = None
  BY DEF TypeOK, MaybeCall, Ask
<1>2. slot' \in [Slots -> MaybeCall] /\ slot'[i] = call
      /\ \A j \in Slots : j # i => slot'[j] = slot[j]
  BY <1>1 DEF MaybeCall
<1>3. presses' \in 0..MaxPresses
  <2>1. presses \in 0..MaxPresses BY DEF TypeOK
  <2>2. presses < MaxPresses /\ presses' = presses + 1 BY DEF Ask
  <2> QED BY <2>1, <2>2, BoundsAreNat
<1>4. \A j \in Slots : Keeps(slot[j], slot[j]) BY DEF Keeps
<1> QED BY <1>1, <1>2, <1>3, <1>4 DEF OnlySlot, Remains

LEMMA EndedFacts ==
  ASSUME TypeOK, NEW i \in Slots, Ended(i)
  PROVE  /\ slot' \in [Slots -> MaybeCall] /\ slot'[i] = None
         /\ \A j \in Slots : Remains(slot'[j], slot[j])
<1>1. slot \in [Slots -> MaybeCall] /\ slot' = [slot EXCEPT ![i] = None]
  BY DEF TypeOK, MaybeCall, Ended
<1>2. slot' \in [Slots -> MaybeCall] /\ slot'[i] = None
      /\ \A j \in Slots : j # i => slot'[j] = slot[j]
  BY <1>1 DEF MaybeCall
<1>3. \A j \in Slots : Keeps(slot[j], slot[j]) BY DEF Keeps
<1> QED BY <1>1, <1>2, <1>3 DEF Remains

\* What the handlers of the phone leave of the types.
PhoneFine ==
  /\ store \in Tokens \cup {None} /\ kiosk \in Tokens \cup {None}
  /\ session \in BOOLEAN /\ card \in BOOLEAN /\ doubled \in BOOLEAN
  /\ timers \in Nat /\ presses \in 0..MaxPresses
  /\ left \in {"signed in", "signed out", "not left"}

LEMMA LocalPhone ==
  ASSUME Local
  PROVE  PhoneFine
BY DEF Local, TypeOK, PhoneFine

LEMMA PhoneLocal ==
  ASSUME Local, UNCHANGED server, PhoneFine', ScreenFine(screen'), SlotsFine(slot')
  PROVE  Local'
<1>1. UNCHANGED <<device, pinHash, state, history>> BY DEF server
<1>2. /\ pinHash \in [Employees -> Pins \cup {None}] /\ device \in Devices
      /\ state \in [Employees -> States] /\ history \in [Employees -> Seq(Actions)]
  BY DEF Local, TypeOK, Devices
<1>3. Local => TypeOK /\ Pressed /\ PinStaysWithItsEmployee BY DEF Local
<1>4. /\ store' \in Tokens \cup {None} /\ kiosk' \in Tokens \cup {None}
      /\ session' \in BOOLEAN /\ card' \in BOOLEAN /\ doubled' \in BOOLEAN
      /\ timers' \in Nat /\ presses' \in 0..MaxPresses
      /\ left' \in {"signed in", "signed out", "not left"}
  BY DEF PhoneFine
<1> QED BY <1>1, <1>2, <1>3, <1>4, FineLocal

-----------------------------------------------------------------------------
(* The token *)

\* No activation or revocation begins, and none that there is changes.
TransfersRemain ==
  \A j \in Slots : slot'[j] # None /\ slot'[j].kind \in {"activate", "revoke"} =>
    /\ slot[j] # None /\ slot[j].kind = slot'[j].kind
    /\ slot[j].net = slot'[j].net /\ slot[j].token = slot'[j].token

LEMMA TokenFollows ==
  ASSUME TokenInv, TransfersRemain, UNCHANGED <<device, store, left>>, kiosk' = store',
         ~doubled' => ~doubled /\ (card => card')
  PROVE  TokenInv'
<1>1. TokenShown' BY DEF TokenShown
<1>2. LeftKioskIsRevoked' /\ KeptTokenIsCurrent'
  BY DEF TokenInv, LeftKioskIsRevoked, KeptTokenIsCurrent
<1>3. OneTransfer'
  <2> SUFFICES ASSUME ~doubled' PROVE OneTransfer' BY DEF OneTransfer
  <2>1. \A j \in Slots, kind \in {"activate", "revoke"} : Is(j, kind)' =>
          Is(j, kind) /\ slot[j].net = slot'[j].net /\ slot[j].token = slot'[j].token
    BY DEF TransfersRemain, Is
  <2> QED BY <2>1 DEF TokenInv, OneTransfer
<1> QED BY <1>1, <1>2, <1>3 DEF TokenInv

LEMMA RemainTransfers ==
  ASSUME \A j \in Slots : Remains(slot'[j], slot[j])
  PROVE  TransfersRemain
BY DEF Remains, TransfersRemain, Keeps

LEMMA OneRemainsTransfers ==
  ASSUME NEW i \in Slots, OnlySlot(i),
         slot'[i] # None => slot'[i].kind \notin {"activate", "revoke"}
  PROVE  TransfersRemain
BY DEF OnlySlot, Remains, TransfersRemain, Keeps

-----------------------------------------------------------------------------
(* Each step *)

Inv == Local /\ TokenInv

\* What leaves the token and the handlers alone.
LEMMA TokenSame ==
  ASSUME TokenInv, UNCHANGED <<device, slot, phone, left, doubled>>
  PROVE  TokenInv'
<1>1. TransfersRemain BY DEF TransfersRemain
<1> QED BY <1>1, TokenFollows DEF phone, TokenInv, TokenShown

LEMMA ScreenStep ==
  ASSUME Inv, UNCHANGED <<server, phone, slot, left, presses, doubled>>, ScreenFine(screen'),
         timers' \in Nat
  PROVE  Inv'
<1>1. UNCHANGED <<server, device, slot, phone, left, doubled, presses>> BY DEF server
<1>2. SlotsFine(slot') BY <1>1, LocalFine DEF Inv
<1>3. PhoneFine' BY <1>1, LocalPhone DEF Inv, PhoneFine, phone
<1>4. Local' BY <1>1, <1>2, <1>3, PhoneLocal DEF Inv
<1>5. TokenInv' BY <1>1, TokenSame DEF Inv
<1> QED BY <1>4, <1>5 DEF Inv

LEMMA ScreenSteps ==
  ASSUME Inv,
         \/ \E e \in Employees : Choose(e)
         \/ \E p \in Pins : EnterPIN(p)
         \/ Load \/ Back \/ FireTimer
  PROVE  Inv'
<1>1. Local /\ timers \in Nat BY LocalPhone DEF Inv, PhoneFine
<1>2. CASE \E e \in Employees : Choose(e)
  <2>1. PICK e \in Employees : Choose(e) BY <1>2
  <2>2. ScreenFine(screen') /\ timers' \in Nat BY <1>1, <2>1, ScreensFine DEF Choose
  <2> QED BY <2>1, <2>2, ScreenStep DEF Choose
<1>3. CASE \E p \in Pins : EnterPIN(p)
  <2>1. PICK p \in Pins : EnterPIN(p) BY <1>3
  <2>2. ScreenFine(screen') /\ timers' \in Nat BY <1>1, <2>1, ScreensFine DEF EnterPIN
  <2> QED BY <2>1, <2>2, ScreenStep DEF EnterPIN
<1>4. CASE Load
  <2>1. ScreenFine(screen') /\ timers' \in Nat BY <1>1, <1>4, ScreensFine DEF Load
  <2> QED BY <1>4, <2>1, ScreenStep DEF Load
<1>5. CASE Back
  <2>1. ScreenFine(screen') /\ timers' \in Nat BY <1>1, <1>5, ScreensFine DEF Back
  <2> QED BY <1>5, <2>1, ScreenStep DEF Back
<1>6. CASE FireTimer
  <2>1. timers' \in Nat BY <1>1, <1>6 DEF FireTimer
  <2>2. ScreenFine(screen') BY <1>1, <1>6, ScreensFine DEF FireTimer
  <2> QED BY <1>6, <2>1, <2>2, ScreenStep DEF FireTimer
<1> QED BY <1>2, <1>3, <1>4, <1>5, <1>6

LEMMA ElsewhereStep ==
  ASSUME Inv, \/ \E e \in Employees : ResetPIN(e) \/ OwnPhone(e)
              \/ SignIn
  PROVE  Inv'
<1>1. ScreenFine(screen) /\ SlotsFine(slot) /\ PhoneFine BY LocalFine, LocalPhone DEF Inv
<1>2. /\ pinHash \in [Employees -> Pins \cup {None}] /\ device \in Devices
      /\ state \in [Employees -> States] /\ history \in [Employees -> Seq(Actions)]
      /\ TypeOK /\ Pressed /\ PinStaysWithItsEmployee
  BY DEF Inv, Local, TypeOK, Devices
<1>3. CASE \E e \in Employees : ResetPIN(e)
  <2>1. PICK e \in Employees : ResetPIN(e) BY <1>3
  <2>2. UNCHANGED <<device, state, history, phone, screen, timers, slot, left, presses, doubled>>
    BY <2>1 DEF ResetPIN
  <2>3. pinHash' \in [Employees -> Pins \cup {None}] BY <1>2, <2>1 DEF ResetPIN, PINGiven
  <2>4. Local' BY <1>1, <1>2, <2>2, <2>3, FineLocal DEF phone, PhoneFine
  <2>5. TokenInv' BY <2>2, TokenSame DEF Inv
  <2> QED BY <2>4, <2>5 DEF Inv
<1>4. CASE \E e \in Employees : OwnPhone(e)
  <2>1. PICK e \in Employees, a \in Actions : OwnPhone(e) /\ Recorded(e, a)
    BY <1>4 DEF OwnPhone
  <2>2. UNCHANGED <<device, pinHash, phone, screen, timers, slot, left, presses, doubled>>
    BY <2>1 DEF OwnPhone
  <2>3. state' \in [Employees -> States] /\ history' \in [Employees -> Seq(Actions)]
    BY <1>2, <2>1, RecordedType
  <2>4. Local' BY <1>1, <1>2, <2>2, <2>3, FineLocal DEF phone, PhoneFine
  <2>5. TokenInv' BY <2>2, TokenSame DEF Inv
  <2> QED BY <2>4, <2>5 DEF Inv
<1>5. CASE SignIn
  <2>1. /\ session' = TRUE
        /\ UNCHANGED <<server, store, kiosk, card, screen, timers, slot, left, presses, doubled>>
    BY <1>5 DEF SignIn
  <2>2. PhoneFine' BY <1>1, <2>1 DEF PhoneFine
  <2>3. Local' BY <1>1, <2>1, <2>2, PhoneLocal DEF Inv
  <2>4. TransfersRemain BY <2>1 DEF TransfersRemain
  <2>5. TokenInv' BY <2>1, <2>4, TokenFollows DEF Inv, server, TokenInv, TokenShown
  <2> QED BY <2>3, <2>5 DEF Inv
<1> QED BY <1>3, <1>4, <1>5

LEMMA ServeStep ==
  ASSUME Inv, NEW i \in Slots, Serve(i)
  PROVE  Inv'
<1>1. /\ TypeOK /\ Pressed /\ PinStaysWithItsEmployee
      /\ ScreenFine(screen) /\ SlotsFine(slot) /\ PhoneFine
  BY LocalFine, LocalPhone DEF Inv, Local
<1>2. /\ slot' \in [Slots -> MaybeCall] /\ OnlySlot(i) /\ slot[i] # None
      /\ slot'[i] # None => Keeps(slot'[i], slot[i])
      /\ TrueAnswer(i) /\ DeviceStep(i)
      /\ device' \in Devices
      /\ state' \in [Employees -> States] /\ history' \in [Employees -> Seq(Actions)]
      /\ left' = left \/ left' = "not left"
      /\ pinHash' = pinHash
  BY <1>1, ServeFacts
<1>3. UNCHANGED <<store, kiosk, session, card, screen, timers, presses, doubled>>
  BY DEF Serve, phone
<1>4. slot'[i] # None => CallFine(slot'[i])
  <2> SUFFICES ASSUME slot'[i] # None PROVE CallFine(slot'[i]) OBVIOUS
  <2>1. slot'[i] \in Call BY <1>2 DEF MaybeCall
  <2>2. CallFine(slot[i]) /\ Keeps(slot'[i], slot[i]) BY <1>1, <1>2 DEF SlotsFine
  <2>3. slot'[i].kind = "verify" /\ slot'[i].net = Done => slot'[i].state \in States
    BY <1>2 DEF TrueAnswer
  <2> QED BY <2>1, <2>2, <2>3 DEF CallFine, Keeps
<1>5. SlotsFine(slot') BY <1>1, <1>2, <1>4, OneSlot
<1>6. Local'
  BY <1>1, <1>2, <1>3, <1>5, FineLocal DEF PhoneFine, Inv, Local, TypeOK
<1>7. TokenInv'
  <2>1. TokenShown' BY <1>3 DEF Inv, TokenInv, TokenShown
  <2>2. \A j \in Slots, kind \in {"activate", "revoke"} : Is(j, kind)' => Is(j, kind)
    BY <1>2 DEF OnlySlot, Remains, Keeps, Is
  <2>3. \A j \in Slots : j # i /\ slot'[j] # None =>
          slot[j] # None /\ slot'[j].kind = slot[j].kind
            /\ slot'[j].net = slot[j].net /\ slot'[j].token = slot[j].token
    BY <1>2 DEF OnlySlot, Remains, Keeps
  <2>4. /\ ~Is(i, "activate") => device'.token = device.token
        /\ ~Is(i, "revoke") /\ ~Is(i, "activate") => device' = device
        /\ ~Is(i, "activate") /\ device.status = "REVOKED" => device'.status = "REVOKED"
        /\ Is(i, "activate") => left' = "not left" \/ device' = device
    <3>1. device \in Devices BY <1>1 DEF TypeOK, Devices
    <3>2. LET d == [device EXCEPT !.status = "REVOKED"]
          IN  d.token = device.token /\ d.status = "REVOKED"
      BY <3>1 DEF Devices
    <3> QED BY <1>2, <3>2 DEF DeviceStep, Is
  <2>5. LeftKioskIsRevoked'
    BY <1>2, <1>3, <2>4 DEF Inv, TokenInv, LeftKioskIsRevoked
  <2>6. KeptTokenIsCurrent'
    BY <1>3, <2>4 DEF Inv, TokenInv, KeptTokenIsCurrent, OneTransfer
  <2>7. OneTransfer'
    <3> SUFFICES ASSUME ~doubled' PROVE OneTransfer' BY DEF OneTransfer
    <3>1. /\ \A j \in Slots : Is(j, "activate") => card /\ store = None
          /\ \A j \in Slots : Is(j, "revoke") => store # None
          /\ \A j, k \in Slots : Is(j, "activate") /\ Is(k, "activate") => j = k
          /\ \A j, k \in Slots : Is(j, "revoke") /\ Is(k, "revoke") => j = k
          /\ \A j \in Slots : Is(j, "activate") /\ slot[j].net = Done => slot[j].token = device.token
          /\ \A j \in Slots : Is(j, "revoke") /\ slot[j].net = Done => device.status = "REVOKED"
      BY <1>3 DEF Inv, TokenInv, OneTransfer
    <3>2. \A j \in Slots : Is(j, "activate")' /\ slot'[j].net = Done =>
            slot'[j].token = device'.token
      <4> SUFFICES ASSUME NEW j \in Slots, Is(j, "activate")', slot'[j].net = Done
                   PROVE  slot'[j].token = device'.token
        OBVIOUS
      <4>1. CASE j = i BY <1>2, <4>1 DEF TrueAnswer, Is
      <4>2. CASE j # i
        <5>1. Is(j, "activate") /\ slot[j].net = Done /\ slot'[j].token = slot[j].token
          BY <4>2, <2>3 DEF Is
        <5>2. ~Is(i, "activate") BY <3>1, <4>2, <5>1
        <5> QED BY <2>4, <3>1, <5>1, <5>2
      <4> QED BY <4>1, <4>2
    <3>3. \A j \in Slots : Is(j, "revoke")' /\ slot'[j].net = Done => device'.status = "REVOKED"
      <4> SUFFICES ASSUME NEW j \in Slots, Is(j, "revoke")', slot'[j].net = Done
                   PROVE  device'.status = "REVOKED"
        OBVIOUS
      <4>1. CASE j = i BY <1>2, <4>1 DEF TrueAnswer, Is
      <4>2. CASE j # i
        <5>1. Is(j, "revoke") /\ slot[j].net = Done BY <4>2, <2>3 DEF Is
        <5>2. ~Is(i, "activate") BY <3>1, <5>1
        <5> QED BY <2>4, <3>1, <5>1, <5>2
      <4> QED BY <4>1, <4>2
    <3> QED BY <1>3, <2>2, <3>1, <3>2, <3>3 DEF OneTransfer
  <2> QED BY <2>1, <2>5, <2>6, <2>7 DEF TokenInv
<1> QED BY <1>6, <1>7 DEF Inv

LEMMA AskStep ==
  ASSUME Inv, NEW i \in Slots, VerifyPIN(i) \/ SubmitAttendance(i)
  PROVE  Inv'
<1>1. TypeOK /\ ScreenFine(screen) /\ SlotsFine(slot) /\ PhoneFine
  BY LocalFine, LocalPhone DEF Inv, Local
<1>2. /\ UNCHANGED <<server, phone, timers, left, doubled>>
      /\ screen' = [screen EXCEPT !.saving = TRUE]
      /\ screen.selected # None
  BY DEF VerifyPIN, SubmitAttendance, AtPIN, AtAction
<1>3. ScreenFine(screen') BY <1>2, ScreensFine DEF Inv
<1>4. screen.selected \in Employees /\ screen \in Screen BY <1>1, <1>2 DEF ScreenFine, Screen
<1>5. PICK call \in Call :
        Ask(i, call) /\ CallFine(call) /\ call.kind \in {"verify", "upload"}
  <2>1. CASE VerifyPIN(i)
    <3>1. Ask(i, Kept("verify")) BY <2>1 DEF VerifyPIN
    <3>2. /\ Kept("verify") \in Call /\ Kept("verify").kind = "verify"
          /\ Kept("verify").net = Sent /\ Kept("verify").pin = screen.pin
          /\ Kept("verify").typedFor = screen.typedFor
          /\ Kept("verify").employee = screen.selected
      BY <1>1, KeptType DEF Kinds
    <3>3. CallFine(Kept("verify"))
      BY <1>1, <1>4, <3>2, AnswersDiffer DEF CallFine, ScreenFine
    <3> QED BY <3>1, <3>2, <3>3
  <2>2. CASE SubmitAttendance(i)
    <3> DEFINE act == ActionForState(screen.status.state)
               call == [Kept("upload") EXCEPT !.action = act, !.of = screen.status.of]
    <3>1. Ask(i, call) /\ act # None /\ screen.status # None
      BY <2>2 DEF SubmitAttendance, AtAction
    <3>2. /\ Kept("upload") \in Call /\ Kept("upload").kind = "upload"
          /\ Kept("upload").net = Sent /\ Kept("upload").pin = screen.pin
          /\ Kept("upload").typedFor = screen.typedFor
          /\ Kept("upload").employee = screen.selected
      BY <1>1, KeptType DEF Kinds
    <3>3. screen.status \in Status BY <1>4, <3>1 DEF Screen
    <3>4. screen.status.of \in Employees BY <3>3 DEF Status
    <3>5. act \in KioskActions BY <3>1 DEF ActionForState, KioskActions
    <3> HIDE DEF act
    <3>6. /\ call \in Call /\ call.kind = "upload" /\ call.net = Sent
          /\ call.pin = screen.pin /\ call.typedFor = screen.typedFor
          /\ call.employee = screen.selected /\ call.action = act
      BY <3>2, <3>4, <3>5 DEF Call
    <3>7. CallFine(call) BY <1>1, <1>4, <3>5, <3>6 DEF CallFine, ScreenFine
    <3> QED BY <3>1, <3>6, <3>7
  <2> QED BY <2>1, <2>2
<1>6. /\ slot' \in [Slots -> MaybeCall] /\ OnlySlot(i) /\ slot'[i] = call
      /\ presses' \in 0..MaxPresses
  BY <1>1, <1>5, AskFacts
<1>7. SlotsFine(slot') BY <1>1, <1>5, <1>6, OneSlot
<1>8. PhoneFine' BY <1>1, <1>2, <1>6 DEF PhoneFine, phone
<1>9. Local' BY <1>2, <1>3, <1>7, <1>8, PhoneLocal DEF Inv
<1>10. TransfersRemain BY <1>5, <1>6, OneRemainsTransfers
<1>11. TokenInv' BY <1>2, <1>10, TokenFollows DEF Inv, TokenInv, TokenShown, phone, server
<1> QED BY <1>9, <1>11 DEF Inv

LEMMA ExitSignedInStep ==
  ASSUME Inv, NEW i \in Slots, ExitSignedIn(i)
  PROVE  Inv'
<1>1. TypeOK /\ ScreenFine(screen) /\ SlotsFine(slot) /\ PhoneFine
  BY LocalFine, LocalPhone DEF Inv, Local
<1>2. /\ UNCHANGED <<server, phone, timers, left>> /\ kiosk # None
      /\ screen' = [screen EXCEPT !.saving = TRUE]
      /\ Ask(i, Kept("revoke")) /\ doubled' = (doubled \/ UnderWay("revoke"))
  BY DEF ExitSignedIn, OnScreen
<1>3. ScreenFine(screen') BY <1>2, ScreensFine DEF Inv
<1>4. /\ Kept("revoke") \in Call /\ Kept("revoke").kind = "revoke"
      /\ Kept("revoke").net = Sent /\ Kept("revoke").pin = screen.pin
      /\ Kept("revoke").typedFor = screen.typedFor
      /\ Kept("revoke").employee = screen.selected
  BY <1>1, KeptType DEF Kinds
<1>5. CallFine(Kept("revoke")) BY <1>1, <1>4 DEF CallFine, ScreenFine
<1>6. /\ slot' \in [Slots -> MaybeCall] /\ OnlySlot(i) /\ slot'[i] = Kept("revoke")
      /\ slot[i] = None /\ presses' \in 0..MaxPresses
  BY <1>1, <1>2, <1>4, AskFacts
<1>7. SlotsFine(slot') BY <1>1, <1>5, <1>6, OneSlot
<1>8. PhoneFine' BY <1>1, <1>2, <1>6 DEF PhoneFine, phone
<1>9. Local' BY <1>2, <1>3, <1>7, <1>8, PhoneLocal DEF Inv
<1>10. TokenInv'
  <2>1. UNCHANGED <<device, store, kiosk, card, left>> BY <1>2 DEF phone, server
  <2>2. TokenShown' BY <2>1 DEF Inv, TokenInv, TokenShown
  <2>3. LeftKioskIsRevoked' /\ KeptTokenIsCurrent'
    BY <1>2, <2>1 DEF Inv, TokenInv, LeftKioskIsRevoked, KeptTokenIsCurrent
  <2>4. OneTransfer'
    <3> SUFFICES ASSUME ~doubled' PROVE OneTransfer' BY DEF OneTransfer
    <3>1. ~doubled /\ \A j \in Slots : ~Is(j, "revoke") BY <1>2 DEF UnderWay, Is
    <3>2. store # None BY <1>2 DEF Inv, TokenInv, TokenShown
    <3>3. \A j \in Slots : ~Is(j, "activate")
      BY <3>1, <3>2 DEF Inv, TokenInv, OneTransfer
    <3>4. \A j \in Slots : j # i => ~Is(j, "activate")' /\ ~Is(j, "revoke")'
      BY <1>6, <3>1, <3>3 DEF OnlySlot, Remains, Keeps, Is
    <3>5. slot'[i].kind = "revoke" /\ slot'[i].net # Done BY <1>4, <1>6, AnswersDiffer
    <3> QED BY <2>1, <3>2, <3>4, <3>5 DEF OneTransfer, Is
  <2> QED BY <2>2, <2>3, <2>4 DEF TokenInv
<1> QED BY <1>9, <1>10 DEF Inv

LEMMA ExitSignedOutStep ==
  ASSUME Inv, ExitSignedOut
  PROVE  Inv'
<1>1. TypeOK /\ ScreenFine(screen) /\ SlotsFine(slot) /\ PhoneFine
  BY LocalFine, LocalPhone DEF Inv, Local
<1>2. /\ UNCHANGED <<server, session, card, presses>> /\ kiosk # None
      /\ store' = None /\ kiosk' = None /\ screen' = Blank /\ timers' = 0
      /\ left' = "signed out" /\ slot' = Unmounted(slot)
      /\ doubled' = (doubled \/ UnderWay("revoke"))
  BY DEF ExitSignedOut, OnScreen, ClearKiosk
<1>3. /\ slot' \in [Slots -> MaybeCall]
      /\ \A j \in Slots : Remains(slot'[j], slot[j])
  BY <1>1, <1>2, AllUnmounted
<1>4. SlotsFine(slot') BY <1>1, <1>3, SlotsRemain
<1>5. PhoneFine' BY <1>1, <1>2 DEF PhoneFine
<1>6. ScreenFine(screen') BY <1>2, ScreensFine DEF Inv
<1>7. Local' BY <1>2, <1>4, <1>5, <1>6, PhoneLocal DEF Inv
<1>8. TokenInv'
  <2>1. TokenShown' /\ LeftKioskIsRevoked' /\ KeptTokenIsCurrent'
    BY <1>2 DEF TokenShown, LeftKioskIsRevoked, KeptTokenIsCurrent
  <2>2. OneTransfer'
    <3> SUFFICES ASSUME ~doubled' PROVE OneTransfer' BY DEF OneTransfer
    <3>1. ~doubled /\ \A j \in Slots : ~Is(j, "revoke") BY <1>2 DEF UnderWay, Is
    <3>2. \A j \in Slots : ~Is(j, "activate")
      BY <1>2, <3>1 DEF Inv, TokenInv, OneTransfer, TokenShown
    <3>3. \A j \in Slots : ~Is(j, "activate")' /\ ~Is(j, "revoke")'
      BY <1>3, <3>1, <3>2 DEF Remains, Keeps, Is
    <3> QED BY <3>3 DEF OneTransfer
  <2> QED BY <2>1, <2>2 DEF TokenInv
<1> QED BY <1>7, <1>8 DEF Inv

LEMMA ActivateStep ==
  ASSUME Inv, NEW i \in Slots, Activate(i)
  PROVE  Inv'
<1> DEFINE call ==
      [kind |-> "activate", employee |-> None, pin |-> None, typedFor |-> None,
       action |-> None, of |-> None, token |-> None, home |-> "shown",
       state |-> None, net |-> Sent]
<1>1. TypeOK /\ ScreenFine(screen) /\ SlotsFine(slot) /\ PhoneFine
  BY LocalFine, LocalPhone DEF Inv, Local
<1>2. /\ UNCHANGED <<server, store, kiosk, session, screen, timers, left, doubled>>
      /\ kiosk = None /\ ~card /\ card' = TRUE /\ Ask(i, call)
  BY DEF Activate, MayActivate
<1>3. call \in Call /\ CallFine(call) /\ call.kind = "activate" /\ call.net = Sent
  BY DEF Call, CallFine, Kinds, Homes
<1> HIDE DEF call
<1>4. /\ slot' \in [Slots -> MaybeCall] /\ OnlySlot(i) /\ slot'[i] = call
      /\ slot[i] = None /\ presses' \in 0..MaxPresses
  BY <1>1, <1>2, <1>3, AskFacts
<1>5. SlotsFine(slot') BY <1>1, <1>3, <1>4, OneSlot
<1>6. PhoneFine' BY <1>1, <1>2, <1>4 DEF PhoneFine
<1>7. Local' BY <1>1, <1>2, <1>5, <1>6, PhoneLocal DEF Inv
<1>8. TokenInv'
  <2>1. UNCHANGED <<device, store, kiosk, left, doubled>> BY <1>2 DEF server
  <2>2. TokenShown' /\ LeftKioskIsRevoked' /\ KeptTokenIsCurrent'
    BY <2>1 DEF Inv, TokenInv, TokenShown, LeftKioskIsRevoked, KeptTokenIsCurrent
  <2>3. OneTransfer'
    <3> SUFFICES ASSUME ~doubled' PROVE OneTransfer' BY DEF OneTransfer
    <3>1. store = None BY <1>2 DEF Inv, TokenInv, TokenShown
    <3>2. \A j \in Slots : ~Is(j, "activate") /\ ~Is(j, "revoke")
      BY <1>2, <2>1, <3>1 DEF Inv, TokenInv, OneTransfer
    <3>3. \A j \in Slots : j # i => ~Is(j, "activate")' /\ ~Is(j, "revoke")'
      BY <1>4, <3>2 DEF OnlySlot, Remains, Keeps, Is
    <3>4. slot'[i].kind = "activate" /\ slot'[i].net # Done BY <1>3, <1>4, AnswersDiffer
    <3> QED BY <1>2, <2>1, <3>1, <3>3, <3>4 DEF OneTransfer, Is
  <2> QED BY <2>2, <2>3 DEF TokenInv
<1> QED BY <1>7, <1>8 DEF Inv

\* The screens are built anew, and the app with them or without.
LEMMA AnewStep ==
  ASSUME Inv, Remount \/ Restart
  PROVE  Inv'
<1>1. TypeOK /\ ScreenFine(screen) /\ SlotsFine(slot) /\ PhoneFine
  BY LocalFine, LocalPhone DEF Inv, Local
<1>2. /\ UNCHANGED <<server, store, session, presses, left>>
      /\ kiosk' = store /\ card' = FALSE /\ doubled' = (doubled \/ card)
      /\ screen' = Blank /\ timers' = 0
  BY DEF Remount, Restart, CardTakenDown, Inv, TokenInv, TokenShown
<1>3. /\ slot' \in [Slots -> MaybeCall]
      /\ \A j \in Slots : Remains(slot'[j], slot[j])
  <2>1. CASE Remount BY <1>1, <2>1, AllUnmounted DEF Remount
  <2>2. CASE Restart BY <1>1, <2>2, KilledFacts DEF Restart, SlotsFine
  <2> QED BY <2>1, <2>2
<1>4. SlotsFine(slot') BY <1>1, <1>3, SlotsRemain
<1>5. PhoneFine' BY <1>1, <1>2 DEF PhoneFine
<1>6. ScreenFine(screen') BY <1>2, ScreensFine DEF Inv
<1>7. Local' BY <1>2, <1>4, <1>5, <1>6, PhoneLocal DEF Inv
<1>8. TransfersRemain BY <1>3, RemainTransfers
<1>9. TokenInv' BY <1>2, <1>8, TokenFollows DEF Inv, server
<1> QED BY <1>7, <1>9 DEF Inv

LEMMA VerifyDoneStep ==
  ASSUME Inv, NEW i \in Slots, slot[i] # None, VerifyDone(i)
  PROVE  Inv'
<1>1. TypeOK /\ ScreenFine(screen) /\ SlotsFine(slot) /\ PhoneFine
  BY LocalFine, LocalPhone DEF Inv, Local
<1>2. Ended(i) /\ UNCHANGED <<server, phone, timers, left, presses, doubled>>
  BY DEF VerifyDone, Error
<1>3. /\ slot' \in [Slots -> MaybeCall]
      /\ \A j \in Slots : Remains(slot'[j], slot[j])
  BY <1>1, <1>2, EndedFacts
<1>4. ScreenFine(screen')
  <2>1. CASE slot[i].net = Failed /\ Error(i)
    BY <1>1, <2>1, ScreensFine DEF Error, Shows, Inv
  <2>2. CASE slot[i].net = Done
    <3> DEFINE st == [of |-> slot[i].employee, state |-> slot[i].state]
    <3>1. slot[i].employee \in Employees /\ slot[i].state \in States
      BY <1>1, <2>2 DEF VerifyDone, SlotsFine, CallFine
    <3>2. st \in Status BY <3>1 DEF Status
    <3>3. Shows(i, [screen EXCEPT !.status = st, !.phase = "ACTION", !.saving = FALSE])
      BY <2>2, AnswersDiffer DEF VerifyDone
    <3> HIDE DEF st
    <3> QED BY <1>1, <3>2, <3>3, ScreensFine DEF Shows, Inv
  <2> QED BY <2>1, <2>2 DEF VerifyDone
<1>5. SlotsFine(slot') BY <1>1, <1>3, SlotsRemain
<1>6. PhoneFine' BY <1>1, <1>2 DEF PhoneFine, phone
<1>7. Local' BY <1>2, <1>4, <1>5, <1>6, PhoneLocal DEF Inv
<1>8. TransfersRemain BY <1>3, RemainTransfers
<1>9. TokenInv' BY <1>2, <1>8, TokenFollows DEF Inv, TokenInv, TokenShown, phone, server
<1> QED BY <1>7, <1>9 DEF Inv

LEMMA UploadDoneStep ==
  ASSUME Inv, NEW i \in Slots, slot[i] # None, UploadDone(i)
  PROVE  Inv'
<1>1. TypeOK /\ ScreenFine(screen) /\ SlotsFine(slot) /\ PhoneFine
  BY LocalFine, LocalPhone DEF Inv, Local
<1>2. /\ slot[i].kind = "upload"
      /\ UNCHANGED <<server, phone, timers, left, presses, doubled>>
  BY DEF UploadDone
<1>3. /\ slot' \in [Slots -> MaybeCall] /\ OnlySlot(i)
      /\ slot'[i] # None => CallFine(slot'[i]) /\ slot'[i].kind = "action"
      /\ ScreenFine(screen')
  <2>1. CASE Error(i)
    <3>1. /\ slot' \in [Slots -> MaybeCall] /\ slot'[i] = None
          /\ \A j \in Slots : Remains(slot'[j], slot[j])
      BY <1>1, <2>1, EndedFacts DEF Error
    <3>2. ScreenFine(screen') BY <1>1, <2>1, ScreensFine DEF Error, Shows, Inv
    <3> QED BY <3>1, <3>2 DEF OnlySlot
  <2>2. CASE slot' = [slot EXCEPT ![i].kind = "action", ![i].net = Sent] /\ UNCHANGED screen
    <3> DEFINE d == [slot[i] EXCEPT !.kind = "action", !.net = Sent]
    <3>1. slot[i] \in Call /\ CallFine(slot[i]) BY <1>1 DEF SlotsFine, CallFine
    <3>2. /\ d \in Call /\ d.kind = "action" /\ d.pin = slot[i].pin
          /\ d.typedFor = slot[i].typedFor /\ d.employee = slot[i].employee
          /\ d.action = slot[i].action
      BY <3>1 DEF Call, Kinds
    <3> HIDE DEF d
    <3>3. CallFine(d) BY <1>2, <3>1, <3>2 DEF CallFine
    <3>4. slot \in [Slots -> MaybeCall] BY <1>1 DEF SlotsFine
    <3>5. slot' = [slot EXCEPT ![i] = d] BY <2>2, <3>4 DEF d
    <3>6. slot' \in [Slots -> MaybeCall] /\ slot'[i] = d
          /\ \A j \in Slots : j # i => slot'[j] = slot[j]
      BY <3>2, <3>4, <3>5 DEF MaybeCall
    <3>7. \A j \in Slots : Keeps(slot[j], slot[j]) BY DEF Keeps
    <3> QED BY <1>1, <2>2, <3>2, <3>3, <3>6, <3>7 DEF OnlySlot, Remains
  <2> QED BY <2>1, <2>2 DEF UploadDone
<1>4. SlotsFine(slot') BY <1>1, <1>3, OneSlot
<1>5. PhoneFine' BY <1>1, <1>2 DEF PhoneFine, phone
<1>6. Local' BY <1>2, <1>3, <1>4, <1>5, PhoneLocal DEF Inv
<1>7. TransfersRemain BY <1>3, OneRemainsTransfers
<1>8. TokenInv' BY <1>2, <1>7, TokenFollows DEF Inv, TokenInv, TokenShown, phone, server
<1> QED BY <1>6, <1>8 DEF Inv

LEMMA ActionDoneStep ==
  ASSUME Inv, NEW i \in Slots, slot[i] # None, ActionDone(i)
  PROVE  Inv'
<1>1. TypeOK /\ ScreenFine(screen) /\ SlotsFine(slot) /\ PhoneFine
  BY LocalFine, LocalPhone DEF Inv, Local
<1>2. Ended(i) /\ UNCHANGED <<server, phone, left, presses, doubled>>
  BY DEF ActionDone, Error
<1>3. /\ slot' \in [Slots -> MaybeCall]
      /\ \A j \in Slots : Remains(slot'[j], slot[j])
  BY <1>1, <1>2, EndedFacts
<1>4. timers' \in Nat
  <2>1. timers \in Nat BY <1>1 DEF PhoneFine
  <2>2. timers' = timers \/ timers' = timers + 1 BY DEF ActionDone
  <2> QED BY <2>1, <2>2
<1>5. ScreenFine(screen')
  BY <1>1, ScreensFine DEF ActionDone, Error, Shows, Inv
<1>6. SlotsFine(slot') BY <1>1, <1>3, SlotsRemain
<1>7. PhoneFine' BY <1>1, <1>2, <1>4 DEF PhoneFine, phone
<1>8. Local' BY <1>2, <1>5, <1>6, <1>7, PhoneLocal DEF Inv
<1>9. TransfersRemain BY <1>3, RemainTransfers
<1>10. TokenInv' BY <1>2, <1>9, TokenFollows DEF Inv, TokenInv, TokenShown, phone, server
<1> QED BY <1>8, <1>10 DEF Inv

LEMMA RevokeDoneStep ==
  ASSUME Inv, NEW i \in Slots, slot[i] # None, slot[i].net # Sent, RevokeDone(i)
  PROVE  Inv'
<1>1. TypeOK /\ ScreenFine(screen) /\ SlotsFine(slot) /\ PhoneFine
  BY LocalFine, LocalPhone DEF Inv, Local
<1>2. slot[i].kind = "revoke" /\ UNCHANGED <<server, presses, doubled>> BY DEF RevokeDone
<1>3. CASE Error(i) /\ UNCHANGED <<phone, timers, left>>
  <2>1. /\ slot' \in [Slots -> MaybeCall]
        /\ \A j \in Slots : Remains(slot'[j], slot[j])
    BY <1>1, <1>3, EndedFacts DEF Error
  <2>2. ScreenFine(screen') BY <1>1, <1>3, ScreensFine DEF Error, Shows, Inv
  <2>3. SlotsFine(slot') BY <1>1, <2>1, SlotsRemain
  <2>4. PhoneFine' BY <1>1, <1>2, <1>3 DEF PhoneFine, phone
  <2>5. Local' BY <1>2, <2>2, <2>3, <2>4, PhoneLocal DEF Inv
  <2>6. TransfersRemain BY <2>1, RemainTransfers
  <2>7. TokenInv' BY <1>2, <1>3, <2>6, TokenFollows DEF Inv, TokenInv, TokenShown, phone, server
  <2> QED BY <2>5, <2>7 DEF Inv
<1>4. CASE CanLeave(i) /\ ClearKiosk("signed in") /\ UNCHANGED <<session, card>>
           /\ slot' = [Unmounted(slot) EXCEPT ![i].kind = "logout", ![i].net = Sent,
                                              ![i].home = "left"]
  <2> DEFINE calls == Unmounted(slot)
             d == [calls[i] EXCEPT !.kind = "logout", !.net = Sent, !.home = "left"]
  <2>1. /\ calls \in [Slots -> MaybeCall]
        /\ \A j \in Slots : Remains(calls[j], slot[j])
    BY <1>1, AllUnmounted
  <2>2. calls[i] \in Call /\ Keeps(calls[i], slot[i])
    <3>1. slot[i] \in Call BY <1>1 DEF SlotsFine, CallFine
    <3>2. calls[i] = slot[i] \/ calls[i] = [slot[i] EXCEPT !.home = "left"]
      BY <1>2 DEF Unmounted, UnmountedCall
    <3>3. [slot[i] EXCEPT !.home = "left"] \in Call
          /\ Keeps([slot[i] EXCEPT !.home = "left"], slot[i])
      BY <3>1 DEF Call, Homes, Keeps
    <3>4. Keeps(slot[i], slot[i]) BY DEF Keeps
    <3> QED BY <3>1, <3>2, <3>3, <3>4
  <2>3. /\ d \in Call /\ d.kind = "logout" /\ d.pin = slot[i].pin
        /\ d.typedFor = slot[i].typedFor /\ d.employee = slot[i].employee
    BY <2>2 DEF Call, Kinds, Homes, Keeps
  <2>4. slot' = [calls EXCEPT ![i] = d] BY <1>4, <2>1
  <2> HIDE DEF calls, d
  <2>5. /\ slot' \in [Slots -> MaybeCall] /\ slot'[i] = d
        /\ \A j \in Slots : j # i => slot'[j] = calls[j]
    BY <2>1, <2>3, <2>4 DEF MaybeCall
  <2>6. CallFine(d)
    <3>1. CallFine(slot[i]) BY <1>1 DEF SlotsFine
    <3> QED BY <2>3, <3>1 DEF CallFine
  <2>7. OnlySlot(i) BY <2>1, <2>5 DEF OnlySlot
  <2>8. SlotsFine(slot') BY <1>1, <2>5, <2>6, <2>7, OneSlot
  <2>9. /\ store' = None /\ kiosk' = None /\ screen' = Blank /\ timers' = 0
        /\ left' = "signed in" /\ UNCHANGED <<session, card>>
    BY <1>4 DEF ClearKiosk
  <2>10. PhoneFine' BY <1>1, <1>2, <2>9 DEF PhoneFine
  <2>11. ScreenFine(screen') BY <2>9, ScreensFine DEF Inv
  <2>12. Local' BY <1>2, <2>8, <2>10, <2>11, PhoneLocal DEF Inv
  <2>13. TokenInv'
    <3>1. UNCHANGED <<device, doubled>> BY <1>2 DEF server
    <3>2. TokenShown' /\ KeptTokenIsCurrent' BY <2>9 DEF TokenShown, KeptTokenIsCurrent
    <3>3. Is(i, "revoke") /\ slot[i].net = Done BY <1>2, <1>4 DEF CanLeave, Is
    <3>4. LeftKioskIsRevoked'
      BY <3>1, <3>3 DEF LeftKioskIsRevoked, Inv, TokenInv, OneTransfer
    <3>5. OneTransfer'
      <4> SUFFICES ASSUME ~doubled' PROVE OneTransfer' BY DEF OneTransfer
      <4>1. \A j \in Slots : ~Is(j, "activate") /\ (j # i => ~Is(j, "revoke"))
        BY <3>1, <3>3 DEF Inv, TokenInv, OneTransfer
      <4>2. \A j \in Slots : ~Is(j, "activate")' /\ ~Is(j, "revoke")'
        BY <2>3, <2>5, <2>7, <4>1 DEF OnlySlot, Remains, Keeps, Is
      <4> QED BY <4>2 DEF OneTransfer
    <3> QED BY <3>2, <3>4, <3>5 DEF TokenInv
  <2> QED BY <2>12, <2>13 DEF Inv
<1> QED BY <1>3, <1>4 DEF RevokeDone

LEMMA LogoutDoneStep ==
  ASSUME Inv, NEW i \in Slots, slot[i] # None, LogoutDone(i)
  PROVE  Inv'
<1>1. TypeOK /\ ScreenFine(screen) /\ SlotsFine(slot) /\ PhoneFine
  BY LocalFine, LocalPhone DEF Inv, Local
<1>2. /\ Ended(i) /\ UNCHANGED <<server, store, kiosk, screen, timers, left, presses>>
      /\ session' = FALSE /\ card' = FALSE /\ doubled' = (doubled \/ card)
  BY DEF LogoutDone, CardTakenDown
<1>3. /\ slot' \in [Slots -> MaybeCall]
      /\ \A j \in Slots : Remains(slot'[j], slot[j])
  BY <1>1, <1>2, EndedFacts
<1>4. SlotsFine(slot') BY <1>1, <1>3, SlotsRemain
<1>5. PhoneFine' BY <1>1, <1>2 DEF PhoneFine
<1>6. Local' BY <1>1, <1>2, <1>4, <1>5, PhoneLocal DEF Inv
<1>7. TransfersRemain BY <1>3, RemainTransfers
<1>8. TokenInv' BY <1>2, <1>7, TokenFollows DEF Inv, TokenInv, TokenShown, server
<1> QED BY <1>6, <1>8 DEF Inv

LEMMA ActivationDoneStep ==
  ASSUME Inv, NEW i \in Slots, slot[i] # None, slot[i].net # Sent, ActivationDone(i)
  PROVE  Inv'
<1>1. TypeOK /\ ScreenFine(screen) /\ SlotsFine(slot) /\ PhoneFine
  BY LocalFine, LocalPhone DEF Inv, Local
<1>2. /\ Ended(i) /\ UNCHANGED <<server, session, left, presses, doubled>>
      /\ card' = FALSE /\ Is(i, "activate")
  BY DEF ActivationDone, Is
<1>3. /\ slot' \in [Slots -> MaybeCall] /\ slot'[i] = None
      /\ \A j \in Slots : Remains(slot'[j], slot[j])
  BY <1>1, <1>2, EndedFacts
<1>4. SlotsFine(slot') BY <1>1, <1>3, SlotsRemain
<1>5. slot[i] \in Call /\ (slot[i].net = Failed \/ slot[i].net = Done)
  BY <1>1, <1>2 DEF SlotsFine, CallFine, Call, Is
<1>6. \/ UNCHANGED <<store, kiosk, screen, timers>>
      \/ /\ slot[i].net = Done /\ store' = slot[i].token /\ kiosk' = slot[i].token
         /\ \/ screen' = Blank /\ timers' = 0
            \/ UNCHANGED <<screen, timers>>
  BY <1>5 DEF ActivationDone
<1>7. ScreenFine(screen') BY <1>1, <1>6, ScreensFine DEF Inv
<1>8. PhoneFine'
  <2>1. slot[i].token \in Tokens \cup {None} BY <1>5 DEF Call
  <2>2. store' \in Tokens \cup {None} /\ kiosk' \in Tokens \cup {None}
    BY <1>1, <1>6, <2>1 DEF PhoneFine
  <2>3. timers' \in Nat
    <3>1. timers \in Nat BY <1>1 DEF PhoneFine
    <3>2. timers' = timers \/ timers' = 0 BY <1>6
    <3> QED BY <3>1, <3>2
  <2> QED BY <1>1, <1>2, <2>2, <2>3 DEF PhoneFine
<1>9. Local' BY <1>2, <1>4, <1>7, <1>8, PhoneLocal DEF Inv
<1>10. TokenInv'
  <2>1. UNCHANGED <<device, left, doubled>> BY <1>2 DEF server
  <2>2. TokenShown' BY <1>6 DEF Inv, TokenInv, TokenShown
  <2>3. LeftKioskIsRevoked' BY <2>1 DEF Inv, TokenInv, LeftKioskIsRevoked
  <2>4. KeptTokenIsCurrent'
    BY <1>2, <1>6, <2>1 DEF Inv, TokenInv, KeptTokenIsCurrent, OneTransfer
  <2>5. OneTransfer'
    <3> SUFFICES ASSUME ~doubled' PROVE OneTransfer' BY DEF OneTransfer
    <3>1. \A j \in Slots : ~Is(j, "revoke") /\ (j # i => ~Is(j, "activate"))
      BY <1>2, <2>1 DEF Inv, TokenInv, OneTransfer
    <3>2. \A j \in Slots : ~Is(j, "activate")' /\ ~Is(j, "revoke")'
      BY <1>3, <3>1 DEF Remains, Keeps, Is
    <3> QED BY <3>2 DEF OneTransfer
  <2> QED BY <2>2, <2>3, <2>4, <2>5 DEF TokenInv
<1> QED BY <1>9, <1>10 DEF Inv

LEMMA InvInit ==
  ASSUME Init
  PROVE  Inv
<1>1. /\ \/ store = None /\ device = [status |-> "NONE", token |-> 0]
         \/ store = 1 /\ device = [status |-> "ACTIVE", token |-> 1]
      /\ kiosk = store /\ timers = 0 /\ presses = 0
  BY DEF Init
<1>2. TypeOK
  <2>1. /\ device \in [status: {"ACTIVE", "REVOKED", "NONE"}, token: 0..MaxTokens]
        /\ kiosk \in Tokens \cup {None} /\ store \in Tokens \cup {None}
    <3>1. 0 \in 0..MaxTokens /\ 1 \in 0..MaxTokens /\ 1 \in 1..MaxTokens BY BoundsAreNat
    <3>2. /\ [status |-> "NONE", token |-> 0] \in Devices
          /\ [status |-> "ACTIVE", token |-> 1] \in Devices
      BY <3>1 DEF Devices
    <3> QED BY <1>1, <3>1, <3>2 DEF Tokens, Devices
  <2>2. /\ pinHash \in [Employees -> Pins \cup {None}] /\ state \in [Employees -> States]
        /\ slot \in [Slots -> Call \cup {None}]
    BY DEF Init, States
  <2>3. history \in [Employees -> Seq(Actions)]
    <3>1. <<>> \in Seq(Actions) BY EmptySeq
    <3> QED BY <3>1 DEF Init
  <2>4. screen \in Screen BY DEF Init, Blank, Screen, Phases
  <2>5. timers \in Nat /\ presses \in 0..MaxPresses
    <3>1. 0 \in 0..MaxPresses BY BoundsAreNat
    <3> QED BY <1>1, <3>1
  <2> QED BY <2>1, <2>2, <2>3, <2>4, <2>5 DEF TypeOK, Init
<1>3. \A i \in Slots : slot[i] = None BY DEF Init
<1>4. Pressed BY <1>3 DEF Pressed
<1>5. PinStaysWithItsEmployee BY <1>3 DEF PinStaysWithItsEmployee, Init, Blank
<1>6. OneTransfer BY <1>3 DEF OneTransfer, Is
<1>7. TokenShown BY DEF TokenShown, Init
<1>8. LeftKioskIsRevoked BY DEF LeftKioskIsRevoked, Init
<1>9. KeptTokenIsCurrent
  <2>1. CASE store = None BY <2>1 DEF KeptTokenIsCurrent
  <2>2. CASE store = 1 /\ device = [status |-> "ACTIVE", token |-> 1]
    <3>1. device.token = 1 BY <2>2
    <3> QED BY <2>2, <3>1 DEF KeptTokenIsCurrent
  <2> QED BY <1>1, <2>1, <2>2
<1> QED BY <1>2, <1>4, <1>5, <1>6, <1>7, <1>8, <1>9 DEF Inv, Local, TokenInv

LEMMA InvNext ==
  ASSUME Inv, [Next]_vars
  PROVE  Inv'
<1>1. CASE UNCHANGED vars
  <2>1. /\ UNCHANGED <<server, phone, slot, left, presses, doubled>>
        /\ screen' = screen /\ timers' = timers
    BY <1>1 DEF vars
  <2>2. ScreenFine(screen) /\ timers \in Nat BY LocalFine, LocalPhone DEF Inv, PhoneFine
  <2> QED BY <2>1, <2>2, ScreenStep
<1>2. CASE Next
  <2>1. CASE \E e \in Employees : ResetPIN(e) \/ OwnPhone(e)
    BY <2>1, ElsewhereStep
  <2>2. CASE SignIn BY <2>2, ElsewhereStep
  <2>3. CASE \E e \in Employees : Choose(e) BY <2>3, ScreenSteps
  <2>4. CASE \E p \in Pins : EnterPIN(p) BY <2>4, ScreenSteps
  <2>5. CASE Load \/ Back \/ FireTimer BY <2>5, ScreenSteps
  <2>6. ASSUME NEW i \in Slots, Serve(i) PROVE Inv' BY <2>6, ServeStep
  <2>7. ASSUME NEW i \in Slots, VerifyPIN(i) \/ SubmitAttendance(i) PROVE Inv'
    BY <2>7, AskStep
  <2>8. ASSUME NEW i \in Slots, ExitSignedIn(i) PROVE Inv' BY <2>8, ExitSignedInStep
  <2>9. ASSUME NEW i \in Slots, Activate(i) PROVE Inv' BY <2>9, ActivateStep
  <2>10. ASSUME NEW i \in Slots, Return(i) PROVE Inv'
    <3>1. slot[i] # None /\ slot[i].net # Sent BY <2>10 DEF Return
    <3>2. CASE VerifyDone(i) BY <3>1, <3>2, VerifyDoneStep
    <3>3. CASE UploadDone(i) BY <3>1, <3>3, UploadDoneStep
    <3>4. CASE ActionDone(i) BY <3>1, <3>4, ActionDoneStep
    <3>5. CASE RevokeDone(i) BY <3>1, <3>5, RevokeDoneStep
    <3>6. CASE LogoutDone(i) BY <3>1, <3>6, LogoutDoneStep
    <3>7. CASE ActivationDone(i) BY <3>1, <3>7, ActivationDoneStep
    <3> QED BY <2>10, <3>2, <3>3, <3>4, <3>5, <3>6, <3>7 DEF Return
  <2>11. CASE ExitSignedOut BY <2>11, ExitSignedOutStep
  <2>12. CASE Remount \/ Restart BY <2>12, AnewStep
  <2> QED BY <1>2, <2>1, <2>2, <2>3, <2>4, <2>5, <2>6, <2>7, <2>8, <2>9, <2>10, <2>11, <2>12
          DEF Next
<1> QED BY <1>1, <1>2

-----------------------------------------------------------------------------
(* What is recorded *)

RecInv == LastRecorded /\ NothingRecordedTwice

\* An action does not follow itself.
LEMMA NoRepeat ==
  ASSUME NEW e, NEW a \in Actions
  PROVE  /\ ~Transition(StateAfter(e, a), a)
         /\ StateAfter(e, a) # "NOT_STARTED"
BY DEF Actions, StateAfter, Transition

LEMMA RecordingStep ==
  ASSUME TypeOK, RecInv, NEW e \in Employees, NEW a \in Actions, Recorded(e, a)
  PROVE  RecInv'
<1> DEFINE h == history[e]
<1>1. /\ history \in [Employees -> Seq(Actions)] /\ state \in [Employees -> States]
      /\ h \in Seq(Actions) /\ Len(h) \in Nat
  BY LenProperties DEF TypeOK
<1>2. /\ Transition(state[e], a)
      /\ state' = [state EXCEPT ![e] = StateAfter(e, a)]
      /\ history' = [history EXCEPT ![e] = Append(h, a)]
  BY DEF Recorded
<1>3. /\ Len(Append(h, a)) = Len(h) + 1 /\ Append(h, a)[Len(h) + 1] = a
      /\ \A n \in 1..Len(h) : Append(h, a)[n] = h[n]
      /\ Append(h, a) # <<>>
  BY <1>1, AppendProperties, EmptySeq
<1>4. /\ history'[e] = Append(h, a) /\ state'[e] = StateAfter(e, a)
      /\ \A o \in Employees : o # e => history'[o] = history[o] /\ state'[o] = state[o]
  BY <1>1, <1>2
<1> HIDE DEF h
<1>5. LastRecorded' 
  <2> SUFFICES ASSUME NEW o \in Employees
               PROVE  state'[o] = IF history'[o] = <<>> THEN "NOT_STARTED"
                                  ELSE StateAfter(o, history'[o][Len(history'[o])])
    BY DEF LastRecorded
  <2>1. CASE o = e BY <1>3, <1>4, <2>1
  <2>2. CASE o # e BY <1>4, <2>2 DEF RecInv, LastRecorded
  <2> QED BY <2>1, <2>2
<1>6. NothingRecordedTwice'
  <2> SUFFICES ASSUME NEW o \in Employees, NEW n \in 1..(Len(history'[o]) - 1)
               PROVE  history'[o][n] # history'[o][n + 1]
    BY DEF NothingRecordedTwice
  <2>1. CASE o # e BY <1>4, <2>1 DEF RecInv, NothingRecordedTwice
  <2>2. CASE o = e
    <3>1. n \in 1..Len(h)
      <4>1. n \in 1..(Len(h) + 1 - 1) BY <1>3, <1>4, <2>2
      <4> QED BY <1>1, <4>1
    <3>2. h[n] \in Actions BY <1>1, <3>1, ElementOfSeq
    <3>3. CASE n < Len(h)
      <4>1. n + 1 \in 1..Len(h) /\ n \in 1..(Len(h) - 1) BY <1>1, <3>1, <3>3
      <4>2. h[n] # h[n + 1] BY <4>1 DEF RecInv, NothingRecordedTwice, h
      <4> QED BY <1>3, <1>4, <2>2, <3>1, <4>1, <4>2
    <3>4. CASE n = Len(h)
      <4>1. h # <<>> BY <1>1, <3>1, <3>4, EmptySeq
      <4>2. state[e] = StateAfter(e, h[n])
        BY <3>4, <4>1 DEF RecInv, LastRecorded, h
      <4>3. h[n] # a BY <1>2, <3>2, <4>2, NoRepeat
      <4>4. history'[o][n] = h[n] /\ history'[o][n + 1] = a
        BY <1>3, <1>4, <2>2, <3>1, <3>4
      <4> QED BY <4>3, <4>4
    <3> QED BY <1>1, <3>1, <3>3, <3>4
  <2> QED BY <2>1, <2>2
<1> QED BY <1>5, <1>6 DEF RecInv

LEMMA RecNext ==
  ASSUME Inv, RecInv, [Next]_vars
  PROVE  RecInv'
<1>1. TypeOK /\ Pressed BY DEF Inv, Local
<1>2. CASE UNCHANGED <<state, history>>
  BY <1>2 DEF RecInv, LastRecorded, NothingRecordedTwice
<1>3. CASE Recording
  <2>1. PICK e \in Employees, a \in Actions : Recorded(e, a) BY <1>3 DEF Recording
  <2> QED BY <1>1, <2>1, RecordingStep
<1>4. UNCHANGED <<state, history>> \/ Recording
  <2>1. CASE \E e \in Employees : ResetPIN(e) \/ Choose(e)
    BY <2>1 DEF ResetPIN, Choose, server
  <2>2. CASE \E e \in Employees : OwnPhone(e)
    BY <2>2 DEF OwnPhone, Recording
  <2>3. CASE \E p \in Pins : EnterPIN(p) BY <2>3 DEF EnterPIN, server
  <2>4. CASE \E i \in Slots : Serve(i) BY <1>1, <2>4, ServeFacts
  <2>5. CASE \E i \in Slots : Return(i)
    BY <2>5 DEF Return, VerifyDone, UploadDone, ActionDone, RevokeDone, LogoutDone,
                ActivationDone, server
  <2>6. CASE \E i \in Slots : VerifyPIN(i) \/ SubmitAttendance(i) \/ ExitSignedIn(i) \/ Activate(i)
    BY <2>6 DEF VerifyPIN, SubmitAttendance, ExitSignedIn, Activate, server
  <2>7. CASE Load \/ Back \/ ExitSignedOut \/ FireTimer \/ SignIn \/ Remount \/ Restart
    BY <2>7 DEF Load, Back, ExitSignedOut, FireTimer, SignIn, Remount, Restart, server
  <2>8. CASE UNCHANGED vars BY <2>8 DEF vars, server
  <2> QED BY <2>1, <2>2, <2>3, <2>4, <2>5, <2>6, <2>7, <2>8 DEF Next
<1> QED BY <1>2, <1>3, <1>4

LEMMA RecInit ==
  ASSUME Init
  PROVE  RecInv
<1>1. \A e \in Employees : history[e] = <<>> /\ state[e] = "NOT_STARTED" BY DEF Init
<1>2. Len(<<>>) = 0 BY EmptySeq
<1>3. 1..(0 - 1) = {} OBVIOUS
<1> QED BY <1>1, <1>2, <1>3 DEF RecInv, LastRecorded, NothingRecordedTwice

-----------------------------------------------------------------------------
(* The theorems *)

LEMMA AllInvariant == Spec => [](Inv /\ RecInv)
<1>1. Init => Inv /\ RecInv BY InvInit, RecInit
<1>2. Inv /\ RecInv /\ [Next]_vars => (Inv /\ RecInv)' BY InvNext, RecNext
<1> QED BY <1>1, <1>2, PTL DEF Spec

\* The variables have their types: what every other argument stands on.
THEOREM TypeCorrect == Spec => []TypeOK
<1>1. Inv => TypeOK BY DEF Inv, Local
<1> QED BY <1>1, AllInvariant, PTL

\* The PIN of one employee is never sent for another, however many share the phone, whatever is
\* pressed while a handler waits, and however the answers come.
THEOREM PinStays == Spec => []PinStaysWithItsEmployee
<1>1. Inv => PinStaysWithItsEmployee BY DEF Inv, Local
<1> QED BY <1>1, AllInvariant, PTL

\* No action of an employee is recorded twice in a row, at the kiosk or with a phone of his own.
THEOREM NoneTwice == Spec => []NothingRecordedTwice
<1>1. RecInv => NothingRecordedTwice BY DEF RecInv
<1> QED BY <1>1, AllInvariant, PTL

\* A kiosk that a signed-in supervisor left opens nothing until it is activated again, unless
\* activations or exits overlapped.
THEOREM LeftIsRevoked == Spec => []LeftKioskIsRevoked
<1>1. Inv => LeftKioskIsRevoked BY DEF Inv, TokenInv
<1> QED BY <1>1, AllInvariant, PTL

\* The token of the phone is the one the server knows, with the same exception.
THEOREM KeptIsCurrent == Spec => []KeptTokenIsCurrent
<1>1. Inv => KeptTokenIsCurrent BY DEF Inv, TokenInv
<1> QED BY <1>1, AllInvariant, PTL
=============================================================================
