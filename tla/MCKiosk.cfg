CONSTANTS
  ana = ana
  budi = budi
  p1 = p1
  Employees = {ana, budi}
  Pins = {p1}
  HasPIN = {ana}
  Approved = {budi}
  Slots = {1, 2}
  MaxTokens = 3
  MaxEvents = 2
  MaxPresses = 3
  Sent = Sent
  Failed = Failed
  Done = Done
  None = None
SPECIFICATION Spec
INVARIANTS
  PinStaysWithItsEmployee
  NothingRecordedTwice
  LeftKioskIsRevoked
  KeptTokenIsCurrent
CHECK_DEADLOCK FALSE
