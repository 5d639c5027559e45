SPECIFICATION Spec
CONSTANTS
  ordinary = ordinary
  occasion = occasion
  Members = {m1}
  Shifts = {ordinary, occasion}
  EventShifts <- MCEventShifts
  Keys = {k1, k2, k3}
  Nonces = {}
  Workers = {w1}
  PolicyIds = {p1, p2}
  NoShift = NoShift
  NoNonce = NoNonce
  NoPolicy = NoPolicy
  SeedPolicy = p1
  SeedRows <- OnlyReviewed
  PolicyInputs <- OnlyStrict
  ShiftStart <- MCShiftStart
  ShiftEnd <- MCShiftEnd
  Assigned <- MCAssigned
  Horizon = 1
  DayLength = 3
  QRLife = 1
  MaxTime = 3
SYMMETRY AnyKey
CHECK_DEADLOCK FALSE
INVARIANTS
  AutoOncePerShift
  RowMatchesLog
  OnlyLastEventPends
  LogIsLegalRun
  OneClockInPerDay
  TodayOffersLegalClockIn
PROPERTIES
  ImplementsWorkSession
  HistoryStands
