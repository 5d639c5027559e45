SPECIFICATION LiveSpec
CONSTANTS
  ordinary = ordinary
  occasion = occasion
  Members = {m1, m2}
  Shifts = {ordinary}
  EventShifts <- MCEventShifts
  Keys = {k1, k2}
  Nonces = {n1}
  Workers = {w1}
  PolicyIds = {p1}
  NoShift = NoShift
  NoNonce = NoNonce
  NoPolicy = NoPolicy
  SeedPolicy = p1
  SeedRows <- OnlyCoded
  PolicyInputs <- NoInputs
  ShiftStart <- MCShiftStart
  ShiftEnd <- MCShiftEnd
  Assigned <- MCAssigned
  Horizon = 1
  DayLength = 3
  QRLife = 2
  MaxTime = 3
CHECK_DEADLOCK FALSE
INVARIANTS
  CodesAreConsumedOnce
PROPERTY OverdueSessionsEnd
