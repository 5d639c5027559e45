SPECIFICATION FairSpec
CONSTANTS
  Memberships = {m1, m2}
  NeedsSelfie = TRUE
  MaxPresses = 2
  MaxTroubles = 1
  First = m1
  None = None
INVARIANTS NothingVanishes RecordedOnce
PROPERTIES FlushSendsItsOwn QueuedIsSettled
CHECK_DEADLOCK FALSE
