SPECIFICATION Spec
CONSTANTS
  a = a
  b = b
  c = c
  e = e
  ana = ana
  budi = budi
  early = early
  late = late
  None = None
  Shifts <- FourShifts
  Members <- TwoMembers
  Periods <- TwoPeriods
  Events <- OneEvent
  Open <- OneOpen
  Overlapping <- OverlappingPairs
  PeriodsOf <- PeriodsOfShifts
  Published <- OnePublished
  Drafted <- OneDraft
  Assigned <- OneAssigned
  Removed <- OneRemoved
  Wished <- OneWish
  Asker = ana
  Today = early
  MaxCalls = 2
  MaxRare = 1
INVARIANT DoubleBookingNeedsARace
PROPERTY RemovalOutlivesRequests
CHECK_DEADLOCK FALSE
