\* Every route, two calls at a time.
SPECIFICATION DemoSpec
CONSTANTS
  c1 = c1
  c2 = c2
  e1 = e1
  e2 = e2
  None = None
  Slots <- MCSlots
  Employees <- MCEmployees
  Codes <- MCCodes
  MaxCalls = 5
  MaxBusy = 2
  MaxDays = 1
SYMMETRY Symmetry
CHECK_DEADLOCK FALSE
INVARIANTS ConfirmedIsStored RecordsAreLegal
