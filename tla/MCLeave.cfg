SPECIFICATION LiveSpec
CONSTANTS
  Members = {m1}
  Types = {annual}
  Requests = {r1, r2}
  Handlers = {h1, h2}
  Days = {1, 2}
  WorkDays = {1, 2}
  YearOf <- MCYearOf
  Entitlements = {1, 2}
  NoRow = NoRow
  NoRequest = NoRequest
  Idle = Idle
  Granted = Granted
INVARIANTS
  BalanceIsSum
  OverlapNeedsARace
PROPERTIES
  DecidedOnce
  ImplementsLedger
  TransactionsEnd
