SPECIFICATION LiveSpec
CONSTANTS
  r1 = r1
  r2 = r2
  m1 = m1
  m2 = m2
  Rows = {r1, r2}
  Members = {m1, m2}
  Recipient <- oneEach
  Tokens = {t1}
  Workers = {w1, w2}
  MaxAttempts = 2
  Nobody = Nobody
  Idle = Idle
INVARIANTS OneWorkerPerRow RetriesAreBounded CopiesAreBounded
PROPERTIES SentToAll RowsEnd
