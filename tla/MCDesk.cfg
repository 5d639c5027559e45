SPECIFICATION Spec
CONSTANTS
  r1 = r1
  r2 = r2
  None = None
  Requests <- TwoRequests
  Kindings <- TwoKindings
  Filed <- OneFiled
  MaxPresses = 2
  MaxRare = 1
INVARIANT ToldIsTrue
PROPERTY FirstDecisionStands
CHECK_DEADLOCK FALSE
