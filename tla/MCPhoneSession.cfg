\* One sign-in, two requests at a time, two rotations.
SPECIFICATION FairSpec
CONSTANTS
  f1 = f1
  o1 = o1
  o2 = o2
  c1 = c1
  c2 = c2
  NoPair = NoPair
  Demo = Demo
  Idle = Idle
  Granted = Granted
  Refusal = Refusal
  Lost = Lost
  Families <- MCOneFamily
  Orgs <- MCOrgs
  Calls <- MCCalls
  MaxRotations = 2
PROPERTIES ReplayNeedsALostAnswer RequestsEnd
