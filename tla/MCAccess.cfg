SPECIFICATION Spec
CONSTANTS
    owner = owner  admin = admin  emp = emp  new = new
    here = here  there = there  p1 = p1
    k1 = k1  k2 = k2  s1 = s1
    None = None
    Members <- Rows
    Phones <- OnePhone
    Comers <- TwoPeople
    Sessions <- AllSessions
    InitRoles <- RolesAtStart
    InitNumber <- NumbersAtStart
    Consoles <- TwoConsoles
    ActorOf <- Actors
    RoleInputs <- EditedRoles
    TypedNumbers <- OneTypedNumber
    MaxCalls = 2
    MaxLetters = 2
INVARIANTS
    LiveSessionsAreEntitled
    LockoutNeedsARace
    TakenNumberNeedsARace
PROPERTY
    PasswordNeedsNewestLetter
CHECK_DEADLOCK FALSE
