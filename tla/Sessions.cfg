SPECIFICATION Spec
CONSTANTS
    p1 = p1
    p2 = p2
    Procs = {p1, p2}
    Policies <- StrictOrLax
    DefaultPolicy <- Lax
    TouchGap = 1
    PolicyTTL = 1
    Minute = 3
    LoginRate = 2
    Modes <- AllModes
    MaxSessions = 6
    MaxTime = 7
SYMMETRY Symmetric
INVARIANTS
    AttemptsAreBounded
PROPERTIES
    AcceptedInTime
    UsedStaysSignedIn
CHECK_DEADLOCK FALSE
