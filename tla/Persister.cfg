SPECIFICATION Spec
CONSTANTS
    w1 = w1
    w2 = w2
    r1 = r1
    r2 = r2
    Flusher = Flusher
    Workers = {w1, w2}
    Ids = {r1, r2}
    Uses <- SafeUses
    MaxChanges = 3
    MaxHits = 2
    MaxCrashes = 1
INVARIANTS
    AckedIsKept
    FailedIsGone
    UnsavedIsMarked
CHECK_DEADLOCK FALSE
