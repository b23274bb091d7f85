SPECIFICATION FairSpec
CONSTANTS
    t1 = t1
    t2 = t2
    a1 = a1
    kong = kong
    waf = waf
    Threads = {t1, t2}
    Addrs = {a1}
    Connectors = {waf}
    RuleConns = {waf}
    Policies <- DryOrReal
    TTLInputs = {0}
    DefaultTTL = 1
    MinTTL = 1
    MaxTTL = 2
    Hour = 2
    Cap = 1
    LostReplies = TRUE
    SaveFails = TRUE
    MaxCalls = 2
    MaxTime = 2
    MaxRestarts = 1
INVARIANTS
    FailedHoldsNothing
PROPERTIES
    LiveKeptUntilLifted
    DueIsLifted
CHECK_DEADLOCK FALSE
