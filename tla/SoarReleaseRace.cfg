SPECIFICATION FairSpec
CONSTANTS
    t1 = t1
    t2 = t2
    a1 = a1
    kong = kong
    waf = waf
    Threads = {t1, t2}
    Addrs = {a1}
    Connectors = {kong}
    RuleConns = {}
    Policies <- RealKong
    TTLInputs = {0}
    DefaultTTL = 1
    MinTTL = 1
    MaxTTL = 2
    Hour = 2
    Cap = 2
    LostReplies = FALSE
    SaveFails = FALSE
    MaxCalls = 2
    MaxTime = 2
    MaxRestarts = 0
PROPERTIES
    EveryBlockIsLifted
CHECK_DEADLOCK FALSE
