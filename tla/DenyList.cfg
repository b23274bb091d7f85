SPECIFICATION ListSpec
CONSTANTS
    t1 = t1
    t2 = t2
    t3 = t3
    a1 = a1
    a2 = a2
    Kinds = {"kong", "apisix", "nginx"}
    Callers = {t1, t2, t3}
    Home <- OneReplica
    IPs = {a1, a2}
    Cut = {"kong", "apisix"}
    RestoreFails = FALSE
    ListCalls = 4
INVARIANTS
    FileAgrees
PROPERTIES
    KeepsPromise
CHECK_DEADLOCK FALSE
