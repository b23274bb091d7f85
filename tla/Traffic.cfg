SPECIFICATION TrafficSpec
CONSTANTS
    NoIP = NoIP
    NoAccount = NoAccount
    NoId = NoId
    MaxNodes = 6
    MaxEdges = 6
    MaxActors = 3
    MaxTouches = 2
    EndpointsPerActor = 1
    Retention = 1
    TopCallerCount = 2
    MaxTrackedCallers = 3
    LatencyWindowSize = 2
    Modes <- MCModes
INVARIANTS
    GraphHangsTogether
    ActivityIsDrawn
    AskedIsShown
    TopAreTheMost
    PercentileIsOfLatest
CHECK_DEADLOCK FALSE
