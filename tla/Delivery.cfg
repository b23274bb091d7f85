SPECIFICATION Spec
CONSTANTS
    x1 = x1
    x2 = x2
    x3 = x3
    x4 = x4
    Events <- MCEvents
    NoEvent = NoEvent
    Senders = {s1, s2}
    Workers = {w1}
    QueueSize = 1
    Room = 3
    TTL = 1
    Sinks = {"kafka", "clickhouse"}
    SinkSize = 2
    SinkBatch = 2
    Files = {f1, f2, f3}
    NoFile = NoFile
    ChanSize = 2
    BatchSize = 2
    Modes <- MCModes
INVARIANTS
    FlushedAtExit
PROPERTIES
    KeepsIntake
    DuplicateWasTaken
    EveryLineInOrder
    KeepsFollowing
    LossIsCounted
CHECK_DEADLOCK FALSE
