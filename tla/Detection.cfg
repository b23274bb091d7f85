SPECIFICATION Spec
CONSTANTS
    w1 = w1
    w2 = w2
    Workers = {w1, w2}
    Trainers = {"f1", "f2"}
    Modes <- AllModes
    UniqueLimit = 1
    Window = 2
    BaselineTTL = 2
    MinUnique = 1
    MinSamples = 1
    MaxSamples = 2
    SampleEvery = 1
    RetrainEvery = 1
    FailRate = 1
    UserLimit = 1
    TrackerTTL = 1
    MinBaseline = 3
    Share = 2
    Burst = 1
    History = 2
    MinGaps = 1
    IdleTTL = 1
    Cooldown = 2
    MaxKeys = 1
SYMMETRY Symmetric
INVARIANTS
    BurstIsAlerted
    TraversalIsAlerted
    ListedBurstIsAlerted
PROPERTIES
    EventsSpaced
    ModelNeverOlder
CHECK_DEADLOCK FALSE
