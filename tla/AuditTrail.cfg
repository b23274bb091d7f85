SPECIFICATION Spec
CONSTANTS
    Handlers = {h1}
    Daily = Daily
    Batch = 2
    Month = 1
    Retention = 1
    Modes <- AllModes
    MaxRecords = 4
    MaxTime = 3
INVARIANTS
    AlarmsAreReal
    DamageIsFound
    CheckpointCovers
PROPERTIES
    OnlyOldIsPurged
CHECK_DEADLOCK FALSE
