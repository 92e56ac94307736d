SPECIFICATION PartsSpec
CONSTANTS
    Writers = {1, 2, 3}
    MaxGroup = 2
    WriteBufferSize = 0
    L0CompactionTrigger = 1
    L0SlowdownWritesTrigger = 1
    L0StopWritesTrigger = 2
    MaxFailures = 1
    MaxWrites = 2
    MaxMishaps = 3
    BufferSize = 3
    Sizes = {1, 2, 4, 7}
    MaxBytes = 9
    MaxItems = 4
CHECK_DEADLOCK FALSE

INVARIANTS
    PartsTypeOK
    RecoveryIsSound
    ServedInOrder
    EnvironmentKeepsOrder

PROPERTIES
    ImplementsContract
    NothingAfterSyncError
    StoreMakesProgress
