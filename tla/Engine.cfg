SPECIFICATION PartsSpec
CONSTANTS
    Threads = {1, 2, 3}
    Processes = {"p", "q"}
    NoProcess = "none"
    ProcessOf <- MCProcessOf
CHECK_DEADLOCK FALSE

INVARIANTS
    PartsTypeOK
    TwoHoldersNeedStrayClose
    HeldIsAlive
    TableFindsAll
    ShowsItsSnapshot
    MemtableHolds
    LogsReadBack
    RepairKeepsAll
    RecordsReadBack
    MessagesReadBack
    TextsReadBack
