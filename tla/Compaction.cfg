SPECIFICATION Spec
CONSTANTS
    Keys = {1, 2, 3}
    Earlier = {1, 3}
    NumLevels = 3
    MaxMemCompactLevel = 2
    L0CompactionTrigger = 2
    MaxBytesForLevel1 = 2
    LevelGrowth = 2
    MaxFileSize = 2
    MaxGrandParentOverlapBytes = 1
    ExpandedCompactionByteSizeLimit = 3
    MaxSeq = 4
    MaxSnapshots = 1
    MaxManual = 1
    Deletable = {1}
INVARIANTS TypeOK NeededFilesExist ReadsSeeTheirSnapshot OverlapNeedsGapFlush
CHECK_DEADLOCK FALSE
