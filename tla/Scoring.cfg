SPECIFICATION Spec
CONSTANTS
    Judges = {j1, j2}
    Teams = {t1}
    Nobody = Nobody
    Marks = {1, 5}
    Notes = {empty, note}
    DefaultMark = 1
    EmptyNote = empty
    NoSheet = NoSheet
    NoForm = NoForm
    MaxSubmits = 2
    MaxKills = 1
    MaxConfigs = 1
SYMMETRY JudgeSymmetry
CHECK_DEADLOCK FALSE

INVARIANTS
    TypeOK
    JudgedMatchesSheets
    UntouchedFormIsStored

PROPERTIES
    ClosedGatesHold
