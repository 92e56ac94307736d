SPECIFICATION FairSpec
CONSTANTS
    Judges = {j1, j2}
    Teams = {t1}
    Nobody = Nobody
    Marks = {1, 5}
    Notes = {empty}
    DefaultMark = 1
    EmptyNote = empty
    NoSheet = NoSheet
    NoForm = NoForm
    MaxSubmits = 2
    MaxKills = 0
    MaxConfigs = 1
CHECK_DEADLOCK FALSE
PROPERTY ClosedEditsStayClosed
