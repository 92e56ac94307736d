SPECIFICATION PartsSpec
CONSTANTS
    j1 = j1
    j2 = j2
    t1 = t1
    t2 = t2
    t3 = t3
    t4 = t4
    GroupA = GroupA
    GroupB = GroupB
    NoGroup = NoGroup
    Nobody = Nobody
    NoTeam = NoTeam
    Quota = 2
    MaxInFlight = 3
    Calls = {c1, c2, c3}
    Judges <- MCJudges
    Teams <- MCTeams
    JudgeGroup <- MCJudgeGroup
    TeamGroup <- MCTeamGroup
    KeyOrder <- MCKeyOrder
SYMMETRY CallSymmetry
CHECK_DEADLOCK FALSE

INVARIANTS
    TypeOK
    ListsAreLegal
    OwnersAgree
    NobodyLeftShort
    LoopsComputeClosedForm

PROPERTIES
    ReturnNeedsLateScore
    SerialCallsKeepContract
    LoopHaltsUnlessSpins
