SPECIFICATION FairSpec
CONSTANTS
    j1 = j1
    j2 = j2
    t1 = t1
    t2 = t2
    t3 = t3
    GroupA = GroupA
    GroupB = GroupB
    NoGroup = NoGroup
    Nobody = Nobody
    NoTeam = NoTeam
    Quota = 2
    MaxInFlight = 2
    Calls = {c1, c2, c3}
    Judges <- MCJudges
    Teams <- MCTeams
    JudgeGroup <- MCJudgeGroup
    TeamGroup <- MCTeamGroup
    KeyOrder <- MCKeyOrder
CHECK_DEADLOCK FALSE
PROPERTY OnlyOwnCallsAddTeams
