SPECIFICATION PartsSpec
CONSTANTS
    p1 = p1
    p2 = p2
    People <- MCPeople
    Numbers <- MCNumbers
    Nobody = Nobody
    NoNumber = NoNumber
    Attempts = {1, 2}
    Logins = {1, 2}
    MaxScreens = 1
    Teams <- MCTeams
    Lists <- MCLists
    MaxChanges = 2
    Texts <- MCTexts
    Matching <- MCMatching
    MaxEntries = 2
    MaxTexts = 2
    Keys = {m1, m2, m3}
    Dates = {1, 2}
    MaxPosts = 1
    MaxPuts = 2
    MaxListens = 1
    MaxEvents = 2
    t1 = t1
    t2 = t2
    t3 = t3
    NoLogo = NoLogo
    textA = textA
    textB = textB
    NoText = NoText
    Garbled = Garbled
    Malformed = Malformed
CHECK_DEADLOCK FALSE

INVARIANTS
    PartsTypeOK
    SignedInIsRegistered
    ScreenMatchesUser
    ListsAreTrue
    WritesKeepOrder

PROPERTIES
    AllArrives
