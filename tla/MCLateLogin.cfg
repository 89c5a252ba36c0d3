SPECIFICATION LobbySpec
CONSTANTS
    Session = {s1, s2, s3}
    MaxInt = 5
    RequestedPIDs = {1}
    MaxLogins = 3
    LoginFirst = FALSE
    Requests <- WideOnly
    MeshReports <- LinkReports
    Capacities = {}
    AttrMaps = {}
    GameStates = {}
    SettingBits = {}
    MaxGames = 1
    MaxMatches = 3
SYMMETRY SessionSymmetry
INVARIANT
    DistinctSlots
