SPECIFICATION LobbySpec
CONSTANTS
    Session = {s1, s2, s3}
    MaxInt = 5
    RequestedPIDs = {1}
    MaxLogins = 3
    LoginFirst = TRUE
    Requests <- WideAndSolo
    MeshReports <- LinkReports
    Capacities <- LowCapacities
    AttrMaps <- EmptyMap
    GameStates = {130}
    SettingBits = {284}
    MaxGames = 1
    MaxMatches = 3
SYMMETRY SessionSymmetry
INVARIANTS
    RosterTables
    DistinctSlots
PROPERTIES
    StableSlots
    JoinCompletion
    NoOverfill
