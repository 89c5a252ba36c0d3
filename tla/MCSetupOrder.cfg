SPECIFICATION WarmSpec
CONSTANTS
    Session = {s1, s2, s3}
    MaxInt = 4
    RequestedPIDs = {0}
    MaxLogins = 3
    LoginFirst = TRUE
    Requests <- QuickMatch
    MeshReports <- NoReports
    Capacities = {}
    AttrMaps = {}
    GameStates = {}
    SettingBits = {}
    MaxGames = 1
    MaxMatches = 3
    Commands = {"match"}
    OutCap = 1
    Honest = TRUE
    Backpressure = FALSE
    WritesFail = FALSE
    Locking = FALSE
    MaxRequests = 2
SYMMETRY SessionSymmetry
INVARIANTS
    SetupBeforeJoining
