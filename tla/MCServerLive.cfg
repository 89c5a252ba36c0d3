SPECIFICATION FairWarmSpec
CONSTANTS
    Session = {s1, s2}
    MaxInt = 3
    RequestedPIDs = {0}
    MaxLogins = 2
    LoginFirst = TRUE
    Requests <- QuickMatch
    MeshReports <- NoReports
    Capacities = {}
    AttrMaps = {}
    GameStates = {131}
    SettingBits = {}
    MaxGames = 1
    MaxMatches = 2
    Commands = {"reset", "match", "remove", "advance", "replay", "cancel", "hangup"}
    OutCap = 1
    Honest = TRUE
    Backpressure = TRUE
    WritesFail = FALSE
    Locking = TRUE
    MaxRequests = 2
INVARIANTS
    StateTold
PROPERTIES
    RequestsAnswered
    DepartureTold
