SPECIFICATION FairServerSpec
CONSTANTS
    Session = {s1, s2}
    MaxInt = 3
    RequestedPIDs = {0}
    MaxLogins = 2
    LoginFirst = TRUE
    Requests <- QuickMatch
    MeshReports <- LinksUp
    Capacities = {2}
    AttrMaps <- EmptyMap
    GameStates = {131}
    SettingBits = {285}
    MaxGames = 1
    MaxMatches = 2
    Commands = {"login", "match", "mesh", "reset", "cancel", "finalize", "remove", "playerAttrs", "capacity", "settings", "advance", "gameAttrs", "replay", "other", "hangup"}
    OutCap = 1
    Honest = FALSE
    Backpressure = TRUE
    WritesFail = TRUE
    Locking = FALSE
    MaxRequests = 2
INVARIANTS
    ServerTypeOK
PROPERTIES
    AnsweredOrWedged
CHECK_DEADLOCK FALSE
