SPECIFICATION LobbySpec
CONSTANTS
    Session = {s1, s2, s3}
    MaxInt = 5
    RequestedPIDs = {0}
    MaxLogins = 2
    LoginFirst = FALSE
    Requests <- DuelAndOpen
    MeshReports <- NoReports
    Capacities = {}
    AttrMaps = {}
    GameStates = {}
    SettingBits = {}
    MaxGames = 2
    MaxMatches = 3
SYMMETRY SessionSymmetry
INVARIANTS
    LobbyTypeOK
    SessionStateMachine
    HostIsMember
    NoMissedMatch
PROPERTIES
    ImplementsPhases
