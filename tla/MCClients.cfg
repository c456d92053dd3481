CONSTANTS
    None = None
    BusCapacity = 2
    Connections = 2
    Bounds <- MCBounds
    Calls = {c1, c2, c3}
    QueueSize = 1
    MostConnections = 2
    Mine = Mine
    Another = Another
    Unknown = Unknown
    MostSaves = 2
    MostLoads = 2
    MostEnds = 1
    MostOutside = 1
    Absent = Absent
    Laptop = Laptop
    Desk = Desk
    Order <- MCOrder
    Modes <- MCModes
    Off = Off
    MostChanges = 2
    MostRequests = 1
SPECIFICATION AppSpec
INVARIANTS
    PageShowsTheStatus
    AnswersAreTheirs
    IncompatibleDaemonsAreNotChanged
    SettingsAgree
PROPERTIES
    OnlyTheRateChanges
CHECK_DEADLOCK FALSE
