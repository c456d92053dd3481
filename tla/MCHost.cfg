CONSTANTS
    None = None
    Process = {p1, p2}
    Paths = {"run", "alt", "dev"}
    Invocations <- SeparatePaths
    Descendants = {"child"}
    PipeSize = 1
    OutputLimit = 1
    MostOutput = 2
SPECIFICATION HostSpec
INVARIANTS
    HardwareIsExclusive
    ServingIsReachable
    OkMeansComplete
    KillReachesTheGroup
PROPERTIES
    OnlyStaleSocketsAreRemoved
    RefusalHasCause
    SignalledDaemonsEnd
    HelperReturns
CHECK_DEADLOCK FALSE
