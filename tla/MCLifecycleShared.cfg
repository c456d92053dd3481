CONSTANTS
    None = None
    Process = {p1, p2}
    Paths = {"run"}
    Invocations <- SharedPath
SPECIFICATION Spec
PROPERTY
    LiveListenersAreNeverDeleted
CHECK_DEADLOCK FALSE
