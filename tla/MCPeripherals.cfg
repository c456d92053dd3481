CONSTANTS
    None = None
    Clients = {c1, c2}
    Rescanner = Rescanner
    Curated = {4, 5, 7}
    Offered = {4, 5, 8}
    BrightMax = 255
    GpuModes = {"hybrid", "dedicated"}
    Monitors <- MCMonitors
    Requests <- MCRequests
SPECIFICATION FairSpec
INVARIANTS
    GpuIsPublished
    CachedPresetIsShown
PROPERTIES
    OnlyGpuSwitchesLoseUpdates
    RetriedWithoutGpuSwitch
