CONSTANTS
    None = None
    Firmware = Firmware
    Unsure = Unsure
    Effects <- MCEffects
    MinRpm <- MCMinRpm
    MaxRpm <- MCMaxRpm
    Interfaces <- MCInterfaces
    Approval <- MCApproval
    HasCpuBoostOc = TRUE
    HasBho = TRUE
    HasLogo = TRUE
    FrameRows = 2
    FrameAttempts = 3
    Applied <- MCApplied
    Targets <- MCTargets
    Pid <- MCPid
    PowerOn <- MCPowerOn
    StaticColours <- MCColours
    StaleAnswers = FALSE
    RawTemps = {29, 30, 57, 74, 100}
    RawRpms = {0, 2249, 2250, 3551, 6000}
    RawCurves <- MCCurves
    SweepFrom = 28
    SweepTo = 101
    SensorFiles = {"hwmon1", "hwmon2"}
    RediscoverAfter = 5
    SuspendDelay = 2
    MaxEnergy = 3
SPECIFICATION HardwareSpec
INVARIANTS
    FramesAreWhole
    SettingsHold
    TargetIsOnTheCurve
    AcceptedCurvesAreStable
    CpuSensorIsFoundAgain
PROPERTIES
    CallsAreAsEcDeviceSays
    CallsReturn
    HotterIsNeverSlower
    GpuFallsAsleep
    EnergyIsTrue
CHECK_DEADLOCK FALSE
