CONSTANTS
    None = None
    Firmware = Firmware
    Unsure = Unsure
    green = green
    Effects <- MCEffects
    MinRpm = 2200
    MaxRpm = 5000
    HasCpuBoostOc = FALSE
    HasBho = TRUE
    HasLogo = TRUE
    RetryTicks = 1
    MayStabilise = FALSE
    Commands <- RecoveryCommands
    InitialDisks <- RecoveryDisks
    CpuReadings <- Cool
    GpuReadings <- NoGpu
    PowerReadings <- RecoveryPower
SPECIFICATION Spec
PROPERTY
    AutomationActsOnlyOnTransitions
