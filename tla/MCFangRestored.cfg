CONSTANTS
    None = None
    Firmware = Firmware
    Unsure = Unsure
    green = green
    Effects <- MCEffects
    MinRpm = 2200
    MaxRpm = 5000
    HasCpuBoostOc = TRUE
    HasBho = TRUE
    HasLogo = TRUE
    RetryTicks = 1
    MayStabilise = FALSE
    Commands <- ThermalCommands
    InitialDisks <- ThermalDisks
    CpuReadings <- ThermalCpu
    GpuReadings <- ThermalGpu
    PowerReadings <- NoPower
SPECIFICATION Spec
INVARIANT
    RestoredIsInForce
