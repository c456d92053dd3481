CONSTANTS
    None = None
    Firmware = Firmware
    Unsure = Unsure
    green = green
    Effects <- MCEffects
    MinRpm = 2200
    MaxRpm = 5000
    HasCpuBoostOc = FALSE
    HasBho = TRUE
    HasLogo = TRUE
    RetryTicks = 1
    MayStabilise = FALSE
    Commands <- AutomationCommands
    InitialDisks <- AutomationDisks
    CpuReadings <- Cool
    GpuReadings <- NoGpu
    PowerReadings <- AutomationPower
SPECIFICATION Spec
INVARIANTS
    RestartKeepsPreferences
    PreferencesFitTheModel
PROPERTIES
    CommandsAreTransactions
    ChoiceOutlivesRetries
