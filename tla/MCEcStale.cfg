CONSTANTS
    None = None
    Firmware = Firmware
    Unsure = Unsure
    Effects <- MCEffects
    MinRpm <- MCMinRpm
    MaxRpm <- MCMaxRpm
    Interfaces <- MCInterfaces
    Approval <- MCApproval
    HasCpuBoostOc = TRUE
    HasBho = TRUE
    HasLogo = TRUE
    FrameRows = 2
    FrameAttempts = 3
    Applied <- MCApplied
    Targets <- MCTargets
    Pid <- MCPid
    PowerOn <- MCPowerOn
    StaticColours <- MCColours
    StaleAnswers = TRUE
SPECIFICATION SessionSpec
INVARIANT AnswersBelongToTheirRequest
CHECK_DEADLOCK FALSE
