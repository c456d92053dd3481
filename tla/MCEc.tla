-------------------------------- MODULE MCEc --------------------------------
(***************************************************************************)
(* The hardware side of the daemon in one run: the EC, a custom curve, and  *)
(* the sensors; "focus" says which part of it moves, the others rest where  *)
(* they start.                                                              *)
(***************************************************************************)
EXTENDS MCEcSession, FanCurves, Sensors

\* What clients put into the points of a curve; they send up to three.
CONSTANTS RawTemps, RawRpms
MCCurves == UNION {[1 .. n -> [temp : RawTemps, rpm : RawRpms]] : n \in 1 .. 3}

VARIABLE focus

CurveRests == raw = << >> /\ fan = Rejected /\ temp = SweepTo

CpuRests == chip = NoFile /\ other = NoFile /\ file = NoFile /\ failures = 0 /\ missed = 0
GpuRests ==
    /\ control = "auto" /\ legible = TRUE /\ status = "suspended" /\ users = FALSE
    /\ countdown = 0 /\ nvml = "untried" /\ snapshot = Unread /\ step = "control"
EnergyRests == counter = 0 /\ last = -1 /\ drawn = 0 /\ delta = -1

HardwareInit ==
    \/ focus = "session" /\ SessionInit /\ CurveRests /\ CpuRests /\ GpuRests /\ EnergyRests
    \/ focus = "curve" /\ SessionInit /\ CurveInit /\ CpuRests /\ GpuRests /\ EnergyRests
    \/ focus = "cpu" /\ SessionInit /\ CurveRests /\ CpuInit /\ GpuRests /\ EnergyRests
    \/ focus = "gpu" /\ SessionInit /\ CurveRests /\ CpuRests /\ GpuInit /\ EnergyRests
    \/ focus = "energy" /\ SessionInit /\ CurveRests /\ CpuRests /\ GpuRests /\ EnergyInit

HardwareNext ==
    \/ /\ focus = "session" /\ SessionNext
       /\ UNCHANGED <<focus, curveVars, cpuVars, gpuVars, energyVars>>
    \/ /\ focus = "curve" /\ Warm
       /\ UNCHANGED <<focus, sessionVars, cpuVars, gpuVars, energyVars>>
    \/ /\ focus = "cpu" /\ CpuNext
       /\ UNCHANGED <<focus, sessionVars, curveVars, gpuVars, energyVars>>
    \/ /\ focus = "gpu" /\ GpuNext
       /\ UNCHANGED <<focus, sessionVars, curveVars, cpuVars, energyVars>>
    \/ /\ focus = "energy" /\ EnergyNext
       /\ UNCHANGED <<focus, sessionVars, curveVars, cpuVars, gpuVars>>

\* Sampling goes on, and so does the kernel's clock.
HardwareSpec ==
    /\ HardwareInit
    /\ [][HardwareNext]_<<focus, sessionVars, curveVars, cpuVars, gpuVars, energyVars>>
    /\ SessionFairness
    /\ WF_gpuVars(focus = "gpu" /\ GpuRead)
    /\ WF_gpuVars(focus = "gpu" /\ Age)
    /\ WF_gpuVars(focus = "gpu" /\ AutoSuspend)
=============================================================================
