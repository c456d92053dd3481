--------------------------- MODULE MCPeripherals ---------------------------
(* Two clients beside the rescan loop, two monitors that can be swapped.    *)
EXTENDS Peripherals, FiniteSets

MCMonitors == {[preset |-> 4, luminance |-> 255], [preset |-> 5, luminance |-> 255]}

MCRequests ==
    {[op |-> "SetColorPreset", value |-> 5], [op |-> "SetMonitorBrightness", value |-> 120],
     [op |-> "SetGpuMode", mode |-> "dedicated"], [op |-> "RescanDdc"]}

\* One request of each kind is enough to lose an update.
RetryRequests ==
    {[op |-> "SetColorPreset", value |-> 5], [op |-> "SetGpuMode", mode |-> "dedicated"]}
=============================================================================
