----------------------------- MODULE MCFangCore -----------------------------
(* Small instances of FangCore: one for the thermal guard, one for power    *)
(* automation and persistence.                                              *)
EXTENDS FangCore, TLC

CONSTANT green  \* one keyboard effect is enough: nothing depends on which

MCEffects == {green}

\* A valid curve for a model with limits 2200..5000: 2800 RPM at 60 C.
MCCurve == <<[temp |-> 50, rpm |-> 2200], [temp |-> 100, rpm |-> 5000]>>

\* AppliedState::default.
DefaultState ==
    [perf_mode |-> "balanced", cpu_boost |-> "medium", gpu_boost |-> "medium",
     fan |-> AutoFan, fan_curve |-> << >>,
     bho_enabled |-> FALSE, bho_threshold |-> 80,
     kbd_brightness |-> 60, kbd_effect |-> green, logo_led |-> "static",
     auto_power |-> FALSE, ac_profile |-> "balanced", battery_profile |-> "silent",
     ac_fan |-> AutoFan, battery_fan |-> AutoFan]

SetMode(mode, cpu_boost) ==
    [op |-> "SetPerfMode", perf_mode |-> mode, cpu_boost |-> cpu_boost, gpu_boost |-> None]
SetFan(fan) == [op |-> "SetFan", fan |-> fan]
SetAutoPower(enabled) ==
    [op |-> "SetAutoPower", enabled |-> enabled,
     ac_profile |-> "balanced", battery_profile |-> "silent",
     ac_fan |-> AutoFan, battery_fan |-> ManualFan(9000)]

-----------------------------------------------------------------------------
(* The thermal guard: software fan control through heat, blind sensors,     *)
(* lost handles, sleeps and crashes.                                        *)

ThermalCommands == {SetFan(AutoFan), SetFan(CurveFan(MCCurve))}
ThermalDisks == {[DefaultState EXCEPT !.fan = CurveFan(MCCurve), !.fan_curve = MCCurve]}
ThermalCpu == {None, 60, 90, 95}
ThermalGpu == {None, 84, 87}
NoPower == {None}

-----------------------------------------------------------------------------
(* Automation and persistence: two power sources, explicit choices, a state *)
(* file that needs normalising, saves that fail.                            *)

AutomationCommands ==
    {SetMode("gaming", "boost"), SetAutoPower(TRUE), SetFan(ManualFan(9000)),
     [op |-> "SetBho", enabled |-> TRUE, threshold |-> 95],
     [op |-> "SetLighting", brightness |-> 120, kbd_effect |-> None, logo_led |-> "off"]}
\* Hand-edited: an overclocked GPU, a battery charge limit and a manual speed
\* beyond what the laptop has.
AutomationDisks ==
    {[DefaultState EXCEPT !.auto_power = TRUE, !.cpu_boost = "boost", !.gpu_boost = "boost",
                          !.bho_enabled = TRUE, !.bho_threshold = 95,
                          !.kbd_brightness = 120, !.logo_led = "off",
                          !.battery_fan = ManualFan(9000)]}
AutomationPower == {TRUE, FALSE, None}
Cool == {60}
NoGpu == {None}

-----------------------------------------------------------------------------
(* Recovery: what must eventually happen once the environment is stable.    *)

RecoveryCommands == {SetMode("gaming", None)}
RecoveryDisks == {[DefaultState EXCEPT !.auto_power = TRUE, !.battery_fan = ManualFan(5000)]}
RecoveryPower == {TRUE, FALSE}
=============================================================================
