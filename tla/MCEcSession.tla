---------------------------- MODULE MCEcSession ----------------------------
EXTENDS EcSession

Wave == 1
Red == 255
MCEffects == {Wave, Red}
MCColours == {Red}

Quiet ==
    [perf_mode |-> "balanced", cpu_boost |-> "medium", gpu_boost |-> "medium",
     fan |-> AutoFan, fan_curve |-> << >>,
     bho_enabled |-> FALSE, bho_threshold |-> 80,
     kbd_brightness |-> 60, kbd_effect |-> Wave, logo_led |-> "breathing",
     auto_power |-> FALSE, ac_profile |-> "balanced", battery_profile |-> "silent",
     ac_fan |-> AutoFan, battery_fan |-> AutoFan]
Loud ==
    [Quiet EXCEPT !.perf_mode = "custom", !.fan = ManualFan(2200), !.cpu_boost = "boost",
                  !.kbd_effect = Red, !.logo_led = "off"]
MCApplied == {Quiet, Loud}
MCTargets == {2200}
MCPid == "02B7"
MCMinRpm == ModelOf(MCPid).min
MCMaxRpm == ModelOf(MCPid).max
MCInterfaces ==
    LET mouse == [pid |-> "0084", vendor |-> FALSE]
        unknown == [pid |-> "9999", vendor |-> TRUE]
        laptop == [pid |-> MCPid, vendor |-> FALSE]
    IN  {<< >>, <<mouse>>, <<unknown>>, <<mouse, unknown, laptop>>}
MCApproval == [digits |-> 4, hex |-> TRUE, pid |-> "9999"]

\* A controller that starts with the quiet settings, its fans automatic.
MCPowerOn ==
    [zone |-> [z \in 1..2 |-> [mode |-> 0, manual |-> 0, rpm |-> 50]],
     cpu |-> 0, gpu |-> 1, bho |-> 80, brightness |-> 153,
     rows |-> [r \in Rows |-> Wave], shown |-> [r \in Rows |-> Wave],
     logo_effect |-> 2, logo_on |-> 1]
=============================================================================
