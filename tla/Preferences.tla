---------------------------- MODULE Preferences ----------------------------
(***************************************************************************)
(* The user's preferences (AppliedState, state.rs) and every pure function *)
(* of core.rs that derives new preferences from old ones: what a loaded    *)
(* state file is normalised to, what a client's command asks for, and what *)
(* power automation asks for.                                              *)
(***************************************************************************)
EXTENDS FanPolicy

CONSTANTS
    HasCpuBoostOc, HasBho, HasLogo,  \* features of the detected laptop model
    Effects                          \* keyboard effects, told apart by identity

ASSUME FeaturesAssumption ==
    /\ HasCpuBoostOc \in BOOLEAN
    /\ HasBho \in BOOLEAN
    /\ HasLogo \in BOOLEAN

PerfMode == {"silent", "balanced", "gaming", "custom"}
Boost == {"low", "medium", "high", "boost"}
LogoMode == {"off", "static", "breathing"}

AppliedState ==
    [perf_mode : PerfMode, cpu_boost : Boost, gpu_boost : Boost,
     fan : FanMode, fan_curve : Seq(CurvePoint),
     bho_enabled : BOOLEAN, bho_threshold : Nat,
     kbd_brightness : Nat, kbd_effect : Effects, logo_led : LogoMode,
     auto_power : BOOLEAN, ac_profile : PerfMode, battery_profile : PerfMode,
     ac_fan : FanMode, battery_fan : FanMode]

-----------------------------------------------------------------------------
(* Loading: a state file may be old, edited, or from another laptop. *)

FanOrAuto(present, fan) ==
    LET normal == NormalizeFan(present, fan)
    IN  IF normal = Rejected THEN AutoFan ELSE normal

\* An empty sequence is "no saved curve".
SavedCurve(points) ==
    LET normal == NormalizeFan(TRUE, CurveFan(points))
    IN  IF normal = Rejected THEN << >> ELSE normal.points

CapBoost(boost, allowed) == IF boost = "boost" /\ ~allowed THEN "high" ELSE boost

\* The limits that hold on every model, with or without an open EC.
SanitizeCommon(st) ==
    [st EXCEPT !.gpu_boost = CapBoost(@, FALSE),
               !.bho_threshold = Clamp(@, 50, 80),
               !.kbd_brightness = Clamp(@, 0, 100)]

\* Normalisation against the detected model.  An active curve replaces the
\* remembered one; otherwise the remembered one is validated by itself.
SanitizeForModel(st) ==
    LET fan == FanOrAuto(TRUE, st.fan)
    IN  [st EXCEPT
            !.cpu_boost = CapBoost(@, HasCpuBoostOc),
            !.bho_enabled = @ /\ HasBho,
            !.fan = fan,
            !.fan_curve = SavedCurve(IF fan.kind = "curve" THEN fan.points ELSE @),
            !.ac_fan = FanOrAuto(TRUE, @),
            !.battery_fan = FanOrAuto(TRUE, @)]

SanitizeLoadedState(present, st) ==
    SanitizeCommon(IF present THEN SanitizeForModel(st) ELSE st)

-----------------------------------------------------------------------------
(* Commands. *)

\* A curve that becomes active is also remembered for later.
WithFan(st, fan) ==
    [st EXCEPT !.fan = fan,
               !.fan_curve = IF fan.kind = "curve" THEN fan.points ELSE @]

\* has_cpu_boost_oc is reported FALSE while no EC is open (razer.rs info).
CapCpuBoost(present, st) ==
    [st EXCEPT !.cpu_boost = CapBoost(@, present /\ HasCpuBoostOc)]

SourceProfile(st, on_ac) == IF on_ac THEN st.ac_profile ELSE st.battery_profile
SourceFan(st, on_ac) == IF on_ac THEN st.ac_fan ELSE st.battery_fan

\* What automation asks for on a power source.
AutomationState(present, st, on_ac) ==
    WithFan(CapCpuBoost(present, [st EXCEPT !.perf_mode = SourceProfile(st, on_ac)]),
            SourceFan(st, on_ac))

OrKeep(option, old) == IF option = None THEN old ELSE option

SetPerfModeState(present, st, cmd) ==
    IF cmd.gpu_boost = "boost" THEN Rejected
    ELSE CapCpuBoost(present,
            [st EXCEPT !.perf_mode = cmd.perf_mode,
                       !.cpu_boost = OrKeep(cmd.cpu_boost, @),
                       !.gpu_boost = OrKeep(cmd.gpu_boost, @)])

SetFanState(present, st, cmd) ==
    LET fan == NormalizeFan(present, cmd.fan)
    IN  IF fan = Rejected THEN Rejected ELSE WithFan(st, fan)

SetBhoState(present, st, cmd) ==
    IF ~(present /\ HasBho) THEN Rejected
    ELSE [st EXCEPT !.bho_enabled = cmd.enabled,
                    !.bho_threshold = Clamp(cmd.threshold, 50, 80)]

SetLightingState(present, st, cmd) ==
    IF cmd.logo_led # None /\ ~(present /\ HasLogo) THEN Rejected
    ELSE [st EXCEPT !.kbd_brightness =
                        IF cmd.brightness = None THEN @ ELSE Clamp(cmd.brightness, 0, 100),
                    !.kbd_effect = OrKeep(cmd.kbd_effect, @),
                    !.logo_led = OrKeep(cmd.logo_led, @)]

\* Enabling automation also adopts the policy of the source last sampled.
SetAutoPowerState(present, last_on_ac, st, cmd) ==
    LET ac_fan == NormalizeFan(present, cmd.ac_fan)
        battery_fan == NormalizeFan(present, cmd.battery_fan)
        policy == [st EXCEPT !.auto_power = cmd.enabled,
                             !.ac_profile = cmd.ac_profile,
                             !.battery_profile = cmd.battery_profile,
                             !.ac_fan = ac_fan, !.battery_fan = battery_fan]
    IN  CASE Rejected \in {ac_fan, battery_fan} -> Rejected
          [] Rejected \notin {ac_fan, battery_fan} /\ cmd.enabled /\ last_on_ac # None ->
                WithFan([policy EXCEPT !.perf_mode = SourceProfile(policy, last_on_ac)],
                        SourceFan(policy, last_on_ac))
          [] OTHER -> policy

\* The preferences a command asks for, or Rejected.
Desired(present, last_on_ac, st, cmd) ==
    CASE cmd.op = "SetPerfMode" -> SetPerfModeState(present, st, cmd)
      [] cmd.op = "SetFan" -> SetFanState(present, st, cmd)
      [] cmd.op = "SetBho" -> SetBhoState(present, st, cmd)
      [] cmd.op = "SetLighting" -> SetLightingState(present, st, cmd)
      [] cmd.op = "SetAutoPower" -> SetAutoPowerState(present, last_on_ac, st, cmd)

\* Commands whose success supersedes a pending automatic retry.
Supersedes(cmd) == cmd.op \in {"SetPerfMode", "SetFan", "SetAutoPower"}

OptBoost == Boost \cup {None}
Command ==
    [op : {"SetPerfMode"}, perf_mode : PerfMode, cpu_boost : OptBoost, gpu_boost : OptBoost]
    \cup [op : {"SetFan"}, fan : FanMode]
    \cup [op : {"SetBho"}, enabled : BOOLEAN, threshold : Nat]
    \cup [op : {"SetLighting"}, brightness : Nat \cup {None},
          kbd_effect : Effects \cup {None}, logo_led : LogoMode \cup {None}]
    \cup [op : {"SetAutoPower"}, enabled : BOOLEAN,
          ac_profile : PerfMode, battery_profile : PerfMode,
          ac_fan : FanMode, battery_fan : FanMode]
=============================================================================
