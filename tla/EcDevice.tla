------------------------------ MODULE EcDevice ------------------------------
(***************************************************************************)
(* The laptop's embedded controller as fangd's backend (hw/razer.rs) leaves *)
(* it: the outcomes of one backend call, each a sequence of EC commands     *)
(* that may fail at any point.                                              *)
(*                                                                          *)
(* The registers record what the daemon can rely on.  A command whose       *)
(* acknowledgement is lost, or that was never reached, leaves its register  *)
(* Unsure: it may hold the old or the new value.  A transport error also    *)
(* invalidates the handle, after which nothing more is sent.                *)
(***************************************************************************)
EXTENDS Preferences

CONSTANTS
    Firmware,  \* the EC's own automatic fan curve is in charge of a zone
    Unsure     \* a register whose content no acknowledgement confirms

Zones == {"fan1", "fan2"}

\* The EC has no silent mode: Silent rides on Custom (api.rs to_ec).
EcMode(mode) == IF mode = "silent" THEN "custom" ELSE mode

ZoneSetting(mode, fan) == [mode |-> EcMode(mode), fan |-> fan]

\* The markers cannot be taken for a speed or for a zone's setting.
ASSUME EcMarkersAssumption ==
    /\ Firmware \notin Int
    /\ Unsure \notin [mode : PerfMode, fan : Nat \cup {Firmware}]

EcBoosts(st) ==
    CASE st.perf_mode = "silent" -> <<"low", "low">>
      [] st.perf_mode = "custom" ->
            <<CapBoost(st.cpu_boost, HasCpuBoostOc), CapBoost(st.gpu_boost, FALSE)>>
      [] OTHER -> None

\* Everything a full apply sends beside the fan zones.
EcSettings(st) ==
    [boosts |-> EcBoosts(st),
     bho |-> IF HasBho THEN <<st.bho_enabled, st.bho_threshold>> ELSE None,
     lighting |-> <<st.kbd_brightness, st.kbd_effect>>,
     logo |-> IF HasLogo THEN st.logo_led ELSE None]

-----------------------------------------------------------------------------
(* A backend h is [live, zone, settings]: is the HID handle usable, and     *)
(* what do the EC's registers hold.                                         *)

Zone == {Unsure} \cup [mode : PerfMode, fan : Nat \cup {Firmware}]
Settings ==
    [boosts : (Boost \X Boost) \cup {None}, bho : (BOOLEAN \X Nat) \cup {None},
     lighting : Nat \X Effects, logo : LogoMode \cup {None}]

HwType == [live : BOOLEAN, zone : [Zones -> Zone], settings : Settings \cup {Unsure}]

\* The process exits: the registers stay as they are.
Closed(h) == [h EXCEPT !.live = FALSE]
OkWith(h) == [ok |-> TRUE, h |-> h]
FailWith(h) == [ok |-> FALSE, h |-> h]

\* The registers after every command of apply_state_once was acknowledged:
\* software control always starts at the model's maximum.
FullyApplied(h, st) ==
    LET fan == IF st.fan = AutoFan THEN Firmware ELSE MaxRpm
    IN  [h EXCEPT !.zone = [z \in Zones |-> ZoneSetting(st.perf_mode, fan)],
                  !.settings = EcSettings(st)]

Disturbed(h) == [h EXCEPT !.zone = [z \in Zones |-> Unsure], !.settings = Unsure]

\* A transport error drops the handle: whatever made the device unreachable
\* may have reset it too.
Lost(h) == [Disturbed(h) EXCEPT !.live = FALSE]

\* The zones whose return to firmware control was acknowledged, or which were
\* there already: writing a register's own value cannot disturb it.
InFirmware(h, mode, acked) ==
    LET setting == ZoneSetting(mode, Firmware)
    IN  [h EXCEPT !.zone = [z \in Zones |->
            IF z \in acked \/ @[z] = setting THEN setting ELSE Unsure]]

\* Both zones are tried even when the first fails (restore_auto_commands).
RestoreOutcomes(h, mode) ==
    IF ~h.live THEN {FailWith(h)}
    ELSE {OkWith(InFirmware(h, mode, Zones))}
         \cup {FailWith(g) : g \in {Lost(h)} \cup {InFirmware(h, mode, acked) :
                                  acked \in (SUBSET Zones) \ {Zones}}}

\* A failed apply tries firmware control at once, under the new state's mode.
ApplyOutcomes(h, st) ==
    IF ~h.live THEN {FailWith(h)}
    ELSE {OkWith(FullyApplied(h, st)), FailWith(Lost(h))}
         \cup {FailWith(r.h) : r \in RestoreOutcomes(Disturbed(h), st.perf_mode)}

\* A target write never switches a zone to software control, so a zone under
\* firmware control (after an unnoticed EC reset) keeps its mode.
WithTarget(h, rpm, acked) ==
    [h EXCEPT !.zone = [z \in Zones |->
        CASE @[z] = Unsure -> Unsure
          [] z \in acked /\ @[z] # Unsure -> [@[z] EXCEPT !.fan = rpm]
          [] OTHER -> Unsure]]

\* The zones are written in order; the first failure ends the update.
TargetOutcomes(h, rpm) ==
    IF ~h.live THEN {FailWith(h)}
    ELSE {OkWith(WithTarget(h, rpm, Zones))}
         \cup {FailWith(g) : g \in {Lost(h)} \cup {WithTarget(h, rpm, acked) :
                                  acked \in {{}, {"fan1"}}}}

\* Reading the fan speeds changes nothing but may find the handle dead.
SampleOutcomes(h) == {h, Lost(h)}
=============================================================================
