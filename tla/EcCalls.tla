------------------------------ MODULE EcCalls ------------------------------
(***************************************************************************)
(* What the daemon's core relies on: each call of its backend is one step   *)
(* with one of the outcomes EcDevice lists.  EcSession, where a call is a   *)
(* sequence of reports and answers, implements this.                        *)
(***************************************************************************)
EXTENDS EcDevice

CONSTANTS
    Applied,   \* the preferences the core may apply
    Targets    \* the fan speeds it may ask for

VARIABLES
    h,         \* the backend as EcDevice describes it
    ok         \* did the last call succeed

NoBackend == Disturbed([live |-> FALSE, zone |-> Unsure, settings |-> Unsure])

Init == h = NoBackend /\ ok = TRUE

Returns(outcomes) == \E r \in outcomes : h' = r.h /\ ok' = r.ok

\* The core sets a target only while its preferences are applied, under
\* software control (update_fan_policy).
MaySetTarget(g) ==
    /\ g.settings # Unsure
    /\ \A z \in Zones : g.zone[z] # Unsure /\ g.zone[z].fan # Firmware

\* Sampling changes nothing, but may find the handle dead.
Sample == h' \in SampleOutcomes(h) /\ UNCHANGED ok

Call ==
    \/ \E st \in Applied : Returns(ApplyOutcomes(h, st))
    \/ \E st \in Applied : Returns(RestoreOutcomes(h, st.perf_mode))
    \/ MaySetTarget(h) /\ \E rpm \in Targets : Returns(TargetOutcomes(h, rpm))

\* A process opens the device and ends; a sleep may reset the EC.
Open == ~h.live /\ h' = [h EXCEPT !.live = TRUE] /\ UNCHANGED ok
Close == h' = Closed(h) /\ UNCHANGED ok
Sleep == h' = Disturbed(h) /\ UNCHANGED ok

Spec == Init /\ [][Sample \/ Call \/ Open \/ Close \/ Sleep]_<<h, ok>>
=============================================================================
