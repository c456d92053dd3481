----------------------------- MODULE FanCurves -----------------------------
(***************************************************************************)
(* A custom curve from the client to the fan: it is normalised, and if it  *)
(* is accepted it is followed while the hottest sensor warms up degree by  *)
(* degree.                                                                 *)
(***************************************************************************)
EXTENDS FanPolicy

CONSTANTS
    RawCurves,          \* the points clients send, valid or not
    SweepFrom, SweepTo  \* the temperatures swept

ASSUME CurvesAssumption == RawCurves \subseteq Seq(CurvePoint) /\ {SweepFrom, SweepTo} \subseteq Nat

VARIABLES
    raw,   \* the points as received
    fan,   \* what normalize_fan made of them
    temp   \* the hottest sensor

curveVars == <<raw, fan, temp>>

CurveInit ==
    /\ raw \in RawCurves
    /\ fan = NormalizeFan(TRUE, CurveFan(raw))
    /\ temp = SweepFrom

Warm ==
    /\ fan # Rejected
    /\ temp < SweepTo
    /\ temp' = temp + 1
    /\ UNCHANGED <<raw, fan>>

CurveSpec == CurveInit /\ [][Warm]_curveVars

-----------------------------------------------------------------------------

Accepted == fan # Rejected
Target == CurveTarget(fan.points, temp)

\* Twice how far a target lies above the straight line from low to high, times
\* the distance of the two in degrees.
Off(low, high, target) ==
    2 * ((high.temp - low.temp) * (target - low.rpm) - (high.rpm - low.rpm) * (temp - low.temp))

\* core.rs curve_target, restated from the outside: at or beyond an end the
\* target is that end's RPM; between two neighbouring points it is a whole
\* number no farther than half an RPM from the straight line through them.
TargetIsOnTheCurve ==
    Accepted =>
        LET n == Len(fan.points)
        IN  /\ temp <= fan.points[1].temp => Target = fan.points[1].rpm
            /\ temp > fan.points[n].temp => Target = fan.points[n].rpm
            /\ \A i \in 1 .. n - 1 :
                 LET low == fan.points[i]
                     high == fan.points[i + 1]
                 IN  low.temp < temp /\ temp <= high.temp =>
                        /\ Off(low, high, Target) <= high.temp - low.temp
                        /\ Off(low, high, Target) >= low.temp - high.temp

\* What normalize_fan accepts it leaves alone when the state file brings it back
\* after a restart, and no two points it stores, near or far, are out of order or
\* out of the model's limits.
AcceptedCurvesAreStable ==
    Accepted =>
        /\ NormalizeFan(TRUE, fan) = fan
        /\ \A i, j \in 1 .. Len(fan.points) :
              /\ fan.points[i].rpm \in MinRpm .. MaxRpm
              /\ i < j => /\ fan.points[i].temp < fan.points[j].temp
                          /\ fan.points[i].rpm <= fan.points[j].rpm

\* A hotter machine never gets a slower fan: along one curve the RPM sent to
\* the EC (after normalize_rpm) does not fall while the temperature rises.
HotterIsNeverSlower ==
    [][Accepted => NormalizeRpm(Target', MinRpm, MaxRpm)
                      >= NormalizeRpm(Target, MinRpm, MaxRpm)]_curveVars
=============================================================================
