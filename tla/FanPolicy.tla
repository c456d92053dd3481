----------------------------- MODULE FanPolicy -----------------------------
(***************************************************************************)
(* The pure fan arithmetic of fangd (core.rs): how a requested fan policy  *)
(* is validated and normalised for a laptop model, what RPM a custom curve *)
(* asks for at a temperature, and when the thermal guard takes over.       *)
(*                                                                         *)
(* Temperatures are whole degrees; the code's f32 readings are compared    *)
(* only with whole-degree bounds, and its interpolation is rounded to the  *)
(* nearest RPM, so the integer form below computes the same targets.       *)
(***************************************************************************)
EXTENDS Integers, Sequences

CONSTANTS
    MinRpm, MaxRpm,  \* the fan limits of the detected laptop (models.rs)
    None             \* Rust's Option::None: no reading, no deadline, no target

\* Every entry of the model table has limits in whole hundreds of RPM.
ASSUME FanLimitsAssumption ==
    /\ MinRpm \in Nat /\ MaxRpm \in Nat
    /\ 0 < MinRpm /\ MinRpm <= MaxRpm
    /\ MinRpm % 100 = 0 /\ MaxRpm % 100 = 0
ASSUME NoneAssumption == None \notin Int

-----------------------------------------------------------------------------
(* The thermal guard's thresholds: deliberately not configurable. *)

CpuOverrideOn == 95
CpuOverrideOff == 88
GpuOverrideOn == 87
GpuOverrideOff == 82
CpuSensorMissLimit == 3

MinCurvePoints == 2
MaxCurvePoints == 8

-----------------------------------------------------------------------------
(* Fan policies a client can ask for. *)

AutoFan == [kind |-> "auto"]
ManualFan(rpm) == [kind |-> "manual", rpm |-> rpm]
CurveFan(points) == [kind |-> "curve", points |-> points]

CurvePoint == [temp : Nat, rpm : Nat]

\* An active curve without any point is left out: normalize_fan refuses it as
\* it refuses a curve of one.
FanMode == {AutoFan} \cup [kind : {"manual"}, rpm : Nat]
                     \cup [kind : {"curve"}, points : Seq(CurvePoint) \ {<< >>}]

\* The answer of a validation that refuses its input (Result::Err).
Rejected == [kind |-> "rejected"]

Clamp(x, lo, hi) == IF x < lo THEN lo ELSE IF x > hi THEN hi ELSE x

\* Mutant: rounds, but trusts the request to be within the limits.
NormalizeRpmUnclamped(rpm, lo, hi) == ((rpm + 50) \div 100) * 100

NormalizeRpm(rpm, lo, hi) ==
    Clamp(((Clamp(rpm, lo, hi) + 50) \div 100) * 100, lo, hi)

\* The order checks run on the points as they will be stored: after each RPM
\* has been brought within the limits of this model.
ValidCurve(points) ==
    /\ Len(points) \in MinCurvePoints .. MaxCurvePoints
    /\ \A i \in 1 .. Len(points) : points[i].temp \in 30 .. 100
    /\ \A i \in 1 .. Len(points) - 1 :
          /\ points[i].temp < points[i + 1].temp
          /\ points[i].rpm <= points[i + 1].rpm

NormalizePoints(points) ==
    [i \in 1 .. Len(points) |->
        [points[i] EXCEPT !.rpm = NormalizeRpm(@, MinRpm, MaxRpm)]]

\* present: a Razer EC is open, so the model's limits are known.
NormalizeFan(present, fan) ==
    CASE fan.kind = "auto" -> AutoFan
      [] fan.kind = "manual" /\ present ->
            ManualFan(NormalizeRpm(fan.rpm, MinRpm, MaxRpm))
      [] fan.kind = "curve" /\ present /\ ValidCurve(NormalizePoints(fan.points)) ->
            CurveFan(NormalizePoints(fan.points))
      [] OTHER -> Rejected

-----------------------------------------------------------------------------
(* What the software fan control aims for. *)

HottestTemp(cpu, gpu) ==
    IF cpu = None THEN gpu
    ELSE IF gpu = None \/ gpu < cpu THEN cpu ELSE gpu

\* Mutant: truncates instead of rounding.
InterpolateTruncated(low, high, temp) ==
    low.rpm + ((high.rpm - low.rpm) * (temp - low.temp)) \div (high.temp - low.temp)

\* Linear interpolation, rounded half away from zero (f32::round); the RPMs of
\* a valid curve never decrease, so the quotient is of naturals.
Interpolate(low, high, temp) ==
    LET span == high.temp - low.temp
        rise == (high.rpm - low.rpm) * (temp - low.temp)
    IN  low.rpm + (2 * rise + span) \div (2 * span)

\* Mutant: past the last point the curve falls back to its first one.
CurveTargetWrapped(points, temp) ==
    LET above == {i \in 2 .. Len(points) : temp <= points[i].temp}
    IN  IF temp <= points[1].temp \/ above = {} THEN points[1].rpm
        ELSE LET i == CHOOSE i \in above : \A j \in above : i <= j
             IN  Interpolate(points[i - 1], points[i], temp)

CurveTarget(points, temp) ==
    LET above == {i \in 2 .. Len(points) : temp <= points[i].temp}
    IN  CASE temp <= points[1].temp -> points[1].rpm
          [] temp > points[1].temp /\ above = {} -> points[Len(points)].rpm
          [] OTHER -> LET i == CHOOSE i \in above : \A j \in above : i <= j
                      IN  Interpolate(points[i - 1], points[i], temp)

AtLeast(reading, bound) == reading # None /\ reading >= bound

\* Mutant: one threshold instead of two.
ThermalOverrideFlapping(active, cpu, gpu) ==
    AtLeast(cpu, CpuOverrideOn) \/ AtLeast(gpu, GpuOverrideOn)

\* Hysteresis: the guard engages at the On bounds and, once engaged, holds
\* until every sensor that answers is below its Off bound.
ThermalOverrideNext(active, cpu, gpu) ==
    IF active
    THEN \/ cpu = None /\ gpu = None
         \/ AtLeast(cpu, CpuOverrideOff)
         \/ AtLeast(gpu, GpuOverrideOff)
    ELSE \/ AtLeast(cpu, CpuOverrideOn)
         \/ AtLeast(gpu, GpuOverrideOn)

\* What a fan policy asks for before the guard has its say.
RequestedRpm(fan, cpu, gpu, max) ==
    CASE fan.kind = "manual" -> fan.rpm
      [] fan.kind = "curve" /\ HottestTemp(cpu, gpu) = None -> max
      [] OTHER -> CurveTarget(fan.points, HottestTemp(cpu, gpu))
=============================================================================
