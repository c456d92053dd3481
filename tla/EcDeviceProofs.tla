--------------------------- MODULE EcDeviceProofs ---------------------------
(***************************************************************************)
(* The operators the daemon is built from, for every laptop: what the fan  *)
(* arithmetic guarantees, that every derivation of preferences yields      *)
(* well-formed preferences, and what each call leaves in the EC.           *)
(***************************************************************************)
EXTENDS EcDevice, WellFoundedInduction, TLAPS


-----------------------------------------------------------------------------
(* The fan arithmetic.                                                      *)

\* Whatever is requested, the daemon asks the EC for a whole number of
\* hundreds within the model's limits (core.rs normalize_rpm).
THEOREM NormalizedRpmIsInRange ==
    ASSUME NEW rpm \in Int
    PROVE  /\ NormalizeRpm(rpm, MinRpm, MaxRpm) \in MinRpm .. MaxRpm
           /\ NormalizeRpm(rpm, MinRpm, MaxRpm) % 100 = 0
<1> DEFINE c == Clamp(rpm, MinRpm, MaxRpm)
           h == (c + 50) \div 100
<1>1. c \in MinRpm .. MaxRpm
  BY FanLimitsAssumption DEF Clamp
<1>2. h \in Int /\ (h * 100) % 100 = 0 /\ h * 100 \in Int
  BY <1>1, FanLimitsAssumption
<1>3. NormalizeRpm(rpm, MinRpm, MaxRpm) = Clamp(h * 100, MinRpm, MaxRpm)
  BY DEF NormalizeRpm
<1> HIDE DEF h
<1>4. Clamp(h * 100, MinRpm, MaxRpm) \in {h * 100, MinRpm, MaxRpm}
  BY DEF Clamp
<1>5. Clamp(h * 100, MinRpm, MaxRpm) \in MinRpm .. MaxRpm
  BY <1>2, FanLimitsAssumption DEF Clamp
<1> QED
  BY <1>2, <1>3, <1>4, <1>5, FanLimitsAssumption

\* A speed that was normalised once is left alone when the state file brings
\* it back: restarts do not make a manual speed drift.
THEOREM NormalizingTwiceIsNormalizingOnce ==
    ASSUME NEW rpm \in Int
    PROVE  LET once == NormalizeRpm(rpm, MinRpm, MaxRpm)
           IN  NormalizeRpm(once, MinRpm, MaxRpm) = once
<1> DEFINE x == NormalizeRpm(rpm, MinRpm, MaxRpm)
<1>1. x \in MinRpm .. MaxRpm /\ x % 100 = 0
  BY NormalizedRpmIsInRange
<1> HIDE DEF x
<1>2. Clamp(x, MinRpm, MaxRpm) = x
  BY <1>1, FanLimitsAssumption DEF Clamp
<1>3. ((x + 50) \div 100) * 100 = x
  BY <1>1, FanLimitsAssumption
<1>4. NormalizeRpm(x, MinRpm, MaxRpm) = x
  BY <1>2, <1>3 DEF NormalizeRpm
<1> QED
  BY <1>4 DEF x

\* What engages the guard also keeps it engaged: the Off bounds are the lower ones.
LEMMA EngagingBoundsHold ==
    ASSUME NEW cpu \in Nat \cup {None}, NEW gpu \in Nat \cup {None},
           ThermalOverrideNext(FALSE, cpu, gpu)
    PROVE  ThermalOverrideNext(TRUE, cpu, gpu)
BY NoneAssumption
   DEF ThermalOverrideNext, AtLeast, CpuOverrideOn, CpuOverrideOff,
       GpuOverrideOn, GpuOverrideOff

\* The hysteresis of thermal_override_next (core.rs 667-678).  An engaged guard is
\* released only if a sensor answers and every one that does is below its Off
\* bound.  After that it engages again only once a sensor has risen by more than
\* the gap between its two bounds, or answers that did not at the release.  While
\* the readings stay what they are, so does its verdict: it does not flap.
THEOREM GuardHasHysteresis ==
    /\ \A cpu, gpu \in Nat \cup {None} :
          ~ThermalOverrideNext(TRUE, cpu, gpu) =>
              /\ cpu # None \/ gpu # None
              /\ cpu = None \/ cpu < CpuOverrideOff
              /\ gpu = None \/ gpu < GpuOverrideOff
    /\ \A cpu, gpu, cpu2, gpu2 \in Nat \cup {None} :
          ~ThermalOverrideNext(TRUE, cpu, gpu) /\ ThermalOverrideNext(FALSE, cpu2, gpu2) =>
              \/ cpu2 # None /\ (cpu = None \/ cpu2 - cpu > CpuOverrideOn - CpuOverrideOff)
              \/ gpu2 # None /\ (gpu = None \/ gpu2 - gpu > GpuOverrideOn - GpuOverrideOff)
    /\ \A active \in BOOLEAN, cpu, gpu \in Nat \cup {None} :
          LET verdict == ThermalOverrideNext(active, cpu, gpu)
          IN  ThermalOverrideNext(verdict, cpu, gpu) = verdict
<1>1. ASSUME NEW cpu \in Nat \cup {None}, NEW gpu \in Nat \cup {None},
             ~ThermalOverrideNext(TRUE, cpu, gpu)
      PROVE  /\ cpu # None \/ gpu # None
             /\ cpu = None \/ cpu < CpuOverrideOff
             /\ gpu = None \/ gpu < GpuOverrideOff
  BY <1>1, NoneAssumption
     DEF ThermalOverrideNext, AtLeast, CpuOverrideOff, GpuOverrideOff
<1>2. ASSUME NEW cpu \in Nat \cup {None}, NEW gpu \in Nat \cup {None},
             NEW cpu2 \in Nat \cup {None}, NEW gpu2 \in Nat \cup {None},
             ~ThermalOverrideNext(TRUE, cpu, gpu), ThermalOverrideNext(FALSE, cpu2, gpu2)
      PROVE  \/ cpu2 # None /\ (cpu = None \/ cpu2 - cpu > CpuOverrideOn - CpuOverrideOff)
             \/ gpu2 # None /\ (gpu = None \/ gpu2 - gpu > GpuOverrideOn - GpuOverrideOff)
  <2>1. /\ cpu = None \/ cpu < CpuOverrideOff
        /\ gpu = None \/ gpu < GpuOverrideOff
    BY <1>1, <1>2
  <2>2. AtLeast(cpu2, CpuOverrideOn) \/ AtLeast(gpu2, GpuOverrideOn)
    BY <1>2 DEF ThermalOverrideNext
  <2> QED
    BY <2>1, <2>2, NoneAssumption
       DEF AtLeast, CpuOverrideOn, CpuOverrideOff, GpuOverrideOn, GpuOverrideOff
<1>3. ASSUME NEW active \in BOOLEAN, NEW cpu \in Nat \cup {None}, NEW gpu \in Nat \cup {None}
      PROVE  LET verdict == ThermalOverrideNext(active, cpu, gpu)
             IN  ThermalOverrideNext(verdict, cpu, gpu) = verdict
  <2>1. \A b \in BOOLEAN : ThermalOverrideNext(b, cpu, gpu) \in BOOLEAN
    BY DEF ThermalOverrideNext, AtLeast
  <2>2. ThermalOverrideNext(FALSE, cpu, gpu) => ThermalOverrideNext(TRUE, cpu, gpu)
    BY EngagingBoundsHold
  <2>3. active = TRUE \/ active = FALSE
    OBVIOUS
  <2> DEFINE held == ThermalOverrideNext(TRUE, cpu, gpu)
             engaged == ThermalOverrideNext(FALSE, cpu, gpu)
  <2>4. held \in BOOLEAN /\ engaged \in BOOLEAN /\ (engaged => held)
    BY <2>1, <2>2
  <2>5. (held = TRUE \/ held = FALSE) /\ (engaged = TRUE \/ engaged = FALSE)
    BY <2>4
  <2> QED
    BY <2>3, <2>4, <2>5, Zenon
<1> QED
  BY <1>1, <1>2, <1>3

-----------------------------------------------------------------------------
(* Typing. *)

LEMMA NormalizePointsType ==
    ASSUME NEW points \in Seq(CurvePoint)
    PROVE  /\ NormalizePoints(points) \in Seq(CurvePoint)
           /\ Len(NormalizePoints(points)) = Len(points)
<1>1. ASSUME NEW i \in 1 .. Len(points)
      PROVE  [points[i] EXCEPT !.rpm = NormalizeRpm(@, MinRpm, MaxRpm)] \in CurvePoint
  <2> DEFINE point == points[i]
             speed == NormalizeRpm(point.rpm, MinRpm, MaxRpm)
  <2>1. point \in CurvePoint
    OBVIOUS
  <2> HIDE DEF point
  <2>2. point.rpm \in Int
    BY <2>1 DEF CurvePoint
  <2>3. speed \in MinRpm .. MaxRpm
    BY <2>2, NormalizedRpmIsInRange
  <2> HIDE DEF speed
  <2>4. speed \in Nat
    BY <2>3, FanLimitsAssumption
  <2>5. [point EXCEPT !.rpm = speed] \in CurvePoint
    BY <2>1, <2>4 DEF CurvePoint
  <2> QED
    BY <2>5 DEF point, speed
<1>2. Len(points) \in Nat
  OBVIOUS
<1>3. NormalizePoints(points) \in [1 .. Len(points) -> CurvePoint]
  BY <1>1 DEF NormalizePoints
<1> QED
  BY <1>2, <1>3

LEMMA NormalizeFanType ==
    ASSUME NEW present \in BOOLEAN, NEW fan \in FanMode
    PROVE  NormalizeFan(present, fan) \in FanMode \cup {Rejected}
<1>1. CASE fan = AutoFan
  BY <1>1 DEF NormalizeFan, AutoFan, FanMode
<1>2. CASE fan \in [kind : {"manual"}, rpm : Nat]
  <2>1. NormalizeRpm(fan.rpm, MinRpm, MaxRpm) \in Nat
    BY <1>2, NormalizedRpmIsInRange, FanLimitsAssumption
  <2>2. ManualFan(NormalizeRpm(fan.rpm, MinRpm, MaxRpm)) \in FanMode
    BY <2>1 DEF ManualFan, FanMode
  <2>3. fan.kind = "manual"
    BY <1>2
  <2> QED
    BY <2>2, <2>3 DEF NormalizeFan
<1>3. CASE fan \in [kind : {"curve"}, points : Seq(CurvePoint) \ {<< >>}]
  <2>1. fan.points \in Seq(CurvePoint) /\ fan.kind = "curve"
    BY <1>3
  <2>2. ASSUME ValidCurve(NormalizePoints(fan.points))
        PROVE  CurveFan(NormalizePoints(fan.points)) \in FanMode
    <3>1. NormalizePoints(fan.points) \in Seq(CurvePoint) \ {<< >>}
      BY <2>1, <2>2, NormalizePointsType DEF ValidCurve, MinCurvePoints, MaxCurvePoints
    <3> QED
      BY <3>1 DEF CurveFan, FanMode
  <2> QED
    BY <2>1, <2>2 DEF NormalizeFan
<1> QED
  BY <1>1, <1>2, <1>3 DEF FanMode

LEMMA InterpolateType ==
    ASSUME NEW low \in CurvePoint, NEW high \in CurvePoint, NEW temp \in Nat,
           low.temp < high.temp
    PROVE  Interpolate(low, high, temp) \in Int
<1> DEFINE span == high.temp - low.temp
           rise == (high.rpm - low.rpm) * (temp - low.temp)
<1>1. /\ low.rpm \in Nat /\ high.rpm - low.rpm \in Int /\ temp - low.temp \in Int
      /\ span \in Nat \ {0}
  BY DEF CurvePoint
<1>2. rise \in Int
  BY <1>1
<1> HIDE DEF span, rise
<1>3. (2 * rise + span) \div (2 * span) \in Int
  BY <1>1, <1>2
<1>4. Interpolate(low, high, temp) = low.rpm + (2 * rise + span) \div (2 * span)
  BY DEF Interpolate, span, rise
<1> QED
  BY <1>1, <1>3, <1>4

\* A nonempty set of naturals has a least element.
LEMMA LeastOf ==
    ASSUME NEW S, S \subseteq Nat, S # {}
    PROVE  \E k \in S : \A j \in S : k <= j
<1>1. PICK k \in S : \A j \in S : ~(<<j, k>> \in OpToRel(<, Nat))
  BY WFMin, NatLessThanWellFounded, Zenon
<1>2. ASSUME NEW j \in S PROVE ~(j < k)
  <2>1. j \in Nat /\ k \in Nat
    OBVIOUS
  <2> QED
    BY <1>1, <2>1 DEF OpToRel
<1> QED
  BY <1>2

\* A curve is only interpolated between neighbours that lie on either side of
\* the temperature, so the division is by a positive span.
LEMMA CurveTargetType ==
    ASSUME NEW points \in Seq(CurvePoint) \ {<< >>}, NEW temp \in Nat
    PROVE  CurveTarget(points, temp) \in Int
<1> DEFINE above == {i \in 2 .. Len(points) : temp <= points[i].temp}
           least == CHOOSE i \in above : \A j \in above : i <= j
<1>1. Len(points) \in Nat /\ Len(points) >= 1
  OBVIOUS
<1>2. \A i \in 1 .. Len(points) : points[i] \in CurvePoint
  OBVIOUS
<1>3. \A i \in 1 .. Len(points) : points[i].temp \in Nat /\ points[i].rpm \in Nat
  BY <1>2 DEF CurvePoint
<1>4. CASE temp <= points[1].temp
  BY <1>1, <1>3, <1>4, SMTT(30) DEF CurveTarget
<1>5. CASE temp > points[1].temp /\ above = {}
  BY <1>1, <1>3, <1>5 DEF CurveTarget
<1>6. CASE ~(temp <= points[1].temp) /\ above # {}
  <2>1. above \subseteq Nat
    OBVIOUS
  <2>2. PICK k \in above : \A j \in above : k <= j
    <3> HIDE DEF above
    <3> QED
      BY <1>6, <2>1, LeastOf
  <2>3. least \in above /\ \A j \in above : least <= j
    <3> HIDE DEF above
    <3> QED
      BY <2>2, Zenon
  <2> HIDE DEF least
  <2>4. least \in 2 .. Len(points) /\ temp <= points[least].temp
    BY <2>3
  <2>5. points[least - 1].temp < temp
    <3>1. CASE least = 2
      BY <3>1, <1>6, <1>1, <1>3
    <3>2. CASE least # 2
      <4>1. least - 1 \in 2 .. Len(points) /\ ~(least <= least - 1)
        BY <3>2, <2>4
      <4>2. ~(temp <= points[least - 1].temp)
        BY <4>1, <2>3
      <4> QED
        BY <4>1, <4>2, <1>3
    <3> QED
      BY <3>1, <3>2
  <2>6. Interpolate(points[least - 1], points[least], temp) \in Int
    <3>1. least - 1 \in 1 .. Len(points) /\ least \in 1 .. Len(points)
      BY <2>4
    <3>2. points[least - 1].temp < points[least].temp
      BY <3>1, <2>4, <2>5, <1>3
    <3> QED
      BY <3>1, <3>2, <1>2, InterpolateType
  <2>7. CurveTarget(points, temp) = Interpolate(points[least - 1], points[least], temp)
    BY <1>6, <1>1, <1>3 DEF CurveTarget, least
  <2> QED
    BY <2>6, <2>7
<1> QED
  BY <1>1, <1>3, <1>4, <1>5, <1>6

\* Whatever policy is active, what it asks for is a number of RPM.
LEMMA RequestedRpmType ==
    ASSUME NEW fan \in FanMode, fan # AutoFan,
           NEW cpu \in Nat, NEW gpu \in Nat \cup {None}, NEW max \in Nat
    PROVE  RequestedRpm(fan, cpu, gpu, max) \in Int
<1>1. CASE fan \in [kind : {"manual"}, rpm : Nat]
  BY <1>1 DEF RequestedRpm
<1>2. CASE fan \in [kind : {"curve"}, points : Seq(CurvePoint) \ {<< >>}]
  <2>1. HottestTemp(cpu, gpu) \in Nat /\ HottestTemp(cpu, gpu) # None
    BY NoneAssumption DEF HottestTemp
  <2>2. CurveTarget(fan.points, HottestTemp(cpu, gpu)) \in Int
    BY <1>2, <2>1, CurveTargetType
  <2>3. fan.kind = "curve"
    BY <1>2
  <2> QED
    BY <2>1, <2>2, <2>3 DEF RequestedRpm
<1> QED
  BY <1>1, <1>2 DEF FanMode

-----------------------------------------------------------------------------
(* Preferences.                                                             *)

LEMMA FanOrAutoType ==
    ASSUME NEW present \in BOOLEAN, NEW fan \in FanMode
    PROVE  FanOrAuto(present, fan) \in FanMode
<1>1. NormalizeFan(present, fan) \in FanMode \cup {Rejected}
  BY NormalizeFanType
<1>2. AutoFan \in FanMode
  BY DEF FanMode
<1> QED
  BY <1>1, <1>2 DEF FanOrAuto

LEMMA SavedCurveType ==
    ASSUME NEW points \in Seq(CurvePoint)
    PROVE  SavedCurve(points) \in Seq(CurvePoint)
<1> DEFINE normal == NormalizeFan(TRUE, CurveFan(points))
           stored == NormalizePoints(points)
<1>1. stored \in Seq(CurvePoint)
  BY NormalizePointsType
<1>2. normal \in {Rejected, CurveFan(stored)}
  BY DEF NormalizeFan, CurveFan
<1>3. SavedCurve(points) = IF normal = Rejected THEN << >> ELSE normal.points
  BY DEF SavedCurve
<1> HIDE DEF normal, stored
<1>4. CurveFan(stored).points = stored
  BY DEF CurveFan
<1>5. << >> \in Seq(CurvePoint)
  OBVIOUS
<1> QED
  BY <1>1, <1>2, <1>3, <1>4, <1>5, Zenon

LEMMA ActiveCurveType ==
    ASSUME NEW fan \in FanMode, fan.kind = "curve"
    PROVE  fan.points \in Seq(CurvePoint)
BY DEF FanMode, AutoFan

LEMMA CapBoostType ==
    ASSUME NEW boost \in Boost, NEW allowed \in BOOLEAN
    PROVE  CapBoost(boost, allowed) \in Boost
BY DEF CapBoost, Boost

LEMMA SanitizeType ==
    ASSUME NEW present \in BOOLEAN, NEW st \in AppliedState
    PROVE  SanitizeLoadedState(present, st) \in AppliedState
<1>1. ASSUME NEW s \in AppliedState PROVE SanitizeCommon(s) \in AppliedState
  <2>1. CapBoost(s.gpu_boost, FALSE) \in Boost
    BY CapBoostType DEF AppliedState
  <2>2. Clamp(s.bho_threshold, 50, 80) \in Nat /\ Clamp(s.kbd_brightness, 0, 100) \in Nat
    BY DEF AppliedState, Clamp
  <2> QED
    BY <2>1, <2>2 DEF SanitizeCommon, AppliedState
<1>2. SanitizeForModel(st) \in AppliedState
  <2> DEFINE fan == FanOrAuto(TRUE, st.fan)
             points == IF fan.kind = "curve" THEN fan.points ELSE st.fan_curve
  <2>1. st.fan \in FanMode /\ st.ac_fan \in FanMode /\ st.battery_fan \in FanMode
    BY DEF AppliedState
  <2>2. /\ fan \in FanMode
        /\ FanOrAuto(TRUE, st.ac_fan) \in FanMode
        /\ FanOrAuto(TRUE, st.battery_fan) \in FanMode
    BY <2>1, FanOrAutoType
  <2> HIDE DEF fan
  <2>3. points \in Seq(CurvePoint)
    BY <2>2, ActiveCurveType DEF AppliedState
  <2> HIDE DEF points
  <2>4. SavedCurve(points) \in Seq(CurvePoint)
    BY <2>3, SavedCurveType
  <2>5. CapBoost(st.cpu_boost, HasCpuBoostOc) \in Boost
    BY FeaturesAssumption, CapBoostType DEF AppliedState
  <2>6. (st.bho_enabled /\ HasBho) \in BOOLEAN
    BY Zenon
  <2>7. SanitizeForModel(st) =
            [st EXCEPT !.cpu_boost = CapBoost(@, HasCpuBoostOc),
                       !.bho_enabled = @ /\ HasBho,
                       !.fan = fan,
                       !.fan_curve = SavedCurve(points),
                       !.ac_fan = FanOrAuto(TRUE, @),
                       !.battery_fan = FanOrAuto(TRUE, @)]
    BY DEF SanitizeForModel, fan, points
  <2> QED
    BY <2>2, <2>4, <2>5, <2>6, <2>7, ZenonT(60) DEF AppliedState
<1> QED
  BY <1>1, <1>2 DEF SanitizeLoadedState

-----------------------------------------------------------------------------
(* Commands and automation. *)

LEMMA WithFanType ==
    ASSUME NEW st \in AppliedState, NEW fan \in FanMode
    PROVE  WithFan(st, fan) \in AppliedState
<1> DEFINE curve == IF fan.kind = "curve" THEN fan.points ELSE st.fan_curve
<1>1. curve \in Seq(CurvePoint)
  BY ActiveCurveType DEF AppliedState
<1> HIDE DEF curve
<1>2. [st EXCEPT !.fan = fan, !.fan_curve = curve] \in AppliedState
  BY <1>1 DEF AppliedState
<1>3. WithFan(st, fan) = [st EXCEPT !.fan = fan, !.fan_curve = curve]
  BY DEF WithFan, curve, AppliedState
<1> QED
  BY <1>2, <1>3

LEMMA CapCpuBoostType ==
    ASSUME NEW present \in BOOLEAN, NEW st \in AppliedState
    PROVE  CapCpuBoost(present, st) \in AppliedState
<1>1. (present /\ HasCpuBoostOc) \in BOOLEAN
  BY Zenon
<1>2. CapBoost(st.cpu_boost, present /\ HasCpuBoostOc) \in Boost
  BY <1>1, CapBoostType DEF AppliedState
<1> QED
  BY <1>2 DEF CapCpuBoost, AppliedState

\* What automation asks for is a complete set of preferences.
LEMMA AutomationStateType ==
    ASSUME NEW present \in BOOLEAN, NEW st \in AppliedState, NEW on_ac \in BOOLEAN
    PROVE  AutomationState(present, st, on_ac) \in AppliedState
<1> DEFINE s == [st EXCEPT !.perf_mode = SourceProfile(st, on_ac)]
<1>1. s \in AppliedState /\ SourceFan(st, on_ac) \in FanMode
  BY DEF AppliedState, SourceProfile, SourceFan
<1> HIDE DEF s
<1>2. CapCpuBoost(present, s) \in AppliedState
  BY <1>1, CapCpuBoostType
<1>3. AutomationState(present, st, on_ac) =
          WithFan(CapCpuBoost(present, s), SourceFan(st, on_ac))
  BY DEF AutomationState, s
<1> QED
  BY <1>1, <1>2, <1>3, WithFanType

LEMMA SetPerfModeType ==
    ASSUME NEW present \in BOOLEAN, NEW st \in AppliedState,
           NEW cmd \in [op : {"SetPerfMode"}, perf_mode : PerfMode,
                        cpu_boost : OptBoost, gpu_boost : OptBoost]
    PROVE  SetPerfModeState(present, st, cmd) \in AppliedState \cup {Rejected}
<1> DEFINE s == [st EXCEPT !.perf_mode = cmd.perf_mode,
                           !.cpu_boost = OrKeep(cmd.cpu_boost, @),
                           !.gpu_boost = OrKeep(cmd.gpu_boost, @)]
<1>1. OrKeep(cmd.cpu_boost, st.cpu_boost) \in Boost /\ OrKeep(cmd.gpu_boost, st.gpu_boost) \in Boost
  BY DEF OrKeep, OptBoost, AppliedState
<1>2. s \in AppliedState
  BY <1>1 DEF AppliedState
<1> HIDE DEF s
<1>3. CapCpuBoost(present, s) \in AppliedState
  BY <1>2, CapCpuBoostType
<1>4. SetPerfModeState(present, st, cmd) \in {Rejected, CapCpuBoost(present, s)}
  BY DEF SetPerfModeState, s
<1> QED
  BY <1>3, <1>4

LEMMA SetFanType ==
    ASSUME NEW present \in BOOLEAN, NEW st \in AppliedState,
           NEW cmd \in [op : {"SetFan"}, fan : FanMode]
    PROVE  SetFanState(present, st, cmd) \in AppliedState \cup {Rejected}
<1> DEFINE fan == NormalizeFan(present, cmd.fan)
<1>1. fan \in FanMode \cup {Rejected}
  BY NormalizeFanType
<1>2. SetFanState(present, st, cmd) = IF fan = Rejected THEN Rejected ELSE WithFan(st, fan)
  BY DEF SetFanState
<1> HIDE DEF fan
<1> QED
  BY <1>1, <1>2, WithFanType

LEMMA SetBhoType ==
    ASSUME NEW present \in BOOLEAN, NEW st \in AppliedState,
           NEW cmd \in [op : {"SetBho"}, enabled : BOOLEAN, threshold : Nat]
    PROVE  SetBhoState(present, st, cmd) \in AppliedState \cup {Rejected}
<1>1. Clamp(cmd.threshold, 50, 80) \in Nat /\ cmd.enabled \in BOOLEAN
  BY DEF Clamp
<1>2. [st EXCEPT !.bho_enabled = cmd.enabled,
                 !.bho_threshold = Clamp(cmd.threshold, 50, 80)] \in AppliedState
  BY <1>1 DEF AppliedState
<1> QED
  BY <1>2 DEF SetBhoState

LEMMA SetLightingType ==
    ASSUME NEW present \in BOOLEAN, NEW st \in AppliedState,
           NEW cmd \in [op : {"SetLighting"}, brightness : Nat \cup {None},
                        kbd_effect : Effects \cup {None}, logo_led : LogoMode \cup {None}]
    PROVE  SetLightingState(present, st, cmd) \in AppliedState \cup {Rejected}
<1> DEFINE brightness == IF cmd.brightness = None THEN st.kbd_brightness
                         ELSE Clamp(cmd.brightness, 0, 100)
           effect == OrKeep(cmd.kbd_effect, st.kbd_effect)
           logo == OrKeep(cmd.logo_led, st.logo_led)
<1>1. brightness \in Nat
  BY DEF Clamp, AppliedState
<1>2. effect \in Effects /\ logo \in LogoMode
  BY DEF OrKeep, AppliedState
<1>3. SetLightingState(present, st, cmd) \in
          {Rejected, [st EXCEPT !.kbd_brightness = brightness, !.kbd_effect = effect,
                                !.logo_led = logo]}
  BY DEF SetLightingState, AppliedState
<1> HIDE DEF brightness, effect, logo
<1>4. [st EXCEPT !.kbd_brightness = brightness, !.kbd_effect = effect,
                 !.logo_led = logo] \in AppliedState
  BY <1>1, <1>2 DEF AppliedState
<1> QED
  BY <1>3, <1>4

LEMMA SetAutoPowerType ==
    ASSUME NEW present \in BOOLEAN, NEW last_on_ac \in BOOLEAN \cup {None},
           NEW st \in AppliedState,
           NEW cmd \in [op : {"SetAutoPower"}, enabled : BOOLEAN,
                        ac_profile : PerfMode, battery_profile : PerfMode,
                        ac_fan : FanMode, battery_fan : FanMode]
    PROVE  SetAutoPowerState(present, last_on_ac, st, cmd) \in AppliedState \cup {Rejected}
<1> DEFINE ac_fan == NormalizeFan(present, cmd.ac_fan)
           battery_fan == NormalizeFan(present, cmd.battery_fan)
           policy == [st EXCEPT !.auto_power = cmd.enabled,
                                !.ac_profile = cmd.ac_profile,
                                !.battery_profile = cmd.battery_profile,
                                !.ac_fan = ac_fan, !.battery_fan = battery_fan]
           adopted == [policy EXCEPT !.perf_mode = SourceProfile(policy, last_on_ac)]
<1>1. ac_fan \in FanMode \cup {Rejected} /\ battery_fan \in FanMode \cup {Rejected}
  BY NormalizeFanType
<1>2. CASE Rejected \in {ac_fan, battery_fan}
  <2>1. SetAutoPowerState(present, last_on_ac, st, cmd) = Rejected
    BY <1>2 DEF SetAutoPowerState
  <2> QED
    BY <2>1
<1>3. CASE Rejected \notin {ac_fan, battery_fan}
  <2>1. SetAutoPowerState(present, last_on_ac, st, cmd) =
            IF cmd.enabled /\ last_on_ac # None
            THEN WithFan(adopted, SourceFan(policy, last_on_ac)) ELSE policy
    BY <1>3 DEF SetAutoPowerState
  <2>2. ac_fan \in FanMode /\ battery_fan \in FanMode
    BY <1>1, <1>3
  <2> HIDE DEF ac_fan, battery_fan
  <2>3. policy \in AppliedState
    BY <2>2 DEF AppliedState
  <2> HIDE DEF policy
  <2>4. adopted \in AppliedState /\ SourceFan(policy, last_on_ac) \in FanMode
    BY <2>3 DEF AppliedState, SourceProfile, SourceFan
  <2> HIDE DEF adopted
  <2>5. WithFan(adopted, SourceFan(policy, last_on_ac)) \in AppliedState
    BY <2>4, WithFanType
  <2> QED
    BY <2>1, <2>3, <2>5
<1> QED
  BY <1>2, <1>3

\* Whatever a client sends, it is refused or leads to complete preferences.
LEMMA DesiredType ==
    ASSUME NEW present \in BOOLEAN, NEW last_on_ac \in BOOLEAN \cup {None},
           NEW st \in AppliedState, NEW cmd \in Command
    PROVE  Desired(present, last_on_ac, st, cmd) \in AppliedState \cup {Rejected}
<1>1. CASE cmd \in [op : {"SetPerfMode"}, perf_mode : PerfMode,
                    cpu_boost : OptBoost, gpu_boost : OptBoost]
  <2>1. Desired(present, last_on_ac, st, cmd) = SetPerfModeState(present, st, cmd)
    BY <1>1 DEF Desired
  <2> QED
    BY <1>1, <2>1, SetPerfModeType
<1>2. CASE cmd \in [op : {"SetFan"}, fan : FanMode]
  <2>1. Desired(present, last_on_ac, st, cmd) = SetFanState(present, st, cmd)
    BY <1>2 DEF Desired
  <2> QED
    BY <1>2, <2>1, SetFanType
<1>3. CASE cmd \in [op : {"SetBho"}, enabled : BOOLEAN, threshold : Nat]
  <2>1. Desired(present, last_on_ac, st, cmd) = SetBhoState(present, st, cmd)
    BY <1>3 DEF Desired
  <2> QED
    BY <1>3, <2>1, SetBhoType
<1>4. CASE cmd \in [op : {"SetLighting"}, brightness : Nat \cup {None},
                    kbd_effect : Effects \cup {None}, logo_led : LogoMode \cup {None}]
  <2>1. Desired(present, last_on_ac, st, cmd) = SetLightingState(present, st, cmd)
    BY <1>4 DEF Desired
  <2> QED
    BY <1>4, <2>1, SetLightingType
<1>5. CASE cmd \in [op : {"SetAutoPower"}, enabled : BOOLEAN,
                    ac_profile : PerfMode, battery_profile : PerfMode,
                    ac_fan : FanMode, battery_fan : FanMode]
  <2>1. Desired(present, last_on_ac, st, cmd) = SetAutoPowerState(present, last_on_ac, st, cmd)
    BY <1>5 DEF Desired
  <2> QED
    BY <1>5, <2>1, SetAutoPowerType
<1> QED
  BY <1>1, <1>2, <1>3, <1>4, <1>5 DEF Command

-----------------------------------------------------------------------------
(* Normalising twice is normalising once: what a client or a file has put   *)
(* in force stays as it is when a restart or a reopened EC normalises it.   *)

NormalFan(fan) == NormalizeFan(TRUE, fan) = fan
NormalCurve(points) == SavedCurve(points) = points

\* Preferences within the limits of the detected model, field by field.
Fits(st) ==
    /\ CapBoost(st.cpu_boost, HasCpuBoostOc) = st.cpu_boost
    /\ st.gpu_boost # "boost"
    /\ st.bho_enabled => HasBho
    /\ st.bho_threshold \in 50 .. 80 /\ st.kbd_brightness \in 0 .. 100
    /\ NormalFan(st.fan) /\ NormalFan(st.ac_fan) /\ NormalFan(st.battery_fan)
    /\ NormalCurve(st.fan_curve)
    /\ st.fan.kind = "curve" => st.fan_curve = st.fan.points

LEMMA NormalPoints ==
    ASSUME NEW points \in Seq(CurvePoint)
    PROVE  NormalizePoints(NormalizePoints(points)) = NormalizePoints(points)
<1> DEFINE once == NormalizePoints(points)
<1>1. once \in Seq(CurvePoint) /\ Len(once) = Len(points)
  BY NormalizePointsType
<1>2. ASSUME NEW i \in 1 .. Len(points)
      PROVE  [once[i] EXCEPT !.rpm = NormalizeRpm(@, MinRpm, MaxRpm)] = once[i]
  <2> DEFINE p == points[i]
             q == once[i]
             x == NormalizeRpm(p.rpm, MinRpm, MaxRpm)
  <2>1. p \in CurvePoint /\ q = [p EXCEPT !.rpm = x]
    BY DEF NormalizePoints
  <2>2. p.rpm \in Int
    BY <2>1 DEF CurvePoint
  <2>3. NormalizeRpm(x, MinRpm, MaxRpm) = x
    BY <2>2, NormalizingTwiceIsNormalizingOnce
  <2> HIDE DEF p, q, x
  <2>4. q.rpm = x
    BY <2>1 DEF CurvePoint
  <2>5. [q EXCEPT !.rpm = NormalizeRpm(@, MinRpm, MaxRpm)] = q
    BY <2>1, <2>3, <2>4 DEF CurvePoint
  <2> QED
    BY <2>5 DEF q
<1>3. NormalizePoints(once) =
          [i \in 1 .. Len(once) |-> [once[i] EXCEPT !.rpm = NormalizeRpm(@, MinRpm, MaxRpm)]]
  BY DEF NormalizePoints
<1>4. once = [i \in 1 .. Len(once) |-> once[i]]
  BY <1>1
<1> HIDE DEF once
<1>5. NormalizePoints(once) = once
  BY <1>1, <1>2, <1>3, <1>4
<1> QED
  BY <1>5 DEF once

LEMMA NormalizedFanIsNormal ==
    ASSUME NEW fan \in FanMode, NormalizeFan(TRUE, fan) # Rejected
    PROVE  NormalFan(NormalizeFan(TRUE, fan))
<1>1. CASE fan = AutoFan
  BY <1>1 DEF NormalFan, NormalizeFan, AutoFan
<1>2. CASE fan \in [kind : {"manual"}, rpm : Nat]
  <2> DEFINE x == NormalizeRpm(fan.rpm, MinRpm, MaxRpm)
  <2>1. NormalizeRpm(x, MinRpm, MaxRpm) = x
    BY <1>2, NormalizingTwiceIsNormalizingOnce
  <2>2. NormalizeFan(TRUE, fan) = ManualFan(x)
    BY <1>2 DEF NormalizeFan
  <2> HIDE DEF x
  <2>3. NormalizeFan(TRUE, ManualFan(x)) = ManualFan(x)
    BY <2>1 DEF NormalizeFan, ManualFan
  <2> QED
    BY <2>2, <2>3 DEF NormalFan
<1>3. CASE fan \in [kind : {"curve"}, points : Seq(CurvePoint) \ {<< >>}]
  <2> DEFINE c == NormalizePoints(fan.points)
  <2>1. fan.kind = "curve" /\ fan.points \in Seq(CurvePoint)
    BY <1>3
  <2>2. NormalizePoints(c) = c
    BY <2>1, NormalPoints
  <2>3. NormalizeFan(TRUE, fan) = CurveFan(c) /\ ValidCurve(c)
    BY <2>1 DEF NormalizeFan
  <2> HIDE DEF c
  <2>4. CurveFan(c).kind = "curve" /\ CurveFan(c).points = c
    BY DEF CurveFan
  <2>5. NormalizeFan(TRUE, CurveFan(c)) = CurveFan(c)
    BY <2>2, <2>3, <2>4 DEF NormalizeFan
  <2> QED
    BY <2>3, <2>5 DEF NormalFan
<1> QED
  BY <1>1, <1>2, <1>3 DEF FanMode

LEMMA RejectedIsNoFan == Rejected \notin FanMode
BY DEF Rejected, FanMode, AutoFan

LEMMA NormalFanIsKept ==
    ASSUME NEW fan \in FanMode
    PROVE  /\ NormalFan(FanOrAuto(TRUE, fan))
           /\ NormalFan(fan) => FanOrAuto(TRUE, fan) = fan
<1>1. NormalFan(AutoFan)
  BY DEF NormalFan, NormalizeFan, AutoFan
<1>2. NormalizeFan(TRUE, fan) # Rejected => NormalFan(NormalizeFan(TRUE, fan))
  BY NormalizedFanIsNormal
<1>3. NormalFan(fan) => NormalizeFan(TRUE, fan) # Rejected
  BY RejectedIsNoFan DEF NormalFan
<1> QED
  BY <1>1, <1>2, <1>3 DEF FanOrAuto, NormalFan

\* A remembered curve is none at all or a valid one.
LEMMA SavedCurveIs ==
    ASSUME NEW points \in Seq(CurvePoint)
    PROVE  SavedCurve(points) = IF ValidCurve(NormalizePoints(points))
                                THEN NormalizePoints(points) ELSE << >>
<1> DEFINE c == NormalizePoints(points)
<1>1. /\ CurveFan(points).kind = "curve" /\ CurveFan(points).points = points
      /\ CurveFan(c).kind = "curve" /\ CurveFan(c).points = c
  BY DEF CurveFan
<1>2. CurveFan(c) # Rejected
  BY <1>1 DEF Rejected
<1>3. NormalizeFan(TRUE, CurveFan(points)) = IF ValidCurve(c) THEN CurveFan(c) ELSE Rejected
  BY <1>1 DEF NormalizeFan
<1> HIDE DEF c
<1>4. SavedCurve(points) = IF ValidCurve(c) THEN c ELSE << >>
  BY <1>1, <1>2, <1>3, Zenon DEF SavedCurve
<1> QED
  BY <1>4 DEF c

LEMMA SavedCurveIsNormal ==
    ASSUME NEW points \in Seq(CurvePoint)
    PROVE  NormalCurve(SavedCurve(points))
<1> DEFINE c == NormalizePoints(points)
<1>1. c \in Seq(CurvePoint) /\ NormalizePoints(c) = c
  BY NormalizePointsType, NormalPoints
<1>2. SavedCurve(points) = IF ValidCurve(c) THEN c ELSE << >>
  BY SavedCurveIs
<1> HIDE DEF c
<1>3. SavedCurve(c) = IF ValidCurve(c) THEN c ELSE << >>
  BY <1>1, SavedCurveIs
<1>4. SavedCurve(<< >>) = << >>
  <2>1. << >> \in Seq(CurvePoint)
    OBVIOUS
  <2>2. Len(NormalizePoints(<< >>)) = 0
    BY <2>1, NormalizePointsType
  <2> DEFINE e == NormalizePoints(<< >>)
  <2> HIDE DEF e
  <2>3. ~ValidCurve(e)
    <3>1. Len(e) = 0
      BY <2>2 DEF e
    <3> QED
      BY <3>1 DEF ValidCurve, MinCurvePoints, MaxCurvePoints
  <2> QED
    BY <2>1, <2>3, SavedCurveIs DEF e
<1> QED
  BY <1>2, <1>3, <1>4, Zenon DEF NormalCurve

\* The points of a normal fan curve are a normal curve to remember.
LEMMA ActiveCurveIsNormal ==
    ASSUME NEW fan \in FanMode, NormalFan(fan), fan.kind = "curve"
    PROVE  fan.points \in Seq(CurvePoint) /\ NormalCurve(fan.points)
<1>1. fan.points \in Seq(CurvePoint)
  BY ActiveCurveType
<1> DEFINE c == NormalizePoints(fan.points)
<1>2. NormalizeFan(TRUE, fan) = IF ValidCurve(c) THEN CurveFan(c) ELSE Rejected
  BY DEF NormalizeFan
<1>3. ValidCurve(c) /\ fan = CurveFan(c)
  BY <1>2, RejectedIsNoFan DEF NormalFan
<1>4. SavedCurve(fan.points) = c
  BY <1>1, <1>3, SavedCurveIs
<1> HIDE DEF c
<1>5. fan.points = c
  BY <1>3 DEF CurveFan
<1> QED
  BY <1>1, <1>4, <1>5 DEF NormalCurve

\* What fits is left alone.
LEMMA FittingIsKept ==
    ASSUME NEW st \in AppliedState, Fits(st)
    PROVE  SanitizeLoadedState(TRUE, st) = st
<1>1. /\ st.fan \in FanMode /\ st.ac_fan \in FanMode /\ st.battery_fan \in FanMode
      /\ st.bho_enabled \in BOOLEAN /\ st.gpu_boost \in Boost
      /\ st.bho_threshold \in Nat /\ st.kbd_brightness \in Nat
  BY DEF AppliedState
<1>2. /\ FanOrAuto(TRUE, st.fan) = st.fan
      /\ FanOrAuto(TRUE, st.ac_fan) = st.ac_fan
      /\ FanOrAuto(TRUE, st.battery_fan) = st.battery_fan
  BY <1>1, NormalFanIsKept DEF Fits
<1>3. SavedCurve(IF st.fan.kind = "curve" THEN st.fan.points ELSE st.fan_curve) = st.fan_curve
  BY DEF Fits, NormalCurve
<1>4. (st.bho_enabled /\ HasBho) = st.bho_enabled
  BY <1>1, FeaturesAssumption DEF Fits
<1>5. SanitizeForModel(st) = st
  BY <1>2, <1>3, <1>4 DEF SanitizeForModel, Fits, AppliedState
<1>6. /\ CapBoost(st.gpu_boost, FALSE) = st.gpu_boost
      /\ Clamp(st.bho_threshold, 50, 80) = st.bho_threshold
      /\ Clamp(st.kbd_brightness, 0, 100) = st.kbd_brightness
  BY <1>1 DEF Fits, CapBoost, Clamp
<1>7. SanitizeCommon(st) = st
  BY <1>6 DEF SanitizeCommon, AppliedState
<1> QED
  BY <1>5, <1>7 DEF SanitizeLoadedState

\* Normalising for the model, field by field.
LEMMA SanitizedFields ==
    ASSUME NEW st \in AppliedState
    PROVE  LET s == SanitizeLoadedState(TRUE, st)
               fan == FanOrAuto(TRUE, st.fan)
           IN  /\ s.cpu_boost = CapBoost(st.cpu_boost, HasCpuBoostOc)
               /\ s.gpu_boost = CapBoost(st.gpu_boost, FALSE)
               /\ s.bho_enabled = (st.bho_enabled /\ HasBho)
               /\ s.bho_threshold = Clamp(st.bho_threshold, 50, 80)
               /\ s.kbd_brightness = Clamp(st.kbd_brightness, 0, 100)
               /\ s.fan = fan
               /\ s.fan_curve = SavedCurve(IF fan.kind = "curve" THEN fan.points ELSE st.fan_curve)
               /\ s.ac_fan = FanOrAuto(TRUE, st.ac_fan)
               /\ s.battery_fan = FanOrAuto(TRUE, st.battery_fan)
               /\ s.perf_mode = st.perf_mode /\ s.kbd_effect = st.kbd_effect
               /\ s.logo_led = st.logo_led /\ s.auto_power = st.auto_power
               /\ s.ac_profile = st.ac_profile /\ s.battery_profile = st.battery_profile
BY DEF SanitizeLoadedState, SanitizeForModel, SanitizeCommon, AppliedState

\* What was normalised fits.
LEMMA SanitizedFits ==
    ASSUME NEW st \in AppliedState
    PROVE  Fits(SanitizeLoadedState(TRUE, st))
<1> DEFINE s == SanitizeLoadedState(TRUE, st)
           fan == FanOrAuto(TRUE, st.fan)
           points == IF fan.kind = "curve" THEN fan.points ELSE st.fan_curve
<1>1. /\ st.fan \in FanMode /\ st.ac_fan \in FanMode /\ st.battery_fan \in FanMode
      /\ st.bho_enabled \in BOOLEAN /\ st.gpu_boost \in Boost
      /\ st.cpu_boost \in Boost /\ st.fan_curve \in Seq(CurvePoint)
      /\ st.bho_threshold \in Nat /\ st.kbd_brightness \in Nat
  BY DEF AppliedState
<1>2. /\ NormalFan(fan) /\ fan \in FanMode
      /\ NormalFan(FanOrAuto(TRUE, st.ac_fan))
      /\ NormalFan(FanOrAuto(TRUE, st.battery_fan))
  BY <1>1, NormalFanIsKept, FanOrAutoType
<1>3. /\ s.cpu_boost = CapBoost(st.cpu_boost, HasCpuBoostOc)
      /\ s.gpu_boost = CapBoost(st.gpu_boost, FALSE)
      /\ s.bho_enabled = (st.bho_enabled /\ HasBho)
      /\ s.bho_threshold = Clamp(st.bho_threshold, 50, 80)
      /\ s.kbd_brightness = Clamp(st.kbd_brightness, 0, 100)
      /\ s.fan = fan /\ s.fan_curve = SavedCurve(points)
      /\ s.ac_fan = FanOrAuto(TRUE, st.ac_fan)
      /\ s.battery_fan = FanOrAuto(TRUE, st.battery_fan)
  BY SanitizedFields, Zenon
<1> HIDE DEF s, fan
<1>4. fan.kind = "curve" => fan.points \in Seq(CurvePoint) /\ NormalCurve(fan.points)
  BY <1>2, ActiveCurveIsNormal
<1>5. points \in Seq(CurvePoint)
  BY <1>1, <1>4
<1>6. NormalCurve(s.fan_curve) /\ (s.fan.kind = "curve" => s.fan_curve = s.fan.points)
  <2>1. fan.kind = "curve" => points = fan.points
    OBVIOUS
  <2> HIDE DEF points
  <2> QED
    BY <1>3, <1>4, <1>5, <2>1, SavedCurveIsNormal DEF NormalCurve
<1>7. /\ CapBoost(s.cpu_boost, HasCpuBoostOc) = s.cpu_boost
      /\ s.gpu_boost # "boost"
  BY <1>1, <1>3, FeaturesAssumption DEF CapBoost
<1>8. s.bho_enabled => HasBho
  BY <1>3, Zenon
<1>9. s.bho_threshold \in 50 .. 80 /\ s.kbd_brightness \in 0 .. 100
  <2>1. \A n \in Nat : Clamp(n, 50, 80) \in 50 .. 80 /\ Clamp(n, 0, 100) \in 0 .. 100
    BY DEF Clamp
  <2> QED
    BY <1>1, <1>3, <2>1, ZenonT(40)
<1> QED
  BY <1>2, <1>3, <1>6, <1>7, <1>8, <1>9 DEF Fits, s

LEMMA PreferencesAreTheirFields ==
    ASSUME NEW st \in AppliedState
    PROVE  st = [perf_mode |-> st.perf_mode, cpu_boost |-> st.cpu_boost, gpu_boost |-> st.gpu_boost,
           fan |-> st.fan, fan_curve |-> st.fan_curve, bho_enabled |-> st.bho_enabled,
           bho_threshold |-> st.bho_threshold, kbd_brightness |-> st.kbd_brightness, kbd_effect |-> st.kbd_effect,
           logo_led |-> st.logo_led, auto_power |-> st.auto_power, ac_profile |-> st.ac_profile,
           battery_profile |-> st.battery_profile, ac_fan |-> st.ac_fan, battery_fan |-> st.battery_fan]
BY DEF AppliedState

\* The universal limits say nothing the model's limits would not say again.
LEMMA SanitizingBlindlyFirst ==
    ASSUME NEW st \in AppliedState
    PROVE  SanitizeLoadedState(TRUE, SanitizeLoadedState(FALSE, st))
               = SanitizeLoadedState(TRUE, st)
<1> DEFINE u == SanitizeLoadedState(FALSE, st)
           s == SanitizeLoadedState(TRUE, st)
           t == SanitizeLoadedState(TRUE, u)
<1>1. u \in AppliedState /\ s \in AppliedState /\ t \in AppliedState
  BY SanitizeType
<1>2. /\ u.gpu_boost = CapBoost(st.gpu_boost, FALSE)
      /\ u.bho_threshold = Clamp(st.bho_threshold, 50, 80)
      /\ u.kbd_brightness = Clamp(st.kbd_brightness, 0, 100)
      /\ u.cpu_boost = st.cpu_boost /\ u.bho_enabled = st.bho_enabled
      /\ u.fan = st.fan /\ u.fan_curve = st.fan_curve
      /\ u.ac_fan = st.ac_fan /\ u.battery_fan = st.battery_fan
      /\ u.perf_mode = st.perf_mode /\ u.kbd_effect = st.kbd_effect
      /\ u.logo_led = st.logo_led /\ u.auto_power = st.auto_power
      /\ u.ac_profile = st.ac_profile /\ u.battery_profile = st.battery_profile
  BY DEF SanitizeLoadedState, SanitizeCommon, AppliedState
<1> HIDE DEF u
<1>3. /\ CapBoost(u.gpu_boost, FALSE) = CapBoost(st.gpu_boost, FALSE)
      /\ Clamp(u.bho_threshold, 50, 80) = Clamp(st.bho_threshold, 50, 80)
      /\ Clamp(u.kbd_brightness, 0, 100) = Clamp(st.kbd_brightness, 0, 100)
  <2>1. st.bho_threshold \in Nat /\ st.kbd_brightness \in Nat
    BY DEF AppliedState
  <2> QED
    BY <1>2, <2>1 DEF CapBoost, Clamp
<1>4. /\ t.cpu_boost = s.cpu_boost /\ t.gpu_boost = s.gpu_boost
      /\ t.bho_enabled = s.bho_enabled /\ t.bho_threshold = s.bho_threshold
      /\ t.kbd_brightness = s.kbd_brightness /\ t.fan = s.fan
      /\ t.fan_curve = s.fan_curve /\ t.ac_fan = s.ac_fan
      /\ t.battery_fan = s.battery_fan
  <2>1. /\ s.cpu_boost = CapBoost(st.cpu_boost, HasCpuBoostOc)
        /\ s.gpu_boost = CapBoost(st.gpu_boost, FALSE)
        /\ s.bho_enabled = (st.bho_enabled /\ HasBho)
        /\ s.bho_threshold = Clamp(st.bho_threshold, 50, 80)
        /\ s.kbd_brightness = Clamp(st.kbd_brightness, 0, 100)
        /\ s.fan = FanOrAuto(TRUE, st.fan)
        /\ s.fan_curve = SavedCurve(IF FanOrAuto(TRUE, st.fan).kind = "curve"
                                   THEN FanOrAuto(TRUE, st.fan).points ELSE st.fan_curve)
        /\ s.ac_fan = FanOrAuto(TRUE, st.ac_fan)
        /\ s.battery_fan = FanOrAuto(TRUE, st.battery_fan)
    BY SanitizedFields, Zenon
  <2>2. /\ t.cpu_boost = CapBoost(u.cpu_boost, HasCpuBoostOc)
        /\ t.gpu_boost = CapBoost(u.gpu_boost, FALSE)
        /\ t.bho_enabled = (u.bho_enabled /\ HasBho)
        /\ t.bho_threshold = Clamp(u.bho_threshold, 50, 80)
        /\ t.kbd_brightness = Clamp(u.kbd_brightness, 0, 100)
        /\ t.fan = FanOrAuto(TRUE, u.fan)
        /\ t.fan_curve = SavedCurve(IF FanOrAuto(TRUE, u.fan).kind = "curve"
                                   THEN FanOrAuto(TRUE, u.fan).points ELSE u.fan_curve)
        /\ t.ac_fan = FanOrAuto(TRUE, u.ac_fan)
        /\ t.battery_fan = FanOrAuto(TRUE, u.battery_fan)
    BY <1>1, SanitizedFields, ZenonT(60)
  <2> HIDE DEF s, t
  <2>3. t.bho_enabled = s.bho_enabled /\ t.fan_curve = s.fan_curve
    BY <1>2, <2>1, <2>2, ZenonT(60)
  <2>4. /\ t.cpu_boost = s.cpu_boost /\ t.fan = s.fan
        /\ t.ac_fan = s.ac_fan /\ t.battery_fan = s.battery_fan
    BY <1>2, <2>1, <2>2
  <2>5. /\ t.gpu_boost = s.gpu_boost /\ t.bho_threshold = s.bho_threshold
        /\ t.kbd_brightness = s.kbd_brightness
    BY <1>3, <2>1, <2>2, ZenonT(60)
  <2> QED
    BY <2>3, <2>4, <2>5
<1>5. /\ t.perf_mode = s.perf_mode /\ t.kbd_effect = s.kbd_effect
      /\ t.logo_led = s.logo_led /\ t.auto_power = s.auto_power
      /\ t.ac_profile = s.ac_profile /\ t.battery_profile = s.battery_profile
  BY <1>1, <1>2, SanitizedFields
<1> HIDE DEF s, t
<1>6. t = s
  BY <1>1, <1>4, <1>5, PreferencesAreTheirFields
<1> QED
  BY <1>6 DEF t, u, s

-----------------------------------------------------------------------------
(* Commands and automation keep preferences within the limits.             *)

LEMMA WithFanFits ==
    ASSUME NEW st \in AppliedState, Fits(st), NEW fan \in FanMode, NormalFan(fan)
    PROVE  Fits(WithFan(st, fan))
<1> DEFINE s == WithFan(st, fan)
<1>1. /\ s.cpu_boost = st.cpu_boost /\ s.gpu_boost = st.gpu_boost
      /\ s.bho_enabled = st.bho_enabled /\ s.bho_threshold = st.bho_threshold
      /\ s.kbd_brightness = st.kbd_brightness
      /\ s.ac_fan = st.ac_fan /\ s.battery_fan = st.battery_fan
      /\ s.fan = fan
      /\ s.fan_curve = IF fan.kind = "curve" THEN fan.points ELSE st.fan_curve
  BY DEF WithFan, AppliedState
<1> HIDE DEF s
<1>2. fan.kind = "curve" => NormalCurve(fan.points)
  BY ActiveCurveIsNormal
<1> QED
  BY <1>1, <1>2 DEF Fits, s

\* Two preferences that agree where the model has limits fit alike.
LEMMA FitsAlike ==
    ASSUME NEW st, NEW s, Fits(st),
           s.cpu_boost = st.cpu_boost, s.gpu_boost = st.gpu_boost,
           s.bho_enabled = st.bho_enabled, s.bho_threshold = st.bho_threshold,
           s.kbd_brightness = st.kbd_brightness, s.fan = st.fan,
           s.fan_curve = st.fan_curve, s.ac_fan = st.ac_fan, s.battery_fan = st.battery_fan
    PROVE  Fits(s)
BY DEF Fits

LEMMA AutomationFits ==
    ASSUME NEW st \in AppliedState, Fits(st), NEW on_ac \in BOOLEAN
    PROVE  Fits(AutomationState(TRUE, st, on_ac))
<1> DEFINE s == [st EXCEPT !.perf_mode = SourceProfile(st, on_ac)]
           c == CapCpuBoost(TRUE, s)
           fan == SourceFan(st, on_ac)
<1>1. s \in AppliedState
  BY DEF AppliedState, SourceProfile
<1>2. fan \in FanMode /\ NormalFan(fan)
  BY DEF AppliedState, SourceFan, Fits
<1>3. Fits(s)
  <2>1. /\ s.cpu_boost = st.cpu_boost /\ s.gpu_boost = st.gpu_boost
        /\ s.bho_enabled = st.bho_enabled /\ s.bho_threshold = st.bho_threshold
        /\ s.kbd_brightness = st.kbd_brightness /\ s.fan = st.fan
        /\ s.fan_curve = st.fan_curve /\ s.ac_fan = st.ac_fan
        /\ s.battery_fan = st.battery_fan
    BY DEF AppliedState
  <2> HIDE DEF s
  <2> QED
    BY <2>1, FitsAlike
<1> HIDE DEF s
<1>4. c = s
  BY <1>1, <1>3, FeaturesAssumption DEF CapCpuBoost, Fits, AppliedState
<1>5. AutomationState(TRUE, st, on_ac) = WithFan(c, fan)
  BY DEF AutomationState, s
<1> HIDE DEF c, fan
<1> QED
  BY <1>1, <1>2, <1>3, <1>4, <1>5, WithFanFits

LEMMA SetPerfModeFits ==
    ASSUME NEW st \in AppliedState, Fits(st),
           NEW cmd \in [op : {"SetPerfMode"}, perf_mode : PerfMode,
                        cpu_boost : OptBoost, gpu_boost : OptBoost],
           SetPerfModeState(TRUE, st, cmd) # Rejected
    PROVE  Fits(SetPerfModeState(TRUE, st, cmd))
<1> DEFINE cpu == OrKeep(cmd.cpu_boost, st.cpu_boost)
           gpu == OrKeep(cmd.gpu_boost, st.gpu_boost)
           s == [st EXCEPT !.perf_mode = cmd.perf_mode, !.cpu_boost = cpu, !.gpu_boost = gpu]
           r == CapCpuBoost(TRUE, s)
<1>1. cmd.gpu_boost # "boost" /\ SetPerfModeState(TRUE, st, cmd) = CapCpuBoost(TRUE, s)
  BY DEF SetPerfModeState, AppliedState
<1>2. cpu \in Boost /\ gpu \in Boost /\ gpu # "boost"
  BY <1>1 DEF OrKeep, OptBoost, AppliedState, Fits
<1> HIDE DEF cpu, gpu
<1>3. /\ r.cpu_boost = CapBoost(cpu, HasCpuBoostOc) /\ r.gpu_boost = gpu
      /\ r.bho_enabled = st.bho_enabled /\ r.bho_threshold = st.bho_threshold
      /\ r.kbd_brightness = st.kbd_brightness /\ r.fan = st.fan
      /\ r.fan_curve = st.fan_curve /\ r.ac_fan = st.ac_fan /\ r.battery_fan = st.battery_fan
  BY FeaturesAssumption DEF CapCpuBoost, AppliedState
<1> HIDE DEF r
<1>4. CapBoost(CapBoost(cpu, HasCpuBoostOc), HasCpuBoostOc) = CapBoost(cpu, HasCpuBoostOc)
  BY DEF CapBoost
<1>5. Fits(r)
  BY <1>2, <1>3, <1>4 DEF Fits
<1> QED
  BY <1>1, <1>5 DEF r

LEMMA SetBhoFits ==
    ASSUME NEW st \in AppliedState, Fits(st),
           NEW cmd \in [op : {"SetBho"}, enabled : BOOLEAN, threshold : Nat],
           SetBhoState(TRUE, st, cmd) # Rejected
    PROVE  Fits(SetBhoState(TRUE, st, cmd))
<1> DEFINE limit == Clamp(cmd.threshold, 50, 80)
           s == [st EXCEPT !.bho_enabled = cmd.enabled, !.bho_threshold = limit]
<1>1. HasBho /\ SetBhoState(TRUE, st, cmd) = s
  BY DEF SetBhoState
<1>2. limit \in 50 .. 80
  BY DEF Clamp
<1> HIDE DEF limit
<1>3. /\ s.cpu_boost = st.cpu_boost /\ s.gpu_boost = st.gpu_boost
      /\ s.bho_threshold = limit
      /\ s.kbd_brightness = st.kbd_brightness /\ s.fan = st.fan
      /\ s.fan_curve = st.fan_curve /\ s.ac_fan = st.ac_fan /\ s.battery_fan = st.battery_fan
  BY DEF AppliedState
<1> HIDE DEF s
<1> QED
  BY <1>1, <1>2, <1>3 DEF Fits

LEMMA SetLightingFits ==
    ASSUME NEW st \in AppliedState, Fits(st),
           NEW cmd \in [op : {"SetLighting"}, brightness : Nat \cup {None},
                        kbd_effect : Effects \cup {None}, logo_led : LogoMode \cup {None}],
           SetLightingState(TRUE, st, cmd) # Rejected
    PROVE  Fits(SetLightingState(TRUE, st, cmd))
<1> DEFINE level == IF cmd.brightness = None THEN st.kbd_brightness
                    ELSE Clamp(cmd.brightness, 0, 100)
           s == [st EXCEPT !.kbd_brightness = level,
                           !.kbd_effect = OrKeep(cmd.kbd_effect, @),
                           !.logo_led = OrKeep(cmd.logo_led, @)]
<1>1. SetLightingState(TRUE, st, cmd) = s
  BY DEF SetLightingState, AppliedState
<1>2. level \in 0 .. 100
  BY DEF Clamp, Fits
<1> HIDE DEF level
<1>3. /\ s.cpu_boost = st.cpu_boost /\ s.gpu_boost = st.gpu_boost
      /\ s.bho_enabled = st.bho_enabled /\ s.bho_threshold = st.bho_threshold
      /\ s.kbd_brightness = level /\ s.fan = st.fan
      /\ s.fan_curve = st.fan_curve /\ s.ac_fan = st.ac_fan /\ s.battery_fan = st.battery_fan
  BY DEF AppliedState
<1> HIDE DEF s
<1> QED
  BY <1>1, <1>2, <1>3 DEF Fits

LEMMA SetFanFits ==
    ASSUME NEW st \in AppliedState, Fits(st),
           NEW cmd \in [op : {"SetFan"}, fan : FanMode],
           SetFanState(TRUE, st, cmd) # Rejected
    PROVE  Fits(SetFanState(TRUE, st, cmd))
<1> DEFINE fan == NormalizeFan(TRUE, cmd.fan)
<1>1. fan # Rejected /\ SetFanState(TRUE, st, cmd) = WithFan(st, fan)
  BY DEF SetFanState
<1>2. fan \in FanMode /\ NormalFan(fan)
  BY <1>1, NormalizeFanType, NormalizedFanIsNormal
<1> HIDE DEF fan
<1> QED
  BY <1>1, <1>2, WithFanFits

LEMMA SetAutoPowerFits ==
    ASSUME NEW last_on_ac \in BOOLEAN \cup {None},
           NEW st \in AppliedState, Fits(st),
           NEW cmd \in [op : {"SetAutoPower"}, enabled : BOOLEAN,
                        ac_profile : PerfMode, battery_profile : PerfMode,
                        ac_fan : FanMode, battery_fan : FanMode],
           SetAutoPowerState(TRUE, last_on_ac, st, cmd) # Rejected
    PROVE  Fits(SetAutoPowerState(TRUE, last_on_ac, st, cmd))
<1> DEFINE ac_fan == NormalizeFan(TRUE, cmd.ac_fan)
           battery_fan == NormalizeFan(TRUE, cmd.battery_fan)
           policy == [st EXCEPT !.auto_power = cmd.enabled,
                                !.ac_profile = cmd.ac_profile,
                                !.battery_profile = cmd.battery_profile,
                                !.ac_fan = ac_fan, !.battery_fan = battery_fan]
           adopted == [policy EXCEPT !.perf_mode = SourceProfile(policy, last_on_ac)]
           fan == SourceFan(policy, last_on_ac)
<1>1. Rejected \notin {ac_fan, battery_fan}
  BY DEF SetAutoPowerState
<1>2. SetAutoPowerState(TRUE, last_on_ac, st, cmd) =
          IF cmd.enabled /\ last_on_ac # None THEN WithFan(adopted, fan) ELSE policy
  BY <1>1 DEF SetAutoPowerState
<1>3. /\ ac_fan \in FanMode /\ NormalFan(ac_fan)
      /\ battery_fan \in FanMode /\ NormalFan(battery_fan)
  BY <1>1, NormalizeFanType, NormalizedFanIsNormal
<1> HIDE DEF ac_fan, battery_fan
<1>4. /\ policy \in AppliedState
      /\ policy.cpu_boost = st.cpu_boost /\ policy.gpu_boost = st.gpu_boost
      /\ policy.bho_enabled = st.bho_enabled /\ policy.bho_threshold = st.bho_threshold
      /\ policy.kbd_brightness = st.kbd_brightness /\ policy.fan = st.fan
      /\ policy.fan_curve = st.fan_curve
      /\ policy.ac_fan = ac_fan /\ policy.battery_fan = battery_fan
  BY <1>3 DEF AppliedState
<1> HIDE DEF policy
<1>5. Fits(policy)
  BY <1>3, <1>4 DEF Fits
<1>6. adopted \in AppliedState /\ Fits(adopted)
  <2>1. /\ adopted \in AppliedState
        /\ adopted.cpu_boost = policy.cpu_boost /\ adopted.gpu_boost = policy.gpu_boost
        /\ adopted.bho_enabled = policy.bho_enabled
        /\ adopted.bho_threshold = policy.bho_threshold
        /\ adopted.kbd_brightness = policy.kbd_brightness /\ adopted.fan = policy.fan
        /\ adopted.fan_curve = policy.fan_curve /\ adopted.ac_fan = policy.ac_fan
        /\ adopted.battery_fan = policy.battery_fan
    BY <1>4 DEF AppliedState, SourceProfile
  <2> HIDE DEF adopted
  <2> QED
    BY <1>5, <2>1, FitsAlike
<1>7. fan \in FanMode /\ NormalFan(fan)
  BY <1>3, <1>4 DEF SourceFan
<1> HIDE DEF adopted, fan
<1>8. Fits(WithFan(adopted, fan))
  BY <1>6, <1>7, WithFanFits
<1> QED
  BY <1>2, <1>5, <1>8

\* Whatever a client sends to a daemon whose preferences fit the open EC, it is
\* refused or leads to preferences that fit as well.
LEMMA DesiredFits ==
    ASSUME NEW last_on_ac \in BOOLEAN \cup {None},
           NEW st \in AppliedState, Fits(st), NEW cmd \in Command,
           Desired(TRUE, last_on_ac, st, cmd) # Rejected
    PROVE  Fits(Desired(TRUE, last_on_ac, st, cmd))
<1>1. CASE cmd \in [op : {"SetPerfMode"}, perf_mode : PerfMode,
                    cpu_boost : OptBoost, gpu_boost : OptBoost]
  <2>1. Desired(TRUE, last_on_ac, st, cmd) = SetPerfModeState(TRUE, st, cmd)
    BY <1>1 DEF Desired
  <2> QED
    BY <1>1, <2>1, SetPerfModeFits
<1>2. CASE cmd \in [op : {"SetFan"}, fan : FanMode]
  <2>1. Desired(TRUE, last_on_ac, st, cmd) = SetFanState(TRUE, st, cmd)
    BY <1>2 DEF Desired
  <2> QED
    BY <1>2, <2>1, SetFanFits
<1>3. CASE cmd \in [op : {"SetBho"}, enabled : BOOLEAN, threshold : Nat]
  <2>1. Desired(TRUE, last_on_ac, st, cmd) = SetBhoState(TRUE, st, cmd)
    BY <1>3 DEF Desired
  <2> QED
    BY <1>3, <2>1, SetBhoFits
<1>4. CASE cmd \in [op : {"SetLighting"}, brightness : Nat \cup {None},
                    kbd_effect : Effects \cup {None}, logo_led : LogoMode \cup {None}]
  <2>1. Desired(TRUE, last_on_ac, st, cmd) = SetLightingState(TRUE, st, cmd)
    BY <1>4 DEF Desired
  <2> QED
    BY <1>4, <2>1, SetLightingFits
<1>5. CASE cmd \in [op : {"SetAutoPower"}, enabled : BOOLEAN,
                    ac_profile : PerfMode, battery_profile : PerfMode,
                    ac_fan : FanMode, battery_fan : FanMode]
  <2>1. Desired(TRUE, last_on_ac, st, cmd) = SetAutoPowerState(TRUE, last_on_ac, st, cmd)
    BY <1>5 DEF Desired
  <2> QED
    BY <1>5, <2>1, SetAutoPowerFits
<1> QED
  BY <1>1, <1>2, <1>3, <1>4, <1>5 DEF Command

-----------------------------------------------------------------------------
(* What a successful backend call leaves in the EC, and that every outcome  *)
(* of a call, failures included, is a state of the EC.                      *)

\* The EC is usable and every register holds st, its fans at the given speed.
HwIs(h, st, fan) ==
    /\ h.live
    /\ h.settings = EcSettings(st)
    /\ \A z \in Zones : h.zone[z] = ZoneSetting(st.perf_mode, fan)

\* The fan setting a complete apply of st leaves in both zones.
StartFan(st) == IF st.fan = AutoFan THEN Firmware ELSE MaxRpm

HwOutcome == [ok : BOOLEAN, h : HwType]

LEMMA ZoneSettingType ==
    ASSUME NEW mode \in PerfMode, NEW fan \in Nat \cup {Firmware}
    PROVE  ZoneSetting(mode, fan) \in Zone /\ ZoneSetting(mode, fan) # Unsure
<1>1. ZoneSetting(mode, fan) \in [mode : PerfMode, fan : Nat \cup {Firmware}]
  BY DEF ZoneSetting, EcMode, PerfMode
<1> QED
  BY <1>1, EcMarkersAssumption DEF Zone

LEMMA EcSettingsType ==
    ASSUME NEW st \in AppliedState
    PROVE  EcSettings(st) \in Settings
<1>1. EcBoosts(st) \in (Boost \X Boost) \cup {None}
  <2>1. <<"low", "low">> \in Boost \X Boost
    BY DEF Boost
  <2>2. CapBoost(st.cpu_boost, HasCpuBoostOc) \in Boost /\ CapBoost(st.gpu_boost, FALSE) \in Boost
    BY FeaturesAssumption, CapBoostType DEF AppliedState
  <2> QED
    BY <2>1, <2>2 DEF EcBoosts
<1>2. (IF HasBho THEN <<st.bho_enabled, st.bho_threshold>> ELSE None)
          \in (BOOLEAN \X Nat) \cup {None}
  BY DEF AppliedState
<1>3. <<st.kbd_brightness, st.kbd_effect>> \in Nat \X Effects
  BY DEF AppliedState
<1>4. (IF HasLogo THEN st.logo_led ELSE None) \in LogoMode \cup {None}
  BY DEF AppliedState
<1> QED
  BY <1>1, <1>2, <1>3, <1>4 DEF EcSettings, Settings

LEMMA DisturbedType ==
    ASSUME NEW h \in HwType
    PROVE  /\ Disturbed(h) \in HwType
           /\ Lost(h) \in HwType /\ ~Lost(h).live
           /\ Closed(h) \in HwType
BY DEF Disturbed, Lost, Closed, HwType, Zone

LEMMA InFirmwareType ==
    ASSUME NEW h \in HwType, NEW mode \in PerfMode, NEW acked \in SUBSET Zones
    PROVE  InFirmware(h, mode, acked) \in HwType
<1> DEFINE setting == ZoneSetting(mode, Firmware)
           zone == [z \in Zones |-> IF z \in acked \/ h.zone[z] = setting
                                    THEN setting ELSE Unsure]
<1>1. setting \in Zone /\ Unsure \in Zone
  BY ZoneSettingType DEF Zone
<1> HIDE DEF setting
<1>2. zone \in [Zones -> Zone]
  BY <1>1
<1>3. InFirmware(h, mode, acked) = [h EXCEPT !.zone = zone]
  BY DEF InFirmware, setting, HwType
<1> HIDE DEF zone
<1> QED
  BY <1>2, <1>3 DEF HwType

LEMMA RestoreOutcomesType ==
    ASSUME NEW h \in HwType, NEW mode \in PerfMode
    PROVE  RestoreOutcomes(h, mode) \subseteq HwOutcome
<1>1. ASSUME NEW r \in RestoreOutcomes(h, mode) PROVE r \in HwOutcome
  <2>1. CASE ~h.live
    <3>1. r = FailWith(h)
      BY <1>1, <2>1, Zenon DEF RestoreOutcomes
    <3> QED
      BY <3>1 DEF FailWith, HwOutcome
  <2>2. CASE r = OkWith(InFirmware(h, mode, Zones))
    BY <2>2, InFirmwareType DEF OkWith, HwOutcome
  <2>3. CASE r = FailWith(Lost(h))
    BY <2>3, DisturbedType DEF FailWith, HwOutcome
  <2>4. CASE \E acked \in SUBSET Zones : r = FailWith(InFirmware(h, mode, acked))
    BY <2>4, InFirmwareType DEF FailWith, HwOutcome
  <2> QED
    BY <1>1, <2>1, <2>2, <2>3, <2>4 DEF RestoreOutcomes
<1> QED
  BY <1>1

\* An acknowledged full apply leaves exactly the desired state in the EC, with
\* software-controlled fans at the model's maximum.
LEMMA FullyAppliedIs ==
    ASSUME NEW h \in HwType, NEW st \in AppliedState, h.live
    PROVE  FullyApplied(h, st) \in HwType /\ HwIs(FullyApplied(h, st), st, StartFan(st))
<1> DEFINE zone == [z \in Zones |-> ZoneSetting(st.perf_mode, StartFan(st))]
<1>1. st.perf_mode \in PerfMode
  BY DEF AppliedState
<1>2. StartFan(st) \in Nat \cup {Firmware}
  BY FanLimitsAssumption DEF StartFan
<1>3. zone \in [Zones -> Zone]
  BY <1>1, <1>2, ZoneSettingType
<1>4. FullyApplied(h, st) = [h EXCEPT !.zone = zone, !.settings = EcSettings(st)]
  BY DEF FullyApplied, StartFan
<1>5. \A z \in Zones : zone[z] = ZoneSetting(st.perf_mode, StartFan(st))
  OBVIOUS
<1> HIDE DEF zone
<1> QED
  BY <1>3, <1>4, <1>5, EcSettingsType DEF HwType, HwIs

LEMMA ApplyOutcomesType ==
    ASSUME NEW h \in HwType, NEW st \in AppliedState, NEW r \in ApplyOutcomes(h, st)
    PROVE  r \in HwOutcome /\ (r.ok => HwIs(r.h, st, StartFan(st)))
<1>1. CASE ~h.live
  <2>1. r = FailWith(h)
    BY <1>1, Zenon DEF ApplyOutcomes
  <2> QED
    BY <2>1 DEF FailWith, HwOutcome
<1>2. CASE h.live /\ r = OkWith(FullyApplied(h, st))
  BY <1>2, FullyAppliedIs DEF OkWith, HwOutcome
<1>3. CASE r = FailWith(Lost(h))
  BY <1>3, DisturbedType DEF FailWith, HwOutcome
<1>4. CASE \E q \in RestoreOutcomes(Disturbed(h), st.perf_mode) : r = FailWith(q.h)
  <2>1. PICK q \in RestoreOutcomes(Disturbed(h), st.perf_mode) : r = FailWith(q.h)
    BY <1>4
  <2>2. st.perf_mode \in PerfMode
    BY DEF AppliedState
  <2>3. q \in HwOutcome
    BY <2>1, <2>2, DisturbedType, RestoreOutcomesType
  <2> QED
    BY <2>1, <2>3 DEF FailWith, HwOutcome
<1> QED
  BY <1>1, <1>2, <1>3, <1>4 DEF ApplyOutcomes

LEMMA WithTargetType ==
    ASSUME NEW h \in HwType, NEW rpm \in Nat, NEW acked \in SUBSET Zones
    PROVE  WithTarget(h, rpm, acked) \in HwType
<1> DEFINE Moved(z) == CASE h.zone[z] = Unsure -> Unsure
                         [] z \in acked /\ h.zone[z] # Unsure -> [h.zone[z] EXCEPT !.fan = rpm]
                         [] OTHER -> Unsure
<1>1. ASSUME NEW z \in Zones PROVE Moved(z) \in Zone
  <2>1. CASE h.zone[z] = Unsure \/ z \notin acked
    BY <2>1 DEF Zone
  <2>2. CASE h.zone[z] # Unsure /\ z \in acked
    <3>1. h.zone[z] \in [mode : PerfMode, fan : Nat \cup {Firmware}]
      BY <2>2 DEF HwType, Zone
    <3>2. [h.zone[z] EXCEPT !.fan = rpm] \in Zone
      BY <3>1 DEF Zone
    <3> QED
      BY <2>2, <3>2
  <2> QED
    BY <2>1, <2>2
<1>2. WithTarget(h, rpm, acked) = [h EXCEPT !.zone = [z \in Zones |-> Moved(z)]]
  BY DEF WithTarget, HwType
<1> HIDE DEF Moved
<1> QED
  BY <1>1, <1>2 DEF HwType

\* An acknowledged target write moves both fans and nothing else.
LEMMA TargetOutcomesType ==
    ASSUME NEW h \in HwType, NEW rpm \in Nat, NEW r \in TargetOutcomes(h, rpm)
    PROVE  /\ r \in HwOutcome
           /\ \A st \in AppliedState, fan \in Nat \cup {Firmware} :
                 r.ok /\ HwIs(h, st, fan) => HwIs(r.h, st, rpm)
<1>1. CASE ~h.live
  <2>1. r = FailWith(h)
    BY <1>1, Zenon DEF TargetOutcomes
  <2> QED
    BY <2>1 DEF FailWith, HwOutcome
<1>2. CASE h.live /\ r = OkWith(WithTarget(h, rpm, Zones))
  <2>1. r \in HwOutcome
    BY <1>2, WithTargetType DEF OkWith, HwOutcome
  <2>2. ASSUME NEW st \in AppliedState, NEW fan \in Nat \cup {Firmware}, HwIs(h, st, fan)
        PROVE  HwIs(r.h, st, rpm)
    <3>1. st.perf_mode \in PerfMode
      BY DEF AppliedState
    <3>2. ZoneSetting(st.perf_mode, fan) # Unsure
      BY <3>1, ZoneSettingType
    <3>3. \A z \in Zones : WithTarget(h, rpm, Zones).zone[z]
                              = [ZoneSetting(st.perf_mode, fan) EXCEPT !.fan = rpm]
      BY <2>2, <3>2 DEF WithTarget, HwIs, HwType
    <3>4. [ZoneSetting(st.perf_mode, fan) EXCEPT !.fan = rpm] = ZoneSetting(st.perf_mode, rpm)
      BY DEF ZoneSetting
    <3>5. WithTarget(h, rpm, Zones).live /\ WithTarget(h, rpm, Zones).settings = h.settings
      BY <1>2 DEF WithTarget, HwType
    <3> QED
      BY <1>2, <2>2, <3>3, <3>4, <3>5 DEF HwIs, OkWith
  <2> QED
    BY <2>1, <2>2
<1>3. CASE r = FailWith(Lost(h))
  BY <1>3, DisturbedType DEF FailWith, HwOutcome
<1>4. CASE \E acked \in SUBSET Zones : r = FailWith(WithTarget(h, rpm, acked))
  BY <1>4, WithTargetType DEF FailWith, HwOutcome
<1> QED
  BY <1>1, <1>2, <1>3, <1>4 DEF TargetOutcomes, Zones
=============================================================================
