-------------------------- MODULE FanCurvesProofs --------------------------
(***************************************************************************)
(* For every laptop and every curve, of whatever length: what is accepted  *)
(* is in order and stays as it is, the target lies on the curve, and a     *)
(* hotter machine never gets a slower fan.                                 *)
(***************************************************************************)
EXTENDS FanCurves, EcDeviceProofs


-----------------------------------------------------------------------------
(* One segment of a curve. *)

\* Division of naturals, by what it means.
LEMMA Division ==
    ASSUME NEW a \in Nat, NEW d \in Nat \ {0}
    PROVE  /\ a \div d \in Nat
           /\ d * (a \div d) <= a /\ a < d * (a \div d) + d
OBVIOUS

\* A larger product of the same divisor has the larger factor.
LEMMA FactorsAreOrdered ==
    ASSUME NEW d \in Nat \ {0}, NEW x \in Int, NEW y \in Int, d * x < d * y + d
    PROVE  x <= y
<1> SUFFICES ASSUME x >= y + 1 PROVE FALSE
  OBVIOUS
<1>1. d * x >= d * (y + 1)
  OBVIOUS
<1>2. d * (y + 1) = d * y + d
  OBVIOUS
<1> QED
  BY <1>1, <1>2

LEMMA QuotientsAreOrdered ==
    ASSUME NEW a \in Nat, NEW b \in Nat, a <= b, NEW d \in Nat \ {0}
    PROVE  a \div d <= b \div d
<1> DEFINE x == a \div d
           y == b \div d
<1>1. x \in Int /\ y \in Int /\ d * x <= a /\ b < d * y + d
  BY Division
<1> HIDE DEF x, y
<1>2. d * x \in Int /\ d * y \in Int
  BY <1>1
<1>3. d * x < d * y + d
  BY <1>1, <1>2
<1>4. x <= y
  BY <1>1, <1>3, FactorsAreOrdered
<1> QED
  BY <1>4 DEF x, y

\* Between two neighbours the target is the nearest whole number to the line
\* (f32::round) and stays between their speeds.
LEMMA InterpolateIs ==
    ASSUME NEW low \in CurvePoint, NEW high \in CurvePoint, low.rpm <= high.rpm,
           NEW t \in Nat, low.temp < t, t <= high.temp
    PROVE  /\ Interpolate(low, high, t) \in low.rpm .. high.rpm
           /\ LET span == high.temp - low.temp
                  off == 2 * (span * (Interpolate(low, high, t) - low.rpm)
                              - (high.rpm - low.rpm) * (t - low.temp))
              IN  off <= span /\ off >= - span
<1> DEFINE span == high.temp - low.temp
           climb == high.rpm - low.rpm
           done == t - low.temp
           rise == climb * done
           q == (2 * rise + span) \div (2 * span)
<1>1. /\ low.rpm \in Nat /\ high.rpm \in Nat
      /\ span \in Nat \ {0} /\ climb \in Nat /\ done \in Nat /\ done <= span
  BY DEF CurvePoint
<1>2. Interpolate(low, high, t) = low.rpm + q
  BY DEF Interpolate
<1>3. high.rpm = low.rpm + climb
  BY DEF CurvePoint
<1> HIDE DEF span, climb, done
<1>4. rise \in Nat /\ rise <= climb * span
  BY <1>1
<1> HIDE DEF rise
<1>5. 2 * rise + span \in Nat /\ 2 * span \in Nat \ {0}
  BY <1>1, <1>4
<1>6. /\ q \in Nat /\ 2 * span * q <= 2 * rise + span
      /\ 2 * rise + span < 2 * span * q + 2 * span
  BY <1>5, Division
<1> HIDE DEF q
<1> DEFINE part == span * q
<1>7. part \in Nat /\ 2 * span * q = 2 * part
  BY <1>1, <1>6
<1>8. 2 * (part - rise) <= span /\ 2 * (part - rise) >= - span
  BY <1>1, <1>4, <1>6, <1>7
<1>9. q <= climb
  <2>1. span * q < span * climb + span
    <3>1. span * climb = climb * span /\ climb * span \in Nat
      BY <1>1
    <3> HIDE DEF part
    <3>2. part < span * climb + span
      BY <1>1, <1>4, <1>7, <1>8, <3>1
    <3> QED
      BY <3>2 DEF part
  <2> QED
    BY <1>1, <1>6, <2>1, FactorsAreOrdered
<1>10. Interpolate(low, high, t) - low.rpm = q
  BY <1>1, <1>2, <1>6
<1>11. Interpolate(low, high, t) \in low.rpm .. high.rpm
  BY <1>1, <1>2, <1>3, <1>6, <1>9
<1>12. (high.rpm - low.rpm) * (t - low.temp) = rise
  BY DEF climb, done, rise
<1> QED
  BY <1>8, <1>10, <1>11, <1>12 DEF span

LEMMA InterpolateRises ==
    ASSUME NEW low \in CurvePoint, NEW high \in CurvePoint, low.rpm <= high.rpm,
           NEW t \in Nat, NEW u \in Nat, low.temp < t, t <= u, u <= high.temp
    PROVE  Interpolate(low, high, t) <= Interpolate(low, high, u)
<1> DEFINE span == high.temp - low.temp
           climb == high.rpm - low.rpm
           rise(x) == climb * (x - low.temp)
           q(x) == (2 * rise(x) + span) \div (2 * span)
<1>1. /\ low.rpm \in Nat /\ span \in Nat \ {0} /\ climb \in Nat
      /\ t - low.temp \in Nat /\ u - low.temp \in Nat /\ t - low.temp <= u - low.temp
  BY DEF CurvePoint
<1>2. Interpolate(low, high, t) = low.rpm + q(t) /\ Interpolate(low, high, u) = low.rpm + q(u)
  BY DEF Interpolate
<1> HIDE DEF span, climb
<1>3. rise(t) \in Nat /\ rise(u) \in Nat /\ rise(t) <= rise(u)
  BY <1>1
<1> HIDE DEF rise
<1>4. /\ 2 * rise(t) + span \in Nat /\ 2 * rise(u) + span \in Nat
      /\ 2 * rise(t) + span <= 2 * rise(u) + span /\ 2 * span \in Nat \ {0}
  BY <1>1, <1>3
<1>5. q(t) <= q(u) /\ q(t) \in Nat /\ q(u) \in Nat
  BY <1>4, QuotientsAreOrdered, Division
<1> HIDE DEF q
<1> QED
  BY <1>1, <1>2, <1>5

-----------------------------------------------------------------------------
(* A whole curve. *)

\* What normalize_fan stores of a curve it accepts.
Stored(points) ==
    /\ points \in Seq(CurvePoint) /\ ValidCurve(points)
    /\ \A i \in 1 .. Len(points) : points[i].rpm \in MinRpm .. MaxRpm

Ordered(points) ==
    \A i, j \in 1 .. Len(points) :
        i < j => points[i].temp < points[j].temp /\ points[i].rpm <= points[j].rpm

LEMMA PointsAre ==
    ASSUME NEW points, Stored(points)
    PROVE  /\ Len(points) \in Nat /\ Len(points) >= 2
           /\ \A i \in 1 .. Len(points) : /\ points[i] \in CurvePoint
                                          /\ points[i].temp \in Nat /\ points[i].rpm \in Nat
<1>1. Len(points) \in Nat /\ \A i \in 1 .. Len(points) : points[i] \in CurvePoint
  BY DEF Stored
<1>2. Len(points) >= 2
  <2>1. Len(points) \in 2 .. 8
    BY Zenon DEF Stored, ValidCurve, MinCurvePoints, MaxCurvePoints
  <2> QED
    BY <2>1
<1>3. ASSUME NEW p \in CurvePoint PROVE p.temp \in Nat /\ p.rpm \in Nat
  BY DEF CurvePoint
<1> QED
  BY <1>1, <1>2, <1>3

\* Neighbours in order put all points in order: a last point out of order
\* would have a neighbour out of order before it.
LEMMA StoredIsOrdered ==
    ASSUME NEW points, Stored(points)
    PROVE  Ordered(points)
<1> DEFINE InOrder(i, j) == points[i].temp < points[j].temp /\ points[i].rpm <= points[j].rpm
           bad == {j \in 1 .. Len(points) : \E i \in 1 .. j - 1 : ~InOrder(i, j)}
<1> SUFFICES ASSUME bad # {} PROVE FALSE
  <2>1. ASSUME NEW i \in 1 .. Len(points), NEW j \in 1 .. Len(points), i < j, bad = {}
        PROVE  InOrder(i, j)
    <3>1. i \in 1 .. j - 1
      BY <2>1
    <3> QED
      BY <2>1, <3>1
  <2> QED
    BY <2>1 DEF Ordered
<1>1. bad \subseteq Nat
  OBVIOUS
<1> HIDE DEF bad
<1>2. PICK j \in bad : \A k \in bad : j <= k
  BY <1>1, LeastOf
<1>3. PICK i \in 1 .. j - 1 : ~InOrder(i, j)
  BY <1>2 DEF bad
<1>4. /\ j \in 1 .. Len(points) /\ Len(points) \in Nat
      /\ \A k \in 1 .. Len(points) : points[k].temp \in Nat /\ points[k].rpm \in Nat
  BY <1>2, PointsAre DEF bad
<1>5. j - 1 \in 1 .. Len(points) - 1 /\ j - 1 \notin bad /\ j - 1 + 1 = j
  BY <1>1, <1>2, <1>3, <1>4
<1>6. InOrder(j - 1, j)
  <2>1. InOrder(j - 1, j - 1 + 1)
    BY <1>5 DEF Stored, ValidCurve
  <2> QED
    BY <1>5, <2>1
<1>7. CASE i = j - 1
  BY <1>3, <1>6, <1>7
<1>8. CASE i # j - 1
  <2>1. i \in 1 .. (j - 1) - 1 /\ j - 1 \in 1 .. Len(points) /\ i \in 1 .. Len(points)
    BY <1>3, <1>4, <1>5, <1>8
  <2>2. InOrder(i, j - 1)
    BY <1>5, <2>1 DEF bad
  <2> QED
    BY <1>3, <1>4, <1>6, <2>1, <2>2, SMTT(30)
<1> QED
  BY <1>7, <1>8

\* Where on the curve a temperature lies.
Before(points, t) == t <= points[1].temp
Within(points, t, i) ==
    i \in 1 .. Len(points) - 1 /\ points[i].temp < t /\ t <= points[i + 1].temp
Beyond(points, t) == t > points[Len(points)].temp

LEMMA SomewhereOnTheCurve ==
    ASSUME NEW points, Stored(points), NEW t \in Nat
    PROVE  Before(points, t) \/ Beyond(points, t) \/ \E i : Within(points, t, i)
<1> SUFFICES ASSUME ~Before(points, t), ~Beyond(points, t) PROVE \E i : Within(points, t, i)
  OBVIOUS
<1> DEFINE above == {j \in 1 .. Len(points) : t <= points[j].temp}
<1>1. /\ Len(points) \in Nat /\ Len(points) >= 2
      /\ \A i \in 1 .. Len(points) : points[i].temp \in Nat
  BY PointsAre
<1>2. above \subseteq Nat /\ Len(points) \in above
  BY <1>1 DEF Beyond
<1> HIDE DEF above
<1>3. PICK k \in above : \A j \in above : k <= j
  BY <1>2, LeastOf
<1>4. k \in 2 .. Len(points) /\ t <= points[k].temp /\ k - 1 \notin above
  BY <1>1, <1>2, <1>3 DEF above, Before
<1>5. k - 1 \in 1 .. Len(points) - 1 /\ points[k - 1].temp < t /\ k - 1 + 1 = k
  BY <1>1, <1>4 DEF above
<1> QED
  BY <1>4, <1>5 DEF Within

LEMMA TargetWithin ==
    ASSUME NEW points, Stored(points), NEW t \in Nat, NEW i, Within(points, t, i)
    PROVE  CurveTarget(points, t) = Interpolate(points[i], points[i + 1], t)
<1> DEFINE above == {j \in 2 .. Len(points) : t <= points[j].temp}
           least == CHOOSE j \in above : \A k \in above : j <= k
<1>1. /\ Len(points) \in Nat /\ Len(points) >= 2 /\ Ordered(points)
      /\ \A j \in 1 .. Len(points) : points[j].temp \in Nat
  BY PointsAre, StoredIsOrdered
<1>2. /\ i \in 1 .. Len(points) - 1 /\ i \in Nat
      /\ points[i].temp < t /\ t <= points[i + 1].temp
  BY <1>1 DEF Within
<1>3. i + 1 \in above
  BY <1>1, <1>2
<1>4. ASSUME NEW j \in above PROVE i + 1 <= j
  <2>1. SUFFICES ASSUME j <= i PROVE FALSE
    BY <1>2
  <2>2. points[j].temp <= points[i].temp
    BY <1>1, <1>2, <2>1 DEF Ordered
  <2> QED
    BY <1>1, <1>2, <2>2
<1>5. above \subseteq Nat
  OBVIOUS
<1>6. least = i + 1
  <2> HIDE DEF above
  <2>1. least \in above /\ \A k \in above : least <= k
    BY <1>3, <1>4, Zenon
  <2> HIDE DEF least
  <2> QED
    BY <1>2, <1>3, <1>4, <1>5, <2>1
<1>7. t > points[1].temp
  <2>1. points[1].temp <= points[i].temp
    BY <1>1, <1>2 DEF Ordered
  <2> QED
    BY <1>1, <1>2, <2>1
<1>8. above # {} /\ ~(t <= points[1].temp)
  BY <1>1, <1>3, <1>7
<1>9. CurveTarget(points, t) = Interpolate(points[least - 1], points[least], t)
  BY <1>7, <1>8 DEF CurveTarget
<1> HIDE DEF least
<1>10. least - 1 = i
  BY <1>2, <1>6
<1> QED
  BY <1>6, <1>9, <1>10, Zenon

LEMMA TargetAtAnEnd ==
    ASSUME NEW points, Stored(points), NEW t \in Nat
    PROVE  /\ Before(points, t) => CurveTarget(points, t) = points[1].rpm
           /\ Beyond(points, t) => CurveTarget(points, t) = points[Len(points)].rpm
<1>1. /\ Len(points) \in Nat /\ Len(points) >= 2 /\ Ordered(points)
      /\ \A j \in 1 .. Len(points) : points[j].temp \in Nat
  BY PointsAre, StoredIsOrdered
<1>2. Before(points, t) => CurveTarget(points, t) = points[1].rpm
  BY <1>1 DEF Before, CurveTarget
<1>3. ASSUME Beyond(points, t) PROVE CurveTarget(points, t) = points[Len(points)].rpm
  <2>1. ASSUME NEW j \in 1 .. Len(points) PROVE points[j].temp < t
    <3>1. points[j].temp <= points[Len(points)].temp
      BY <1>1 DEF Ordered
    <3> QED
      BY <1>1, <1>3, <3>1 DEF Beyond
  <2> DEFINE above == {j \in 2 .. Len(points) : t <= points[j].temp}
  <2>2. t > points[1].temp /\ ~(t <= points[1].temp)
    BY <1>1, <2>1
  <2>3. above = {}
    BY <1>1, <2>1
  <2> QED
    BY <2>2, <2>3 DEF CurveTarget
<1> QED
  BY <1>2, <1>3

-----------------------------------------------------------------------------
(* Warming up. *)

LEMMA TargetIsBetween ==
    ASSUME NEW points, Stored(points), NEW t \in Nat, NEW i, Within(points, t, i)
    PROVE  /\ points[i] \in CurvePoint /\ points[i + 1] \in CurvePoint
           /\ points[i].rpm \in Nat /\ points[i + 1].rpm \in Nat
           /\ points[i].rpm <= points[i + 1].rpm
           /\ CurveTarget(points, t) \in points[i].rpm .. points[i + 1].rpm
<1>1. /\ i \in 1 .. Len(points) /\ i + 1 \in 1 .. Len(points) /\ i < i + 1
      /\ points[i].temp < t /\ t <= points[i + 1].temp
  BY PointsAre DEF Within
<1> DEFINE low == points[i]
           high == points[i + 1]
<1>2. /\ low \in CurvePoint /\ high \in CurvePoint /\ low.rpm <= high.rpm
      /\ low.rpm \in Nat /\ high.rpm \in Nat
  BY <1>1, PointsAre, StoredIsOrdered DEF Ordered
<1>3. CurveTarget(points, t) = Interpolate(low, high, t)
  BY TargetWithin
<1>4. low.temp < t /\ t <= high.temp
  BY <1>1
<1> HIDE DEF low, high
<1>5. Interpolate(low, high, t) \in low.rpm .. high.rpm
  BY <1>2, <1>4, InterpolateIs
<1> QED
  BY <1>2, <1>3, <1>5 DEF low, high

\* Once a point has been passed the target does not fall below its speed.
LEMMA PassedPointsBind ==
    ASSUME NEW points, Stored(points), NEW t \in Nat, NEW k \in 1 .. Len(points),
           points[k].temp < t
    PROVE  CurveTarget(points, t) \in Int /\ CurveTarget(points, t) >= points[k].rpm
<1> DEFINE n == Len(points)
<1>1. /\ n \in Nat /\ n >= 2 /\ Ordered(points)
      /\ \A i \in 1 .. n : points[i].temp \in Nat /\ points[i].rpm \in Nat
  BY PointsAre, StoredIsOrdered
<1>2. ~Before(points, t)
  BY <1>1 DEF Before, Ordered
<1>3. CASE Beyond(points, t)
  <2>1. CurveTarget(points, t) = points[n].rpm
    BY <1>3, TargetAtAnEnd
  <2>2. points[k].rpm <= points[n].rpm
    BY <1>1 DEF Ordered
  <2> QED
    BY <1>1, <2>1, <2>2
<1>4. ASSUME NEW j, Within(points, t, j)
      PROVE  CurveTarget(points, t) \in Int /\ CurveTarget(points, t) >= points[k].rpm
  <2>1. j \in 1 .. n - 1 /\ t <= points[j + 1].temp
    BY <1>4 DEF Within
  <2>2. k <= j
    <3>1. SUFFICES ASSUME j + 1 <= k PROVE FALSE
      BY <1>1, <2>1
    <3>2. points[j + 1].temp <= points[k].temp
      BY <1>1, <2>1, <3>1 DEF Ordered
    <3> QED
      BY <1>1, <2>1, <3>2
  <2>3. points[k].rpm <= points[j].rpm
    BY <1>1, <2>1, <2>2 DEF Ordered
  <2>4. /\ points[j].rpm \in Nat /\ points[j + 1].rpm \in Nat
        /\ CurveTarget(points, t) \in points[j].rpm .. points[j + 1].rpm
    BY <1>4, TargetIsBetween
  <2> QED
    BY <1>1, <2>3, <2>4
<1> QED
  BY <1>2, <1>3, <1>4, SomewhereOnTheCurve

LEMMA TargetRises ==
    ASSUME NEW points, Stored(points), NEW t \in Nat
    PROVE  /\ CurveTarget(points, t) \in Int /\ CurveTarget(points, t + 1) \in Int
           /\ CurveTarget(points, t) <= CurveTarget(points, t + 1)
<1> DEFINE n == Len(points)
           u == t + 1
<1>1. /\ n \in Nat /\ n >= 2 /\ u \in Nat /\ Ordered(points)
      /\ \A i \in 1 .. n : points[i].temp \in Nat /\ points[i].rpm \in Nat
  BY PointsAre, StoredIsOrdered
<1>2. CASE Before(points, t)
  <2>1. CurveTarget(points, t) = points[1].rpm
    BY <1>2, TargetAtAnEnd
  <2>2. CASE Before(points, u)
    BY <1>1, <2>1, <2>2, TargetAtAnEnd
  <2>3. CASE ~Before(points, u)
    <3>1. points[1].temp < u
      BY <1>1, <2>3 DEF Before
    <3> QED
      BY <1>1, <2>1, <3>1, PassedPointsBind
  <2> QED
    BY <2>2, <2>3
<1>3. CASE Beyond(points, t)
  <2>1. Beyond(points, u)
    BY <1>1, <1>3 DEF Beyond
  <2> QED
    BY <1>1, <1>3, <2>1, TargetAtAnEnd
<1>4. ASSUME NEW i, Within(points, t, i)
      PROVE  /\ CurveTarget(points, t) \in Int /\ CurveTarget(points, u) \in Int
             /\ CurveTarget(points, t) <= CurveTarget(points, u)
  <2>1. /\ points[i] \in CurvePoint /\ points[i + 1] \in CurvePoint
        /\ points[i].rpm \in Nat /\ points[i + 1].rpm \in Nat
        /\ points[i].rpm <= points[i + 1].rpm
        /\ CurveTarget(points, t) \in points[i].rpm .. points[i + 1].rpm
    BY <1>4, TargetIsBetween
  <2>2. /\ i \in 1 .. n - 1 /\ points[i].temp < t /\ t <= points[i + 1].temp
        /\ i + 1 \in 1 .. n
    BY <1>1, <1>4 DEF Within
  <2>3. points[i].temp \in Nat /\ points[i + 1].temp \in Nat
    BY <1>1, <2>2
  <2>4. CASE u <= points[i + 1].temp
    <3>1. Within(points, u, i)
      BY <1>1, <2>2, <2>3, <2>4 DEF Within
    <3>2. /\ CurveTarget(points, t) = Interpolate(points[i], points[i + 1], t)
          /\ CurveTarget(points, u) = Interpolate(points[i], points[i + 1], u)
      BY <1>1, <1>4, <3>1, TargetWithin
    <3>3. CurveTarget(points, u) \in points[i].rpm .. points[i + 1].rpm
      BY <1>1, <3>1, TargetIsBetween
    <3>4. t <= u
      BY <1>1
    <3> HIDE DEF u
    <3>5. Interpolate(points[i], points[i + 1], t) <= Interpolate(points[i], points[i + 1], u)
      BY <1>1, <2>1, <2>2, <2>4, <3>4, InterpolateRises
    <3> QED
      BY <2>1, <3>2, <3>3, <3>5
  <2>5. CASE ~(u <= points[i + 1].temp)
    <3>1. points[i + 1].temp < u
      BY <1>1, <2>3, <2>5
    <3>2. CurveTarget(points, u) \in Int /\ CurveTarget(points, u) >= points[i + 1].rpm
      BY <1>1, <2>2, <3>1, PassedPointsBind
    <3> QED
      BY <2>1, <3>2
  <2> QED
    BY <2>4, <2>5
<1> QED
  BY <1>2, <1>3, <1>4, SomewhereOnTheCurve

LEMMA NormalizingRises ==
    ASSUME NEW x \in Int, NEW y \in Int, x <= y
    PROVE  NormalizeRpm(x, MinRpm, MaxRpm) <= NormalizeRpm(y, MinRpm, MaxRpm)
<1> DEFINE hundreds(z) == ((Clamp(z, MinRpm, MaxRpm) + 50) \div 100) * 100
<1>1. MinRpm \in Nat /\ MaxRpm \in Nat /\ MinRpm <= MaxRpm
  BY FanLimitsAssumption
<1>2. \A z \in Int : Clamp(z, MinRpm, MaxRpm) \in Int
  BY <1>1 DEF Clamp
<1>3. Clamp(x, MinRpm, MaxRpm) <= Clamp(y, MinRpm, MaxRpm)
  BY <1>1 DEF Clamp
<1>4. hundreds(x) \in Int /\ hundreds(y) \in Int /\ hundreds(x) <= hundreds(y)
  BY <1>2, <1>3
<1>5. \A z \in Int : NormalizeRpm(z, MinRpm, MaxRpm) = Clamp(hundreds(z), MinRpm, MaxRpm)
  BY DEF NormalizeRpm
<1> HIDE DEF hundreds
<1>6. Clamp(hundreds(x), MinRpm, MaxRpm) <= Clamp(hundreds(y), MinRpm, MaxRpm)
  BY <1>1, <1>4 DEF Clamp
<1> QED
  BY <1>5, <1>6

-----------------------------------------------------------------------------
(* What normalize_fan accepts. *)

LEMMA AcceptedIsStored ==
    ASSUME NEW points \in Seq(CurvePoint), NormalizeFan(TRUE, CurveFan(points)) # Rejected
    PROVE  LET f == NormalizeFan(TRUE, CurveFan(points))
           IN  f = CurveFan(f.points) /\ Stored(f.points) /\ NormalizeFan(TRUE, f) = f
<1> DEFINE stored == NormalizePoints(points)
<1>1. CurveFan(points).kind = "curve" /\ CurveFan(points).points = points
  BY DEF CurveFan
<1>2. NormalizeFan(TRUE, CurveFan(points)) = CurveFan(stored) /\ ValidCurve(stored)
  BY <1>1 DEF NormalizeFan
<1>3. /\ stored \in Seq(CurvePoint) /\ Len(stored) = Len(points)
      /\ NormalizePoints(stored) = stored
  BY NormalizePointsType, NormalPoints
<1>4. ASSUME NEW i \in 1 .. Len(points) PROVE stored[i].rpm \in MinRpm .. MaxRpm
  <2> DEFINE point == points[i]
             speed == NormalizeRpm(point.rpm, MinRpm, MaxRpm)
  <2>1. point \in CurvePoint
    OBVIOUS
  <2>2. stored[i] = [point EXCEPT !.rpm = speed]
    BY DEF NormalizePoints
  <2> HIDE DEF point
  <2>3. speed \in MinRpm .. MaxRpm
    BY <2>1, NormalizedRpmIsInRange DEF CurvePoint
  <2> HIDE DEF speed
  <2> QED
    BY <2>1, <2>2, <2>3 DEF CurvePoint
<1> HIDE DEF stored
<1>5. CurveFan(stored).kind = "curve" /\ CurveFan(stored).points = stored
  BY DEF CurveFan
<1>6. NormalizeFan(TRUE, CurveFan(stored)) = CurveFan(stored)
  BY <1>2, <1>3, <1>5 DEF NormalizeFan
<1>7. Stored(stored)
  BY <1>2, <1>3, <1>4 DEF Stored
<1> QED
  BY <1>2, <1>5, <1>6, <1>7

\* The policy is what was made of the points received.
CurveInv ==
    /\ temp \in Nat
    /\ Accepted => /\ fan = CurveFan(fan.points) /\ Stored(fan.points)
                   /\ NormalizeFan(TRUE, fan) = fan

LEMMA CurveBegins == CurveInit => CurveInv
<1> SUFFICES ASSUME CurveInit, Accepted
             PROVE  /\ fan = CurveFan(fan.points) /\ Stored(fan.points)
                    /\ NormalizeFan(TRUE, fan) = fan
  BY CurvesAssumption DEF CurveInit, CurveInv
<1>1. raw \in Seq(CurvePoint) /\ fan = NormalizeFan(TRUE, CurveFan(raw)) /\ fan # Rejected
  BY CurvesAssumption DEF CurveInit, Accepted
<1> QED
  BY <1>1, AcceptedIsStored

LEMMA CurveStays == CurveInv /\ [Warm]_curveVars => CurveInv'
<1> SUFFICES ASSUME CurveInv, [Warm]_curveVars PROVE CurveInv'
  OBVIOUS
<1>1. fan' = fan /\ temp' \in Nat
  BY DEF CurveInv, Warm, curveVars
<1> QED
  BY <1>1 DEF CurveInv, Accepted

-----------------------------------------------------------------------------
(* The theorems. *)

\* A custom curve, once accepted, is in order, within the limits of the laptop and
\* left alone by later loads (core.rs normalize_fan): for every curve a client may send.
THEOREM StoredCurvesStay == CurveSpec => []AcceptedCurvesAreStable
<1>1. ASSUME CurveInv PROVE AcceptedCurvesAreStable
  <2>1. Accepted => Ordered(fan.points)
    BY <1>1, StoredIsOrdered DEF CurveInv
  <2> QED
    BY <1>1, <2>1 DEF AcceptedCurvesAreStable, CurveInv, Stored, Ordered
<1> QED
  BY <1>1, CurveBegins, CurveStays, PTL DEF CurveSpec

\* The target lies on the curve (core.rs curve_target): at the ends it is the speed of
\* the end, between two points the whole number nearest to the line through them.
THEOREM TargetsFollowTheCurve == CurveSpec => []TargetIsOnTheCurve
<1>1. ASSUME CurveInv, Accepted
      PROVE  LET n == Len(fan.points)
             IN  /\ temp <= fan.points[1].temp => Target = fan.points[1].rpm
                 /\ temp > fan.points[n].temp => Target = fan.points[n].rpm
                 /\ \A i \in 1 .. n - 1 :
                      LET low == fan.points[i]
                          high == fan.points[i + 1]
                      IN  low.temp < temp /\ temp <= high.temp =>
                             /\ Off(low, high, Target) <= high.temp - low.temp
                             /\ Off(low, high, Target) >= low.temp - high.temp
  <2> DEFINE p == fan.points
  <2>1. temp \in Nat /\ Stored(p)
    BY <1>1 DEF CurveInv
  <2>2. Target = CurveTarget(p, temp)
    BY DEF Target
  <2> HIDE DEF p
  <2>3. /\ temp <= p[1].temp => Target = p[1].rpm
        /\ temp > p[Len(p)].temp => Target = p[Len(p)].rpm
    BY <2>1, <2>2, TargetAtAnEnd DEF Before, Beyond
  <2>4. ASSUME NEW i \in 1 .. Len(p) - 1, p[i].temp < temp, temp <= p[i + 1].temp
        PROVE  /\ Off(p[i], p[i + 1], Target) <= p[i + 1].temp - p[i].temp
               /\ Off(p[i], p[i + 1], Target) >= p[i].temp - p[i + 1].temp
    <3> DEFINE low == p[i]
               high == p[i + 1]
    <3>1. Within(p, temp, i)
      BY <2>4 DEF Within
    <3>2. Target = Interpolate(low, high, temp)
      BY <2>1, <2>2, <3>1, TargetWithin
    <3>3. low \in CurvePoint /\ high \in CurvePoint /\ low.rpm <= high.rpm
      BY <2>1, <3>1, TargetIsBetween
    <3>4. low.temp < temp /\ temp <= high.temp
      BY <2>4
    <3> HIDE DEF low, high
    <3>5. LET span == high.temp - low.temp
              off == 2 * (span * (Interpolate(low, high, temp) - low.rpm)
                          - (high.rpm - low.rpm) * (temp - low.temp))
          IN  off <= span /\ off >= - span
      BY <2>1, <3>3, <3>4, InterpolateIs
    <3>6. - (high.temp - low.temp) = low.temp - high.temp
      BY <3>3 DEF CurvePoint
    <3>7. /\ Off(low, high, Target) <= high.temp - low.temp
          /\ Off(low, high, Target) >= low.temp - high.temp
      BY <3>2, <3>5, <3>6 DEF Off
    <3> QED
      BY <3>7 DEF low, high
  <2> QED
    BY <2>3, <2>4 DEF p
<1>2. CurveInv => TargetIsOnTheCurve
  BY <1>1 DEF TargetIsOnTheCurve
<1> QED
  BY <1>2, CurveBegins, CurveStays, PTL DEF CurveSpec

\* A hotter machine never gets a slower fan (core.rs curve_target, normalize_rpm):
\* across all points of every accepted curve, and after rounding to whole hundreds.
THEOREM WarmingNeverSlows == CurveSpec => HotterIsNeverSlower
<1>1. CurveInv /\ [Warm]_curveVars =>
          [Accepted => NormalizeRpm(Target', MinRpm, MaxRpm)
                           >= NormalizeRpm(Target, MinRpm, MaxRpm)]_curveVars
  <2> SUFFICES ASSUME CurveInv, Warm
               PROVE  NormalizeRpm(Target', MinRpm, MaxRpm) >= NormalizeRpm(Target, MinRpm, MaxRpm)
    OBVIOUS
  <2> DEFINE p == fan.points
             now == CurveTarget(p, temp)
             then == CurveTarget(p, temp + 1)
  <2>1. temp \in Nat /\ Stored(p)
    BY DEF CurveInv, Warm, Accepted
  <2>2. Target = now /\ Target' = then
    BY DEF Target, Warm
  <2> HIDE DEF p
  <2>3. now \in Int /\ then \in Int /\ now <= then
    BY <2>1, TargetRises
  <2> HIDE DEF now, then
  <2>4. /\ NormalizeRpm(now, MinRpm, MaxRpm) \in Int /\ NormalizeRpm(then, MinRpm, MaxRpm) \in Int
        /\ NormalizeRpm(now, MinRpm, MaxRpm) <= NormalizeRpm(then, MinRpm, MaxRpm)
    BY <2>3, NormalizingRises, NormalizedRpmIsInRange, FanLimitsAssumption
  <2> QED
    BY <2>2, <2>4
<1> QED
  BY <1>1, CurveBegins, CurveStays, PTL DEF CurveSpec, HotterIsNeverSlower
=============================================================================
