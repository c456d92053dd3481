--------------------------- MODULE FangCoreProofs ---------------------------
(***************************************************************************)
(* For every laptop model, every set of commands and sensor values: the    *)
(* core's belief that the hardware is in the published state is never      *)
(* wrong, whatever fails.                                                  *)
(*                                                                         *)
(* A lemma per method of Core says what the worlds it leaves are like; the *)
(* steps then follow from the methods they call.                           *)
(***************************************************************************)
EXTENDS FangCore, EcDeviceProofs

Notes == Replies \cup {"applied"}

Worlds ==
    [hw : HwType, disk : AppliedState, state : AppliedState, applied : BOOLEAN,
     target : Nat \cup {None}, override : OverrideReasons \cup {None},
     cpu : Nat \cup {None}, gpu : Nat \cup {None}, missed : 0 .. CpuSensorMissLimit,
     on_ac : BOOLEAN \cup {None},
     power_retry : Deadline \cup {None}, hw_retry : Deadline \cup {None}]

Outcomes == [ok : BOOLEAN, note : Notes, w : Worlds]

\* The speed the core believes the fans of w are set to.
BelievedFan(w) == IF w.state.fan # AutoFan THEN w.target ELSE Firmware

\* HardwareMatches, of one world; software control always has a target.
Consistent(w) ==
    w.applied => /\ HwIs(w.hw, w.state, BelievedFan(w))
                 /\ w.state.fan # AutoFan => w.target \in Nat

\* The moment after a complete apply of st, before the policy has run.
JustApplied(w, st) == w.applied /\ HwIs(w.hw, st, StartFan(st))

Good(w) == w \in Worlds /\ Consistent(w)

-----------------------------------------------------------------------------
(* Backend calls. *)

LEMMA LiftType ==
    ASSUME NEW w \in Worlds, NEW S \in SUBSET HwOutcome, NEW q \in Lift(w, S)
    PROVE  \E r \in S : /\ q = [ok |-> r.ok, w |-> [w EXCEPT !.hw = r.h]]
                        /\ q.w = [w EXCEPT !.hw = r.h] /\ q.ok = r.ok
                        /\ q.w \in Worlds /\ q.ok \in BOOLEAN
<1>1. PICK r \in Results(S) : q = [ok |-> r.ok, w |-> [w EXCEPT !.hw = r.h]]
  BY DEF Lift
<1>2. r \in S
  BY DEF Results
<1>3. r.ok \in BOOLEAN /\ r.h \in HwType
  BY <1>2 DEF HwOutcome
<1>4. [w EXCEPT !.hw = r.h] \in Worlds
  BY <1>3 DEF Worlds
<1> QED
  BY <1>1, <1>2, <1>3, <1>4

LEMMA HwApplyLemma ==
    ASSUME NEW w \in Worlds, NEW st \in AppliedState, NEW q \in HwApply(w, st)
    PROVE  /\ q.w \in Worlds /\ q.ok \in BOOLEAN
           /\ q.w.state = w.state
           /\ q.ok => HwIs(q.w.hw, st, StartFan(st))
<1>1. w.hw \in HwType
  BY DEF Worlds
<1>2. ApplyOutcomes(w.hw, st) \subseteq HwOutcome
  BY <1>1, ApplyOutcomesType
<1>3. PICK r \in ApplyOutcomes(w.hw, st) :
          /\ q.w = [w EXCEPT !.hw = r.h] /\ q.ok = r.ok
          /\ q.w \in Worlds /\ q.ok \in BOOLEAN
  BY <1>2, LiftType DEF HwApply
<1>4. q.w.hw = r.h /\ q.w.state = w.state
  BY <1>3 DEF Worlds
<1> QED
  BY <1>1, <1>3, <1>4, ApplyOutcomesType

LEMMA HwSetTargetLemma ==
    ASSUME NEW w \in Worlds, NEW rpm \in Nat, NEW q \in HwSetTarget(w, rpm)
    PROVE  /\ q.w \in Worlds /\ q.ok \in BOOLEAN
           /\ q.w.state = w.state
           /\ \A st \in AppliedState, fan \in Nat \cup {Firmware} :
                 q.ok /\ HwIs(w.hw, st, fan) => HwIs(q.w.hw, st, rpm)
<1>1. w.hw \in HwType
  BY DEF Worlds
<1>2. TargetOutcomes(w.hw, rpm) \subseteq HwOutcome
  BY <1>1, TargetOutcomesType
<1>3. PICK r \in TargetOutcomes(w.hw, rpm) :
          /\ q.w = [w EXCEPT !.hw = r.h] /\ q.ok = r.ok
          /\ q.w \in Worlds /\ q.ok \in BOOLEAN
  BY <1>2, LiftType DEF HwSetTarget
<1>4. q.w.hw = r.h /\ q.w.state = w.state
  BY <1>3 DEF Worlds
<1> QED
  BY <1>1, <1>3, <1>4, TargetOutcomesType

LEMMA HwRestoreAutoLemma ==
    ASSUME NEW w \in Worlds, NEW mode \in PerfMode, NEW q \in HwRestoreAuto(w, mode)
    PROVE  /\ q.w \in Worlds /\ q.ok \in BOOLEAN
           /\ q.w.state = w.state
<1>1. w.hw \in HwType
  BY DEF Worlds
<1>2. RestoreOutcomes(w.hw, mode) \subseteq HwOutcome
  BY <1>1, RestoreOutcomesType
<1>3. PICK r \in RestoreOutcomes(w.hw, mode) :
          /\ q.w = [w EXCEPT !.hw = r.h] /\ q.ok = r.ok
          /\ q.w \in Worlds /\ q.ok \in BOOLEAN
  BY <1>2, LiftType DEF HwRestoreAuto
<1>4. q.w.hw = r.h /\ q.w.state = w.state
  BY <1>3 DEF Worlds
<1> QED
  BY <1>3, <1>4

-----------------------------------------------------------------------------
(* Bookkeeping. *)

LEMMA DeadlineType == RetryTicks \in Deadline /\ 0 \in Deadline
BY InputsAssumption DEF Deadline

LEMMA MarkUnappliedLemma ==
    ASSUME NEW w \in Worlds
    PROVE  /\ Good(MarkUnapplied(w)) /\ ~MarkUnapplied(w).applied
           /\ MarkUnapplied(w).state = w.state
BY DeadlineType DEF MarkUnapplied, Worlds, Good, Consistent

LEMMA MarkAppliedLemma ==
    ASSUME NEW w \in Worlds
    PROVE  /\ MarkApplied(w) \in Worlds /\ MarkApplied(w).applied
           /\ MarkApplied(w).state = w.state /\ MarkApplied(w).hw = w.hw
BY DEF MarkApplied, Worlds

\* The policy starts from what a complete apply has left in the fans.
LEMMA ResetTargetLemma ==
    ASSUME NEW w \in Worlds, JustApplied(w, w.state)
    PROVE  /\ Good(ResetTarget(w)) /\ ResetTarget(w).state = w.state
           /\ ResetTarget(w).applied
<1>1. w.hw.live
  BY DEF JustApplied, HwIs
<1>2. CASE w.state.fan = AutoFan
  <2>1. ResetTarget(w) = [w EXCEPT !.target = None, !.override = None]
    BY <1>2 DEF ResetTarget
  <2> QED
    BY <1>2, <2>1 DEF Good, Consistent, Worlds, JustApplied, StartFan, BelievedFan
<1>3. CASE w.state.fan # AutoFan
  <2>1. ResetTarget(w) = [w EXCEPT !.target = MaxRpm, !.override = "sensor_unavailable"]
    BY <1>1, <1>3 DEF ResetTarget, FanMax
  <2>2. MaxRpm \in Nat /\ "sensor_unavailable" \in OverrideReasons
    BY FanLimitsAssumption DEF OverrideReasons
  <2> QED
    BY <1>3, <2>1, <2>2 DEF Good, Consistent, Worlds, JustApplied, StartFan, BelievedFan
<1> QED
  BY <1>2, <1>3

-----------------------------------------------------------------------------
(* apply_hardware_state: success leaves the desired state, failure leaves   *)
(* either the previous one or the knowledge that it is not in force.        *)

LEMMA FallBackLemma ==
    ASSUME NEW w \in Worlds, NEW r \in FallBack(w)
    PROVE  /\ r \in Outcomes /\ ~r.ok /\ Good(r.w) /\ r.w.state = w.state
           /\ r.note \in Replies
<1>1. w.state.perf_mode \in PerfMode
  BY DEF Worlds, AppliedState
<1>2. PICK q \in HwRestoreAuto(w, w.state.perf_mode) :
          r = [ok |-> FALSE, note |-> IF q.ok THEN "auto" ELSE "unconfirmed",
               w |-> MarkUnapplied(q.w)]
  BY DEF FallBack
<1>3. q.w \in Worlds /\ q.w.state = w.state
  BY <1>1, HwRestoreAutoLemma
<1>4. Good(MarkUnapplied(q.w)) /\ MarkUnapplied(q.w).state = w.state
  BY <1>3, MarkUnappliedLemma
<1> QED
  BY <1>2, <1>4 DEF Outcomes, Notes, Replies, Good

LEMMA RollBackLemma ==
    ASSUME NEW w \in Worlds, NEW r \in RollBack(w)
    PROVE  /\ r \in Outcomes /\ ~r.ok /\ Good(r.w) /\ r.w.state = w.state
           /\ r.note \in Replies
<1>1. w.state \in AppliedState
  BY DEF Worlds
<1>2. PICK q \in HwApply(w, w.state) :
          r \in IF q.ok
                THEN {[ok |-> FALSE, note |-> "restored", w |-> ResetTarget(MarkApplied(q.w))]}
                ELSE FallBack(q.w)
  BY DEF RollBack
<1>3. /\ q.w \in Worlds /\ q.w.state = w.state
      /\ q.ok => HwIs(q.w.hw, w.state, StartFan(w.state))
  BY <1>1, HwApplyLemma
<1>4. CASE q.ok
  <2> DEFINE v == MarkApplied(q.w)
  <2>1. v \in Worlds /\ v.state = w.state /\ JustApplied(v, v.state)
    BY <1>3, <1>4, MarkAppliedLemma DEF JustApplied
  <2>2. Good(ResetTarget(v)) /\ ResetTarget(v).state = w.state
    BY <2>1, ResetTargetLemma
  <2>3. r = [ok |-> FALSE, note |-> "restored", w |-> ResetTarget(v)]
    BY <1>2, <1>4
  <2> QED
    BY <2>2, <2>3 DEF Outcomes, Notes, Replies, Good
<1>5. CASE ~q.ok
  BY <1>2, <1>3, <1>5, FallBackLemma
<1> QED
  BY <1>4, <1>5

LEMMA ApplyHardwareStateLemma ==
    ASSUME NEW w \in Worlds, NEW desired \in AppliedState,
           NEW r \in ApplyHardwareState(w, desired)
    PROVE  /\ r \in Outcomes /\ r.w \in Worlds /\ r.w.state = w.state
           /\ r.ok => JustApplied(r.w, desired)
           /\ ~r.ok => Good(r.w) /\ r.note \in Replies
<1>1. PICK q \in HwApply(w, desired) :
          \/ q.ok /\ r = [ok |-> TRUE, note |-> "applied", w |-> MarkApplied(q.w)]
          \/ ~q.ok /\ r \in RollBack(q.w)
          \/ ~q.ok /\ r \in FallBack(q.w)
  BY DEF ApplyHardwareState
<1>2. /\ q.w \in Worlds /\ q.w.state = w.state
      /\ q.ok => HwIs(q.w.hw, desired, StartFan(desired))
  BY HwApplyLemma
<1>3. CASE q.ok /\ r = [ok |-> TRUE, note |-> "applied", w |-> MarkApplied(q.w)]
  BY <1>2, <1>3, MarkAppliedLemma DEF Outcomes, Notes, Replies, JustApplied
<1>4. CASE ~q.ok /\ r \in RollBack(q.w)
  BY <1>2, <1>4, RollBackLemma DEF Good
<1>5. CASE ~q.ok /\ r \in FallBack(q.w)
  BY <1>2, <1>5, FallBackLemma DEF Good
<1> QED
  BY <1>1, <1>3, <1>4, <1>5

-----------------------------------------------------------------------------
(* The fan policy. *)

LEMMA GuardReasonType ==
    ASSUME NEW w
    PROVE  GuardReason(w) \in OverrideReasons \cup {None}
BY DEF GuardReason, OverrideReasons

LEMMA NormalizeRpmIsNat ==
    ASSUME NEW rpm \in Int, NEW lo \in Nat, NEW hi \in Nat
    PROVE  NormalizeRpm(rpm, lo, hi) \in Nat
<1>1. Clamp(rpm, lo, hi) \in Nat
  BY DEF Clamp
<1>2. ((Clamp(rpm, lo, hi) + 50) \div 100) * 100 \in Int
  BY <1>1
<1> DEFINE rounded == ((Clamp(rpm, lo, hi) + 50) \div 100) * 100
<1>3. NormalizeRpm(rpm, lo, hi) = Clamp(rounded, lo, hi)
  BY DEF NormalizeRpm
<1> HIDE DEF rounded
<1>4. Clamp(rounded, lo, hi) \in Nat
  BY <1>2 DEF Clamp, rounded
<1> QED
  BY <1>3, <1>4

LEMMA PolicyTargetType ==
    ASSUME NEW w \in Worlds, w.state.fan # AutoFan
    PROVE  PolicyTarget(w) \in Nat
<1>1. FanMax(w) \in Nat /\ FanMin(w) \in Nat
  BY FanLimitsAssumption DEF FanMax, FanMin
<1>2. CASE GuardReason(w) # None
  BY <1>1, <1>2 DEF PolicyTarget
<1>3. CASE GuardReason(w) = None
  <2>1. SensorOk(w)
    BY <1>3, ReasonsAssumption DEF GuardReason, OverrideReasons
  <2>2. w.cpu \in Nat /\ w.gpu \in Nat \cup {None} /\ w.state.fan \in FanMode
    BY <2>1 DEF SensorOk, Worlds, AppliedState
  <2>3. RequestedRpm(w.state.fan, w.cpu, w.gpu, FanMax(w)) \in Int
    BY <1>1, <2>2, RequestedRpmType
  <2> QED
    BY <1>1, <1>3, <2>3, NormalizeRpmIsNat DEF PolicyTarget
<1> QED
  BY <1>2, <1>3

LEMMA RecoverTargetLemma ==
    ASSUME NEW w \in Worlds, NEW v \in RecoverTarget(w)
    PROVE  Good(v)
<1>1. PICK r \in ApplyHardwareState(w, w.state) : v = IF r.ok THEN ResetTarget(r.w) ELSE r.w
  BY DEF RecoverTarget
<1>2. /\ r.w \in Worlds /\ r.w.state = w.state
      /\ r.ok => JustApplied(r.w, w.state)
      /\ ~r.ok => Good(r.w)
  <2>1. w.state \in AppliedState
    BY DEF Worlds
  <2> QED
    BY <1>1, <2>1, ApplyHardwareStateLemma
<1>3. CASE r.ok
  BY <1>1, <1>2, <1>3, ResetTargetLemma
<1>4. CASE ~r.ok
  BY <1>1, <1>2, <1>4
<1> QED
  BY <1>3, <1>4

LEMMA SendTargetLemma ==
    ASSUME NEW w, Good(w), w.applied, w.state.fan # AutoFan, NEW rpm \in Nat,
           NEW v \in SendTarget(w, rpm)
    PROVE  Good(v)
<1>1. PICK q \in HwSetTarget(w, rpm) :
          v \in IF q.ok THEN {[q.w EXCEPT !.target = rpm]} ELSE RecoverTarget(q.w)
  BY DEF SendTarget
<1>2. /\ q.w \in Worlds /\ q.ok \in BOOLEAN /\ q.w.state = w.state
      /\ q.ok => HwIs(q.w.hw, w.state, rpm)
  <2>1. /\ w.state \in AppliedState /\ HwIs(w.hw, w.state, w.target)
        /\ w \in Worlds /\ w.target \in Nat
    BY DEF Good, Consistent, BelievedFan, Worlds
  <2> QED
    BY <2>1, HwSetTargetLemma
<1>3. CASE q.ok
  <2>1. v = [q.w EXCEPT !.target = rpm]
    BY <1>1, <1>3
  <2> QED
    BY <1>2, <1>3, <2>1 DEF Good, Consistent, BelievedFan, Worlds
<1>4. CASE ~q.ok
  BY <1>1, <1>2, <1>4, RecoverTargetLemma
<1> QED
  BY <1>2, <1>3, <1>4

LEMMA UpdateFanPolicyLemma ==
    ASSUME NEW w, Good(w), NEW v \in UpdateFanPolicy(w)
    PROVE  Good(v)
<1> DEFINE u == [w EXCEPT !.override = GuardReason(w)]
<1>1. \/ /\ ~w.applied \/ w.state.fan = AutoFan
         /\ v = [w EXCEPT !.target = None, !.override = None]
      \/ v = u
      \/ /\ w.applied /\ w.state.fan # AutoFan
         /\ v \in SendTarget(u, PolicyTarget(w))
  BY Zenon DEF UpdateFanPolicy
<1>2. Good(u) /\ u.applied = w.applied /\ u.state = w.state
  BY GuardReasonType DEF Good, Worlds, Consistent, BelievedFan
<1>3. CASE /\ ~w.applied \/ w.state.fan = AutoFan
           /\ v = [w EXCEPT !.target = None, !.override = None]
  BY <1>3 DEF Good, Worlds, Consistent, BelievedFan
<1>4. CASE v = u
  BY <1>2, <1>4
<1>5. CASE /\ w.applied /\ w.state.fan # AutoFan
           /\ v \in SendTarget(u, PolicyTarget(w))
  <2>1. PolicyTarget(w) \in Nat
    BY <1>5, PolicyTargetType DEF Good
  <2> HIDE DEF u
  <2> QED
    BY <1>2, <1>5, <2>1, SendTargetLemma
<1> QED
  BY <1>1, <1>3, <1>4, <1>5

LEMMA SettleLemma ==
    ASSUME NEW w \in Worlds, JustApplied(w, w.state), NEW v \in Settle(w)
    PROVE  Good(v)
BY ResetTargetLemma, UpdateFanPolicyLemma DEF Settle

-----------------------------------------------------------------------------
(* Commits and reapplies. *)

LEMMA UndoUnsavedLemma ==
    ASSUME NEW w \in Worlds, NEW r \in UndoUnsaved(w)
    PROVE  r \in Outcomes /\ ~r.ok /\ Good(r.w) /\ r.note \in Replies
<1>1. PICK q \in ApplyHardwareState(w, w.state) :
          \/ q.ok /\ \E v \in Settle(q.w) : r = [ok |-> FALSE, note |-> "unsaved_restored", w |-> v]
          \/ ~q.ok /\ r = [ok |-> FALSE, note |-> q.note, w |-> q.w]
  BY DEF UndoUnsaved
<1>2. w.state \in AppliedState
  BY DEF Worlds
<1>3. /\ q \in Outcomes /\ q.w \in Worlds /\ q.w.state = w.state
      /\ q.ok => JustApplied(q.w, w.state)
      /\ ~q.ok => Good(q.w) /\ q.note \in Replies
  BY <1>2, ApplyHardwareStateLemma
<1>4. CASE q.ok /\ \E v \in Settle(q.w) : r = [ok |-> FALSE, note |-> "unsaved_restored", w |-> v]
  <2>1. PICK v \in Settle(q.w) : r = [ok |-> FALSE, note |-> "unsaved_restored", w |-> v]
    BY <1>4
  <2>2. Good(v)
    BY <1>3, <1>4, SettleLemma
  <2> QED
    BY <2>1, <2>2 DEF Outcomes, Notes, Replies, Good
<1>5. CASE ~q.ok /\ r = [ok |-> FALSE, note |-> q.note, w |-> q.w]
  BY <1>3, <1>5 DEF Outcomes, Good
<1> QED
  BY <1>1, <1>4, <1>5

LEMMA CommitStateLemma ==
    ASSUME NEW w \in Worlds, NEW next \in AppliedState, NEW r \in CommitState(w, next)
    PROVE  r \in Outcomes /\ Good(r.w) /\ r.note \in Replies
<1>1. PICK q \in ApplyHardwareState(w, next) :
          \/ ~q.ok /\ r = q
          \/ q.ok /\ \E v \in Settle([q.w EXCEPT !.disk = next, !.state = next]) :
                        r = [ok |-> TRUE, note |-> "saved", w |-> v]
          \/ q.ok /\ r \in UndoUnsaved(q.w)
  <2>1. PICK q \in ApplyHardwareState(w, next) :
            r \in IF ~q.ok THEN {q}
                  ELSE UNION {IF saved
                              THEN {[ok |-> TRUE, note |-> "saved", w |-> v] :
                                       v \in Settle([q.w EXCEPT !.disk = next, !.state = next])}
                              ELSE UndoUnsaved(q.w) : saved \in Saves}
    BY Zenon DEF CommitState
  <2>2. CASE ~q.ok
    BY <2>1, <2>2
  <2>3. CASE q.ok
    <3>1. PICK saved \in Saves :
              r \in IF saved
                    THEN {[ok |-> TRUE, note |-> "saved", w |-> v] :
                             v \in Settle([q.w EXCEPT !.disk = next, !.state = next])}
                    ELSE UndoUnsaved(q.w)
      BY <2>1, <2>3, Zenon
    <3>2. \/ r \in {[ok |-> TRUE, note |-> "saved", w |-> v] :
                       v \in Settle([q.w EXCEPT !.disk = next, !.state = next])}
          \/ r \in UndoUnsaved(q.w)
      BY <3>1, Zenon
    <3> QED
      BY <2>1, <2>3, <3>2, Zenon
  <2> QED
    BY <2>2, <2>3
<1>2. /\ q \in Outcomes /\ q.w \in Worlds
      /\ q.ok => JustApplied(q.w, next)
      /\ ~q.ok => Good(q.w) /\ q.note \in Replies
  BY ApplyHardwareStateLemma
<1>3. CASE ~q.ok /\ r = q
  BY <1>2, <1>3
<1>4. CASE q.ok /\ \E v \in Settle([q.w EXCEPT !.disk = next, !.state = next]) :
                       r = [ok |-> TRUE, note |-> "saved", w |-> v]
  <2> DEFINE x == q.w
             u == [x EXCEPT !.disk = next, !.state = next]
  <2>1. u \in Worlds /\ u.state = next /\ JustApplied(u, u.state)
    <3>1. x \in Worlds /\ x.applied /\ HwIs(x.hw, next, StartFan(next))
      BY <1>2, <1>4 DEF JustApplied
    <3> HIDE DEF x
    <3>2. u \in Worlds
      BY <3>1, ZenonT(60) DEF Worlds
    <3>3. u.state = next /\ u.applied = x.applied /\ u.hw = x.hw
      BY <3>1 DEF Worlds
    <3> QED
      BY <3>1, <3>2, <3>3 DEF JustApplied
  <2>2. PICK v \in Settle(u) : r = [ok |-> TRUE, note |-> "saved", w |-> v]
    BY <1>4
  <2> HIDE DEF u
  <2>3. Good(v)
    BY <2>1, <2>2, SettleLemma
  <2> QED
    BY <2>2, <2>3 DEF Outcomes, Notes, Replies, Good
<1>5. CASE q.ok /\ r \in UndoUnsaved(q.w)
  BY <1>2, <1>5, UndoUnsavedLemma
<1> QED
  BY <1>1, <1>3, <1>4, <1>5

LEMMA ReapplyLemma ==
    ASSUME NEW w \in Worlds, NEW v \in Reapply(w)
    PROVE  Good(v)
<1> DEFINE u == ForgetReadings(w)
<1>1. u \in Worlds /\ u.state = w.state /\ w.state \in AppliedState
  <2>1. CpuSensorMissLimit \in 0 .. CpuSensorMissLimit
    BY DEF CpuSensorMissLimit
  <2> QED
    BY <2>1 DEF ForgetReadings, Worlds
<1>2. PICK r \in ApplyHardwareState(u, w.state) :
          \/ r.ok /\ v \in Settle(r.w)
          \/ ~r.ok /\ v = r.w
          \/ ~r.ok /\ v = [r.w EXCEPT !.hw_retry = RetryTicks]
  BY DEF Reapply
<1> HIDE DEF u
<1>3. /\ r.w \in Worlds /\ r.w.state = w.state
      /\ r.ok => JustApplied(r.w, w.state)
      /\ ~r.ok => Good(r.w)
  BY <1>1, ApplyHardwareStateLemma
<1>4. CASE r.ok /\ v \in Settle(r.w)
  BY <1>3, <1>4, SettleLemma
<1>5. CASE ~r.ok /\ v = r.w
  BY <1>3, <1>5
<1>6. CASE ~r.ok /\ v = [r.w EXCEPT !.hw_retry = RetryTicks]
  BY <1>3, <1>6, DeadlineType DEF Good, Worlds, Consistent, BelievedFan
<1> QED
  BY <1>2, <1>4, <1>5, <1>6

\* Normalising loaded preferences happens only while nothing is in force.
LEMMA SanitizeLemma ==
    ASSUME NEW w \in Worlds, ~w.applied, NEW v \in Sanitize(w)
    PROVE  v \in Worlds /\ ~v.applied
<1> DEFINE st == SanitizeLoadedState(w.hw.live, w.state)
<1>1. st \in AppliedState
  BY SanitizeType DEF Worlds, HwType
<1>2. v = w \/ \E saved \in Saves :
                  v = [w EXCEPT !.state = st, !.disk = IF saved THEN st ELSE @]
  BY DEF Sanitize
<1> HIDE DEF st
<1> QED
  BY <1>1, <1>2 DEF Worlds

LEMMA TakeOverLemma ==
    ASSUME NEW w \in Worlds, NEW v \in TakeOver(w)
    PROVE  Good(v)
<1>1. PICK u \in Sanitize(MarkUnapplied(w)) :
          v \in Reapply([u EXCEPT !.on_ac = None, !.power_retry = None])
  BY DEF TakeOver
<1>2. u \in Worlds
  BY MarkUnappliedLemma, SanitizeLemma DEF Good
<1>3. [u EXCEPT !.on_ac = None, !.power_retry = None] \in Worlds
  BY <1>2 DEF Worlds
<1> QED
  BY <1>1, <1>3, ReapplyLemma

-----------------------------------------------------------------------------
(* A tick. *)

LEMMA RecoverLemma ==
    ASSUME NEW w, Good(w), NEW reopened \in BOOLEAN, NEW v \in Recover(w, reopened)
    PROVE  Good(v)
<1>1. w \in Worlds /\ [w EXCEPT !.hw.live = TRUE] \in Worlds
  BY ZenonT(60) DEF Good, Worlds, HwType
<1>2. \/ v \in TakeOver([w EXCEPT !.hw.live = TRUE])
      \/ v \in Reapply(w)
      \/ v = w
  BY Zenon DEF Recover
<1> QED
  BY <1>1, <1>2, TakeOverLemma, ReapplyLemma

LEMMA ReadLemma ==
    ASSUME NEW w, Good(w), NEW c \in Nat \cup {None}, NEW g \in Nat \cup {None}
    PROVE  Good(Read(w, c, g))
<1> DEFINE temp == IF c = None THEN w.cpu ELSE c
           misses == IF c = None
                     THEN IF w.missed < CpuSensorMissLimit THEN w.missed + 1 ELSE w.missed
                     ELSE 0
<1>1. temp \in Nat \cup {None} /\ misses \in 0 .. CpuSensorMissLimit
  BY DEF Good, Worlds, CpuSensorMissLimit
<1>2. Read(w, c, g) = [w EXCEPT !.cpu = temp, !.missed = misses, !.gpu = g]
  BY DEF Read, Good, Worlds
<1> HIDE DEF temp, misses
<1> QED
  BY <1>1, <1>2, ZenonT(60) DEF Good, Worlds, Consistent, BelievedFan

\* A handle found dead while sampling ends the belief that it was in force.
LEMMA SenseLemma ==
    ASSUME NEW w, Good(w), NEW c \in Nat \cup {None}, NEW g \in Nat \cup {None},
           NEW t \in Sense(w, c, g)
    PROVE  Good(t)
<1>1. PICK h \in SampledHw(w) :
          LET v == [w EXCEPT !.hw = h]
              u == IF ~h.live /\ v.applied THEN MarkUnapplied(v) ELSE v
          IN  t \in UpdateFanPolicy(Read(u, c, g))
  BY DEF Sense
<1> DEFINE v == [w EXCEPT !.hw = h]
           u == IF ~h.live /\ v.applied THEN MarkUnapplied(v) ELSE v
<1>2. w.hw \in HwType
  BY DEF Good, Worlds
<1>3. h = w.hw \/ (h \in HwType /\ ~h.live)
  BY <1>2, DisturbedType DEF SampledHw, SampleOutcomes
<1>4. v \in Worlds
  BY <1>2, <1>3 DEF Good, Worlds
<1>5. ASSUME ~h.live, v.applied PROVE Good(u)
  BY <1>4, <1>5, MarkUnappliedLemma
<1>6. ASSUME ~(~h.live /\ v.applied) PROVE Good(u)
  <2>1. v.applied => v = w
    BY <1>3, <1>6 DEF Good, Worlds
  <2>2. u = v
    BY <1>6, Zenon
  <2> HIDE DEF v, u
  <2> QED
    BY <1>4, <2>1, <2>2 DEF Good, Consistent
<1>7. Good(u)
  BY <1>5, <1>6
<1> HIDE DEF u
<1>8. Good(Read(u, c, g))
  BY <1>7, ReadLemma
<1> QED
  BY <1>1, <1>8, UpdateFanPolicyLemma DEF u

LEMMA PowerTickLemma ==
    ASSUME NEW w, Good(w), NEW source \in BOOLEAN \cup {None}, NEW t \in PowerTick(w, source)
    PROVE  Good(t.w)
<1> DEFINE v == Sampled(w, source)
           next == AutomationState(w.hw.live, w.state, source)
<1>1. Good(v)
  <2>1. PICK retry \in {None, w.power_retry} :
            v = [w EXCEPT !.on_ac = source, !.power_retry = retry]
    BY DEF Sampled, Good, Worlds
  <2>2. retry \in Deadline \cup {None}
    BY <2>1 DEF Good, Worlds
  <2> HIDE DEF v
  <2> QED
    BY <2>1, <2>2, ZenonT(60) DEF Good, Worlds, Consistent, BelievedFan
<1>2. \/ t = [changed |-> FALSE, w |-> v]
      \/ t = [changed |-> FALSE, w |-> [v EXCEPT !.power_retry = None]]
      \/ AutomationDue(w, source) /\ t \in CommitAutomation(v, next)
  BY Zenon DEF PowerTick
<1> HIDE DEF v
<1>3. CASE t = [changed |-> FALSE, w |-> v]
  BY <1>1, <1>3
<1>4. CASE t = [changed |-> FALSE, w |-> [v EXCEPT !.power_retry = None]]
  BY <1>1, <1>4 DEF Good, Worlds, Consistent, BelievedFan
<1>5. CASE AutomationDue(w, source) /\ t \in CommitAutomation(v, next)
  <2>1. source \in BOOLEAN
    BY <1>5 DEF AutomationDue
  <2>2. next \in AppliedState
    BY <2>1, AutomationStateType DEF Good, Worlds, HwType
  <2> HIDE DEF next
  <2>3. PICK r \in CommitState(v, next) :
            t = [changed |-> r.ok,
                 w |-> [r.w EXCEPT !.power_retry = IF r.ok THEN None ELSE RetryTicks]]
    BY <1>5 DEF CommitAutomation
  <2>4. Good(r.w)
    BY <1>1, <2>2, CommitStateLemma DEF Good
  <2> QED
    BY <2>3, <2>4, DeadlineType DEF Good, Worlds, Consistent, BelievedFan
<1> QED
  BY <1>2, <1>3, <1>4, <1>5

\* A command may find the EC disturbed by a sleep that no tick has seen yet.
LEMMA HandleSetLemma ==
    ASSUME NEW w \in Worlds, NEW cmd \in Command, NEW r \in HandleSet(w, cmd)
    PROVE  /\ r.w \in Worlds /\ r.note \in Replies /\ r.ok \in BOOLEAN
           /\ r.w = w \/ Good(r.w)
<1> DEFINE next == Desired(w.hw.live, w.on_ac, w.state, cmd)
<1>1. next \in AppliedState \cup {Rejected}
  BY DesiredType DEF Worlds, HwType
<1>2. \/ r = [ok |-> FALSE, note |-> "rejected", w |-> w]
      \/ /\ next # Rejected
         /\ \E q \in CommitState(w, next) :
               r = [q EXCEPT !.w.power_retry = IF q.ok /\ Supersedes(cmd) THEN None ELSE @]
  BY DEF HandleSet
<1> HIDE DEF next
<1>3. CASE r = [ok |-> FALSE, note |-> "rejected", w |-> w]
  BY <1>3 DEF Replies
<1>4. CASE /\ next # Rejected
           /\ \E q \in CommitState(w, next) :
                 r = [q EXCEPT !.w.power_retry = IF q.ok /\ Supersedes(cmd) THEN None ELSE @]
  <2>1. PICK q \in CommitState(w, next) :
            r = [q EXCEPT !.w.power_retry = IF q.ok /\ Supersedes(cmd) THEN None ELSE @]
    BY <1>4
  <2>2. q \in Outcomes /\ Good(q.w) /\ q.note \in Replies
    BY <1>1, <1>4, CommitStateLemma
  <2>3. /\ r.w = [q.w EXCEPT !.power_retry = IF q.ok /\ Supersedes(cmd) THEN None ELSE @]
        /\ r.note = q.note /\ r.ok = q.ok
    BY <2>1, <2>2 DEF Outcomes
  <2> QED
    BY <2>2, <2>3 DEF Good, Worlds, Consistent, BelievedFan, Outcomes
<1> QED
  BY <1>2, <1>3, <1>4

-----------------------------------------------------------------------------
(* The inductive invariant.  HardwareMatches is not inductive by itself: a  *)
(* failed target write is recovered by reapplying the published state, so   *)
(* the types of the state and of the registers are needed too, software     *)
(* control must have a target to move both fans from, and a process that    *)
(* has ended must not have left a belief behind for ExecStopPost to break.  *)

CoreType ==
    /\ hw \in HwType /\ disk \in AppliedState /\ state \in AppliedState
    /\ applied \in BOOLEAN /\ target \in Nat \cup {None}
    /\ override \in OverrideReasons \cup {None}
    /\ cpu \in Nat \cup {None} /\ gpu \in Nat \cup {None}
    /\ missed \in 0 .. CpuSensorMissLimit /\ on_ac \in BOOLEAN \cup {None}
    /\ power_retry \in Deadline \cup {None} /\ hw_retry \in Deadline \cup {None}

ProcessType ==
    /\ suspended \in BOOLEAN /\ stable \in BOOLEAN
    /\ status \in {"running", "stopping", "crashed", "stopped", "restarting", "off"}
    /\ conn_retry \in Deadline
    /\ present \in BOOLEAN /\ announced \in BOOLEAN
    /\ chosen \in BOOLEAN /\ fresh \in BOOLEAN
    /\ reply \in Replies \cup {None}

Belief ==
    applied =>
        /\ HwIs(hw, state, IF state.fan # AutoFan THEN target ELSE Firmware)
        /\ state.fan # AutoFan => target \in Nat

IInv ==
    /\ CoreType /\ ProcessType
    /\ ~suspended => Belief
    /\ ~Alive => ~applied

LEMMA IInvImplies ==
    ASSUME IInv
    PROVE  TypeOK /\ HardwareMatches
<1>1. TypeOK
  BY DEF IInv, CoreType, ProcessType, TypeOK
<1>2. HardwareMatches
  BY DEF IInv, Belief, HardwareMatches, HwIs, InCharge, Software
<1> QED
  BY <1>1, <1>2

LEMMA WorldLemma ==
    ASSUME CoreType
    PROVE  World \in Worlds /\ (Belief => Good(World))
<1>1. World \in Worlds
  BY DEF CoreType, World, Worlds
<1>2. World.applied = applied /\ World.hw = hw /\ World.state = state /\ World.target = target
  BY DEF World
<1> QED
  BY <1>1, <1>2 DEF Belief, Good, Consistent, BelievedFan

LEMMA BecomeLemma ==
    ASSUME NEW w \in Worlds, Become(w)
    PROVE  CoreType' /\ (Good(w) => Belief')
<1>1. CoreType'
  BY DEF Become, CoreType, Worlds
<1>2. applied' = w.applied /\ hw' = w.hw /\ state' = w.state /\ target' = w.target
  BY DEF Become
<1> QED
  BY <1>1, <1>2 DEF Belief, Good, Consistent, BelievedFan

LEMMA BlankLemma ==
    ASSUME NEW h \in HwType, NEW d \in AppliedState
    PROVE  Good(Blank(h, d)) /\ ~Blank(h, d).applied
<1>1. CpuSensorMissLimit \in 0 .. CpuSensorMissLimit
  BY DEF CpuSensorMissLimit
<1> QED
  BY <1>1 DEF Blank, Good, Worlds, Consistent

LEMMA InitIInv == Init => IInv
<1> SUFFICES ASSUME Init PROVE IInv
  OBVIOUS
<1>1. hw \in HwType
  <2>1. hw = [live |-> FALSE, zone |-> [z \in Zones |-> Unsure], settings |-> Unsure]
    BY DEF Init, Disturbed
  <2> QED
    BY <2>1 DEF HwType, Zone
<1>2. disk \in AppliedState /\ state \in AppliedState
  BY InputsAssumption DEF Init
<1>3. CpuSensorMissLimit \in 0 .. CpuSensorMissLimit
  BY DEF CpuSensorMissLimit
<1>4. CoreType
  BY <1>1, <1>2, <1>3 DEF Init, CoreType
<1>5. ProcessType
  BY DeadlineType DEF Init, ProcessType
<1> QED
  BY <1>4, <1>5 DEF Init, IInv, Belief

-----------------------------------------------------------------------------
(* One lemma per step. *)

LEMMA StartLemma ==
    ASSUME IInv, Start
    PROVE  IInv'
<1>1. PICK opened \in Opens :
      \E w \in Sanitize([Blank(hw, disk) EXCEPT !.hw.live = opened]) :
      \E r \in Reapply(w) :
          Become(r) /\ present' = opened /\ announced' = r.hw.live
  BY DEF Start
<1> DEFINE b == [Blank(hw, disk) EXCEPT !.hw.live = opened]
<1>2. b \in Worlds /\ ~b.applied
  <2>1. opened \in BOOLEAN
    BY <1>1 DEF Opens
  <2>2. Blank(hw, disk) \in Worlds /\ ~Blank(hw, disk).applied
    BY BlankLemma DEF IInv, CoreType, Good
  <2> QED
    BY <2>1, <2>2 DEF Worlds, HwType
<1>7. PICK w \in Sanitize(b) :
          \E r \in Reapply(w) : Become(r) /\ present' = opened /\ announced' = r.hw.live
  BY <1>1
<1> HIDE DEF b
<1>3. PICK r \in Reapply(w) : Become(r) /\ present' = opened /\ announced' = r.hw.live
  BY <1>7
<1>4. Good(r) /\ r.hw.live \in BOOLEAN
  BY <1>2, <1>7, <1>3, SanitizeLemma, ReapplyLemma DEF Good, Worlds, HwType
<1>5. CoreType' /\ Belief'
  BY <1>3, <1>4, BecomeLemma DEF Good
<1>6. ProcessType'
  BY <1>1, <1>3, <1>4, DeadlineType DEF Start, Opens, IInv, ProcessType
<1> QED
  BY <1>5, <1>6 DEF IInv, Alive, Start

LEMMA TickLemma ==
    ASSUME IInv, NEW c \in CpuReadings, NEW g \in GpuReadings, NEW source \in PowerReadings,
           TickWith(c, g, source)
    PROVE  IInv'
<1> DEFINE Post(w0, reopened, w2, t) ==
          /\ Become(t.w)
          /\ conn_retry' = IF ~w0.hw.live /\ Due(conn_retry) THEN RetryTicks ELSE conn_retry
          /\ present' = w2.hw.live
          /\ announced' = IF t.changed \/ StatusChanged(reopened, w2.hw.live)
                          THEN t.w.hw.live ELSE announced
          /\ chosen' = (chosen /\ source = on_ac /\ ~reopened)
          /\ fresh' = (c # None \/ (fresh /\ ~suspended /\ hw.live))
<1>9. PICK w0 \in IF suspended THEN Reapply(World) ELSE {World} :
          \E reopened \in Reopenings(w0) : \E w1 \in Recover(w0, reopened) :
          \E w2 \in Sense(w1, c, g) : \E t \in PowerTick(w2, source) :
              Post(w0, reopened, w2, t)
  BY Zenon DEF TickWith
<1> HIDE DEF Post
<1>10. PICK reopened \in Reopenings(w0) : \E w1 \in Recover(w0, reopened) :
          \E w2 \in Sense(w1, c, g) : \E t \in PowerTick(w2, source) :
              Post(w0, reopened, w2, t)
  BY <1>9
<1>11. PICK w1 \in Recover(w0, reopened) :
          \E w2 \in Sense(w1, c, g) : \E t \in PowerTick(w2, source) :
              Post(w0, reopened, w2, t)
  BY <1>10
<1>12. PICK w2 \in Sense(w1, c, g) : \E t \in PowerTick(w2, source) :
              Post(w0, reopened, w2, t)
  BY <1>11
<1>13. PICK t \in PowerTick(w2, source) : Post(w0, reopened, w2, t)
  BY <1>12
<1>1. /\ Become(t.w)
      /\ conn_retry' = IF ~w0.hw.live /\ Due(conn_retry) THEN RetryTicks ELSE conn_retry
      /\ present' = w2.hw.live
      /\ announced' = IF t.changed \/ StatusChanged(reopened, w2.hw.live)
                      THEN t.w.hw.live ELSE announced
      /\ chosen' = (chosen /\ source = on_ac /\ ~reopened)
      /\ fresh' = (c # None \/ (fresh /\ ~suspended /\ hw.live))
  BY <1>13 DEF Post
<1>2. /\ c \in Nat \cup {None} /\ g \in Nat \cup {None} /\ source \in BOOLEAN \cup {None}
      /\ reopened \in BOOLEAN
  BY <1>10, InputsAssumption DEF Reopenings, Opens
<1>3. Good(w0)
  BY <1>9, WorldLemma, ReapplyLemma DEF IInv
<1>4. Good(w1)
  BY <1>11, <1>2, <1>3, RecoverLemma
<1>5. Good(w2)
  BY <1>12, <1>2, <1>4, SenseLemma
<1>6. Good(t.w)
  BY <1>13, <1>2, <1>5, PowerTickLemma
<1>7. CoreType' /\ Belief'
  BY <1>1, <1>6, BecomeLemma DEF Good
<1>8. ProcessType'
  <2>1. w2.hw.live \in BOOLEAN /\ t.w.hw.live \in BOOLEAN
    BY <1>5, <1>6 DEF Good, Worlds, HwType
  <2>2. conn_retry' \in Deadline
    BY <1>1, DeadlineType DEF IInv, ProcessType
  <2>3. announced' \in BOOLEAN /\ present' \in BOOLEAN
    BY <1>1, <2>1 DEF IInv, ProcessType
  <2>4. chosen' \in BOOLEAN /\ fresh' \in BOOLEAN
    BY <1>1, Zenon
  <2> QED
    BY <2>2, <2>3, <2>4 DEF TickWith, IInv, ProcessType
<1> QED
  BY <1>7, <1>8 DEF IInv, Alive, TickWith

LEMMA HandleLemma ==
    ASSUME IInv, NEW cmd \in Commands, Handle(cmd)
    PROVE  IInv'
<1>1. PICK r \in HandleSet(World, cmd) :
          /\ Become(r.w) /\ reply' = r.note
          /\ announced' = IF r.ok THEN r.w.hw.live ELSE announced
          /\ chosen' = (r.w.state.auto_power /\ (chosen \/ (r.ok /\ Supersedes(cmd))))
  BY DEF Handle
<1>2. cmd \in Command /\ World \in Worlds
  BY InputsAssumption, WorldLemma DEF IInv
<1>3. /\ r.w \in Worlds /\ r.note \in Replies /\ r.ok \in BOOLEAN
      /\ r.w = World \/ Good(r.w)
  BY <1>1, <1>2, HandleSetLemma
<1>4. suspended' = suspended
  BY DEF Handle
<1>5. CoreType' /\ (~suspended' => Belief')
  BY <1>1, <1>3, <1>4, BecomeLemma, WorldLemma DEF IInv
<1>6. ProcessType'
  <2>1. r.w.hw.live \in BOOLEAN
    BY <1>3 DEF Worlds, HwType
  <2>2. announced' \in BOOLEAN
    BY <1>1, <2>1 DEF IInv, ProcessType
  <2>3. chosen' \in BOOLEAN
    BY <1>1, Zenon
  <2>4. reply' \in Replies
    BY <1>1, <1>3
  <2> QED
    BY <2>2, <2>3, <2>4 DEF Handle, IInv, ProcessType
<1> QED
  BY <1>5, <1>6 DEF IInv, Alive, Handle

LEMMA LeaveLemma ==
    ASSUME IInv, NEW h \in HwType, NEW d \in AppliedState,
           NEW next \in {"crashed", "stopped"}, Leave(h, d, next)
    PROVE  IInv'
<1>1. Good(Blank(Closed(h), d))
  BY DisturbedType, BlankLemma
<1>2. CoreType' /\ Belief'
  BY <1>1, BecomeLemma DEF Leave, Good
<1>3. ProcessType'
  BY DeadlineType DEF Leave, IInv, ProcessType
<1>4. ~applied'
  BY BlankLemma, DisturbedType DEF Leave, Become
<1> QED
  BY <1>2, <1>3, <1>4 DEF IInv

\* Whatever save a process that dies has completed, the file is well formed.
LEMMA InFlightType ==
    ASSUME IInv
    PROVE  {disk} \cup InFlight \subseteq AppliedState
<1>1. on_ac \in BOOLEAN \cup {None} /\ state \in AppliedState /\ disk \in AppliedState
  BY DEF IInv, CoreType
<1>2. \A cmd \in Commands : Desired(TRUE, on_ac, state, cmd) \in AppliedState \cup {Rejected}
  BY <1>1, InputsAssumption, DesiredType
<1>3. SanitizeLoadedState(TRUE, state) \in AppliedState
  BY <1>1, SanitizeType
<1>4. \A st \in AppliedState, source \in BOOLEAN :
          AutomationState(TRUE, st, source) \in AppliedState
  BY AutomationStateType
<1> QED
  BY <1>1, <1>2, <1>3, <1>4 DEF InFlight

LEMMA CrashLemma ==
    ASSUME IInv, Crash
    PROVE  IInv'
<1>1. PICK d \in {disk} \cup InFlight : Leave(Disturbed(hw), d, "crashed")
  BY DEF Crash
<1>2. d \in AppliedState /\ hw \in HwType
  BY <1>1, InFlightType DEF IInv, CoreType
<1> QED
  BY <1>1, <1>2, DisturbedType, LeaveLemma

LEMMA AbandonLemma ==
    ASSUME IInv, Abandon
    PROVE  IInv'
<1>1. PICK d \in {disk} \cup InFlight : Leave(Disturbed(hw), d, "stopped")
  BY DEF Abandon
<1>2. d \in AppliedState /\ hw \in HwType
  BY <1>1, InFlightType DEF IInv, CoreType
<1> QED
  BY <1>1, <1>2, DisturbedType, LeaveLemma

LEMMA StopLemma ==
    ASSUME IInv, Stop
    PROVE  IInv'
<1>1. PICK r \in HwRestoreAuto(World, state.perf_mode) : Become(MarkUnapplied(r.w))
  BY DEF Stop
<1>2. World \in Worlds /\ state.perf_mode \in PerfMode
  BY WorldLemma DEF IInv, CoreType, AppliedState
<1>3. Good(MarkUnapplied(r.w))
  BY <1>1, <1>2, HwRestoreAutoLemma, MarkUnappliedLemma
<1>4. CoreType' /\ Belief'
  BY <1>1, <1>3, BecomeLemma DEF Good
<1>5. ProcessType'
  BY DEF Stop, IInv, ProcessType
<1> QED
  BY <1>4, <1>5 DEF IInv, Alive, Stop

LEMMA ExitLemma ==
    ASSUME IInv, Exit
    PROVE  IInv'
BY LeaveLemma DEF Exit, IInv, CoreType

\* A process that is not running believes nothing, so what ExecStopPost does
\* to the fans cannot prove it wrong.
LEMMA StopPostLemma ==
    ASSUME IInv, StopPost
    PROVE  IInv'
<1>1. PICK opened \in Opens :
          \E r \in RestoreOutcomes([hw EXCEPT !.live = opened], disk.perf_mode) :
              hw' = Closed(r.h)
  BY DEF StopPost, Results
<1>2. [hw EXCEPT !.live = opened] \in HwType /\ disk.perf_mode \in PerfMode
  BY <1>1 DEF IInv, CoreType, HwType, AppliedState, Opens
<1>3. hw' \in HwType
  BY <1>1, <1>2, RestoreOutcomesType, DisturbedType DEF HwOutcome
<1>4. CoreType'
  BY <1>3 DEF StopPost, coreVars, IInv, CoreType
<1>5. ProcessType'
  BY DEF StopPost, coreVars, IInv, ProcessType
<1>6. ~applied'
  BY DEF StopPost, coreVars, IInv, Alive
<1> QED
  BY <1>4, <1>5, <1>6 DEF IInv, Belief

\* A sleep disturbs the registers and suspends the belief until the next tick.
LEMMA SuspendLemma ==
    ASSUME IInv, Suspend
    PROVE  IInv'
<1>1. hw' \in HwType
  BY DisturbedType DEF Suspend, IInv, CoreType
<1>2. CoreType'
  BY <1>1 DEF Suspend, coreVars, IInv, CoreType
<1>3. ProcessType'
  BY DEF Suspend, coreVars, IInv, ProcessType
<1> QED
  BY <1>2, <1>3 DEF Suspend, Alive, IInv

LEMMA CountDownType ==
    ASSUME NEW deadline \in Deadline \cup {None}
    PROVE  /\ CountDown(deadline) \in Deadline \cup {None}
           /\ deadline \in Deadline => CountDown(deadline) \in Deadline
BY NoneAssumption, InputsAssumption DEF CountDown, Deadline

LEMMA ElapseLemma ==
    ASSUME IInv, Elapse
    PROVE  IInv'
<1>1. /\ power_retry' \in Deadline \cup {None} /\ hw_retry' \in Deadline \cup {None}
      /\ conn_retry' \in Deadline
  BY CountDownType DEF Elapse, IInv, CoreType, ProcessType
<1>2. CoreType'
  BY <1>1 DEF Elapse, IInv, CoreType
<1>3. ProcessType'
  BY <1>1 DEF Elapse, IInv, ProcessType
<1>4. Belief => Belief'
  BY DEF Elapse, Belief, HwIs
<1> QED
  BY <1>2, <1>3, <1>4 DEF Elapse, Alive, IInv

\* Steps that leave the core alone.
LEMMA CoreUnchanged ==
    ASSUME IInv, UNCHANGED <<hw, disk, suspended, status, coreVars>>, ProcessType'
    PROVE  IInv'
<1>1. CoreType'
  BY DEF coreVars, IInv, CoreType
<1>2. Belief => Belief'
  BY DEF coreVars, Belief, HwIs
<1> QED
  BY <1>1, <1>2 DEF coreVars, Alive, IInv

THEOREM NextIInv == IInv /\ [Next]_vars => IInv'
<1> SUFFICES ASSUME IInv, [Next]_vars PROVE IInv'
  OBVIOUS
<1>1. CASE Start
  BY <1>1, StartLemma
<1>2. CASE Tick
  BY <1>2, TickLemma DEF Tick
<1>3. CASE Suspend
  BY <1>3, SuspendLemma
<1>4. CASE Elapse
  BY <1>4, ElapseLemma
<1>5. CASE Crash
  BY <1>5, CrashLemma
<1>6. CASE Stop
  BY <1>6, StopLemma
<1>7. CASE StopPost
  BY <1>7, StopPostLemma
<1>8. CASE Stabilise
  <2>1. ProcessType'
    BY <1>8 DEF Stabilise, coreVars, IInv, ProcessType
  <2> QED
    BY <1>8, <2>1, CoreUnchanged DEF Stabilise
<1>9. ASSUME NEW cmd \in Commands, Handle(cmd) PROVE IInv'
  BY <1>9, HandleLemma
<1>10. CASE Exit
  BY <1>10, ExitLemma
<1>11. CASE Abandon
  BY <1>11, AbandonLemma
<1>12. CASE UNCHANGED vars
  <2>1. ProcessType'
    BY <1>12 DEF vars, coreVars, IInv, ProcessType
  <2> QED
    BY <1>12, <2>1, CoreUnchanged DEF vars
<1> QED
  BY <1>1, <1>2, <1>3, <1>4, <1>5, <1>6, <1>7, <1>8, <1>9, <1>10, <1>11, <1>12 DEF Next

-----------------------------------------------------------------------------
(* The theorems. *)

\* In every reachable state every variable holds a value of its kind: whatever
\* a state file, a client, automation or a failure brings, the daemon's
\* preferences are complete and the fan target is a speed.
THEOREM TypeCorrect == Spec => []TypeOK
<1>1. Init => IInv
  BY InitIInv
<1>2. IInv /\ [Next]_vars => IInv'
  BY NextIInv
<1>3. IInv => TypeOK
  BY IInvImplies
<1> QED
  BY <1>1, <1>2, <1>3, PTL DEF Spec

\* hardware_state_applied is never wrong (core.rs): for every laptop, whatever
\* fails and in whatever order, while it is set and no sleep has intervened
\* the EC holds the published preferences and both fans run at the speed the
\* policy believes in.
THEOREM BeliefIsTrue == Spec => []HardwareMatches
<1>1. Init => IInv
  BY InitIInv
<1>2. IInv /\ [Next]_vars => IInv'
  BY NextIInv
<1>3. IInv => HardwareMatches
  BY IInvImplies
<1> QED
  BY <1>1, <1>2, <1>3, PTL DEF Spec

-----------------------------------------------------------------------------
(* The policy and the preferences: a lemma per method of Core says also what *)
(* the worlds it leaves keep of the world it started in.                     *)

\* The preferences, in memory and in the file, are those of w.
SamePreferences(w, v) == v.state = w.state /\ v.disk = w.disk

\* The last readings are those of w, and a handle that was lost stays lost.
SameReadings(w, v) ==
    /\ v.cpu = w.cpu /\ v.gpu = w.gpu /\ v.missed = w.missed
    /\ ~w.hw.live => ~v.hw.live

\* What automation remembers is as in w.
SamePower(w, v) == v.on_ac = w.on_ac /\ v.power_retry = w.power_retry

Same(w, v) == SamePreferences(w, v) /\ SameReadings(w, v) /\ SamePower(w, v)

\* Readings at which the guard does not engage.
Evidence(w) ==
    /\ w.cpu # None /\ w.missed < CpuSensorMissLimit
    /\ w.cpu < CpuOverrideOn
    /\ w.gpu = None \/ w.gpu < GpuOverrideOn

\* Readings at which the guard lets go.
Cool(w) ==
    /\ w.cpu # None /\ w.cpu < CpuOverrideOff
    /\ w.gpu = None \/ w.gpu < GpuOverrideOff

\* A target below the maximum has its evidence; none is kept out of force.
Justified(w) ==
    /\ ~w.applied => w.target = None
    /\ w.target # None /\ w.target < MaxRpm => Evidence(w)

\* Software control is in force and not guarded.
Free(w) == w.applied /\ w.state.fan # AutoFan /\ w.override = None

InFirmwareHands(w) ==
    \A z \in Zones : w.hw.zone[z] = ZoneSetting(w.state.perf_mode, Firmware)

\* What the note of r says of a failure is so.
\* The core knows whether the preferences are in force: if not, it will retry.
Aware(w) == w.applied \/ w.hw_retry # None

TrueNote(r) ==
    /\ r.note = "auto" => ~r.w.applied /\ InFirmwareHands(r.w)
    /\ r.note = "restored" => r.w.applied
    /\ r.note \in {"saved", "unsaved_restored"} => Aware(r.w)

-----------------------------------------------------------------------------
(* Backend calls: none succeeds without a handle, none changes what the     *)
(* core knows.                                                              *)

LEMMA LiftKeeps ==
    ASSUME NEW w \in Worlds, NEW S \in SUBSET HwOutcome, NEW q \in Lift(w, S),
           ~w.hw.live => \A r \in S : ~r.ok /\ ~r.h.live
    PROVE  /\ Same(w, q.w) /\ q.w.applied = w.applied /\ q.w.target = w.target
           /\ q.w.override = w.override /\ (~w.hw.live => ~q.ok)
           /\ \E r \in S : q.ok = r.ok /\ q.w.hw = r.h
<1>1. PICK r \in S : q.w = [w EXCEPT !.hw = r.h] /\ q.ok = r.ok
  BY LiftType
<1> QED
  BY <1>1 DEF Worlds, Same, SamePreferences, SameReadings, SamePower

LEMMA DeadCallsFail ==
    ASSUME NEW h \in HwType, ~h.live, NEW st, NEW rpm, NEW mode
    PROVE  /\ ApplyOutcomes(h, st) = {FailWith(h)}
           /\ TargetOutcomes(h, rpm) = {FailWith(h)}
           /\ RestoreOutcomes(h, mode) = {FailWith(h)}
BY Zenon DEF ApplyOutcomes, TargetOutcomes, RestoreOutcomes

LEMMA FailWithIs ==
    ASSUME NEW h
    PROVE  ~FailWith(h).ok /\ FailWith(h).h = h
BY DEF FailWith

LEMMA HwApplyKeeps ==
    ASSUME NEW w \in Worlds, NEW st \in AppliedState, NEW q \in HwApply(w, st)
    PROVE  Same(w, q.w) /\ q.w.applied = w.applied /\ (~w.hw.live => ~q.ok)
<1>1. w.hw \in HwType
  BY DEF Worlds
<1>2. ApplyOutcomes(w.hw, st) \in SUBSET HwOutcome
  BY <1>1, ApplyOutcomesType
<1>3. ~w.hw.live => \A r \in ApplyOutcomes(w.hw, st) : ~r.ok /\ ~r.h.live
  BY <1>1, DeadCallsFail, FailWithIs
<1> QED
  BY <1>2, <1>3, LiftKeeps DEF HwApply

LEMMA HwSetTargetKeeps ==
    ASSUME NEW w \in Worlds, NEW rpm \in Nat, NEW q \in HwSetTarget(w, rpm)
    PROVE  Same(w, q.w) /\ q.w.applied = w.applied /\ q.w.override = w.override
<1>1. w.hw \in HwType
  BY DEF Worlds
<1>2. TargetOutcomes(w.hw, rpm) \in SUBSET HwOutcome
  BY <1>1, TargetOutcomesType
<1>3. ~w.hw.live => \A r \in TargetOutcomes(w.hw, rpm) : ~r.ok /\ ~r.h.live
  BY <1>1, DeadCallsFail, FailWithIs
<1> QED
  BY <1>2, <1>3, LiftKeeps DEF HwSetTarget

\* An acknowledged restore leaves both fans to the firmware.
LEMMA RestoredToFirmware ==
    ASSUME NEW h \in HwType, NEW mode \in PerfMode, NEW r \in RestoreOutcomes(h, mode), r.ok
    PROVE  \A z \in Zones : r.h.zone[z] = ZoneSetting(mode, Firmware)
<1>1. h.live /\ r = OkWith(InFirmware(h, mode, Zones))
  <2>1. h.live
    BY DeadCallsFail, FailWithIs
  <2> QED
    BY <2>1 DEF RestoreOutcomes, FailWith
<1>2. r.h = InFirmware(h, mode, Zones)
  BY <1>1 DEF OkWith
<1> QED
  BY <1>2 DEF InFirmware, HwType

LEMMA HwRestoreAutoKeeps ==
    ASSUME NEW w \in Worlds, NEW mode \in PerfMode, NEW q \in HwRestoreAuto(w, mode)
    PROVE  /\ Same(w, q.w)
           /\ q.ok => \A z \in Zones : q.w.hw.zone[z] = ZoneSetting(mode, Firmware)
<1>1. w.hw \in HwType
  BY DEF Worlds
<1>2. RestoreOutcomes(w.hw, mode) \in SUBSET HwOutcome
  BY <1>1, RestoreOutcomesType
<1>3. ~w.hw.live => \A r \in RestoreOutcomes(w.hw, mode) : ~r.ok /\ ~r.h.live
  BY <1>1, DeadCallsFail, FailWithIs
<1>4. /\ Same(w, q.w)
      /\ \E r \in RestoreOutcomes(w.hw, mode) : q.ok = r.ok /\ q.w.hw = r.h
  BY <1>2, <1>3, LiftKeeps DEF HwRestoreAuto
<1> QED
  BY <1>1, <1>4, RestoredToFirmware

-----------------------------------------------------------------------------
(* Bookkeeping. *)

LEMMA SameIsTransitive ==
    ASSUME NEW u, NEW v, NEW w, Same(u, v), Same(v, w)
    PROVE  Same(u, w)
BY DEF Same, SamePreferences, SameReadings, SamePower

LEMMA MarkUnappliedKeeps ==
    ASSUME NEW w \in Worlds
    PROVE  /\ Same(w, MarkUnapplied(w)) /\ MarkUnapplied(w).hw = w.hw
           /\ Justified(MarkUnapplied(w)) /\ ~Free(MarkUnapplied(w))
           /\ ~MarkUnapplied(w).applied /\ Aware(MarkUnapplied(w))
BY InputsAssumption, NoneAssumption
   DEF MarkUnapplied, Worlds, Same, Aware, SamePreferences, SameReadings, SamePower, Justified, Free

LEMMA MarkAppliedKeeps ==
    ASSUME NEW w \in Worlds
    PROVE  Same(w, MarkApplied(w))
BY DEF MarkApplied, Worlds, Same, SamePreferences, SameReadings, SamePower

\* The policy starts at the maximum, guarded.
LEMMA ResetTargetKeeps ==
    ASSUME NEW w \in Worlds, JustApplied(w, w.state)
    PROVE  /\ Same(w, ResetTarget(w)) /\ ResetTarget(w).applied
           /\ Justified(ResetTarget(w)) /\ ~Free(ResetTarget(w))
<1>1. w.hw.live /\ w.applied
  BY DEF JustApplied, HwIs
<1>2. CASE w.state.fan = AutoFan
  <2>1. ResetTarget(w) = [w EXCEPT !.target = None, !.override = None]
    BY <1>2 DEF ResetTarget
  <2> QED
    BY <1>1, <1>2, <2>1 DEF Worlds, Same, SamePreferences, SameReadings, SamePower, Justified, Free
<1>3. CASE w.state.fan # AutoFan
  <2>1. ResetTarget(w) = [w EXCEPT !.target = MaxRpm, !.override = "sensor_unavailable"]
    BY <1>1, <1>3 DEF ResetTarget, FanMax
  <2>2. MaxRpm \in Nat /\ None # "sensor_unavailable"
    BY FanLimitsAssumption, ReasonsAssumption DEF OverrideReasons
  <2> QED
    BY <1>1, <2>1, <2>2 DEF Worlds, Same, SamePreferences, SameReadings, SamePower, Justified, Free
<1> QED
  BY <1>2, <1>3

-----------------------------------------------------------------------------
(* apply_hardware_state changes no preference; a failure is reported as it  *)
(* is and releases nothing.                                                 *)

LEMMA FallBackKeeps ==
    ASSUME NEW w \in Worlds, NEW r \in FallBack(w)
    PROVE  /\ Same(w, r.w) /\ Justified(r.w) /\ ~Free(r.w) /\ ~r.w.applied
           /\ r.note # "saved" /\ TrueNote(r) /\ Aware(r.w)
<1>1. w.state.perf_mode \in PerfMode
  BY DEF Worlds, AppliedState
<1>2. PICK q \in HwRestoreAuto(w, w.state.perf_mode) :
          r = [ok |-> FALSE, note |-> IF q.ok THEN "auto" ELSE "unconfirmed",
               w |-> MarkUnapplied(q.w)]
  BY DEF FallBack
<1>3. /\ q.w \in Worlds /\ Same(w, q.w)
      /\ q.ok => \A z \in Zones : q.w.hw.zone[z] = ZoneSetting(w.state.perf_mode, Firmware)
  BY <1>1, HwRestoreAutoLemma, HwRestoreAutoKeeps
<1> DEFINE u == MarkUnapplied(q.w)
<1>4. /\ Same(q.w, u) /\ u.hw = q.w.hw /\ Justified(u) /\ ~Free(u) /\ ~u.applied /\ Aware(u)
  BY <1>3, MarkUnappliedKeeps
<1> HIDE DEF u
<1>5. r.w = u /\ r.note = IF q.ok THEN "auto" ELSE "unconfirmed"
  BY <1>2 DEF u
<1>6. Same(w, u)
  BY <1>3, <1>4, SameIsTransitive
<1>7. q.ok => InFirmwareHands(u)
  BY <1>3, <1>4, <1>6 DEF InFirmwareHands, Same, SamePreferences
<1> QED
  BY <1>4, <1>5, <1>6, <1>7 DEF TrueNote

LEMMA RollBackKeeps ==
    ASSUME NEW w \in Worlds, NEW r \in RollBack(w)
    PROVE  /\ Same(w, r.w) /\ Justified(r.w) /\ ~Free(r.w)
           /\ r.note # "saved" /\ TrueNote(r) /\ Aware(r.w)
<1>1. w.state \in AppliedState
  BY DEF Worlds
<1>2. PICK q \in HwApply(w, w.state) :
          r \in IF q.ok
                THEN {[ok |-> FALSE, note |-> "restored", w |-> ResetTarget(MarkApplied(q.w))]}
                ELSE FallBack(q.w)
  BY DEF RollBack
<1>3. /\ q.w \in Worlds /\ q.w.state = w.state /\ Same(w, q.w)
      /\ q.ok => HwIs(q.w.hw, w.state, StartFan(w.state))
  BY <1>1, HwApplyLemma, HwApplyKeeps
<1>4. CASE q.ok
  <2> DEFINE v == MarkApplied(q.w)
  <2>1. v \in Worlds /\ JustApplied(v, v.state) /\ Same(q.w, v)
    BY <1>3, <1>4, MarkAppliedLemma, MarkAppliedKeeps DEF JustApplied
  <2> HIDE DEF v
  <2> DEFINE u == ResetTarget(v)
  <2>2. Same(v, u) /\ u.applied /\ Justified(u) /\ ~Free(u)
    BY <2>1, ResetTargetKeeps
  <2> HIDE DEF u
  <2>3. r = [ok |-> FALSE, note |-> "restored", w |-> u]
    BY <1>2, <1>4 DEF u, v
  <2>4. Same(w, u)
    BY <1>3, <2>1, <2>2, SameIsTransitive
  <2> QED
    BY <2>2, <2>3, <2>4 DEF TrueNote, Aware
<1>5. CASE ~q.ok
  <2>1. r \in FallBack(q.w)
    BY <1>2, <1>5
  <2> QED
    BY <1>3, <2>1, FallBackKeeps, SameIsTransitive
<1> QED
  BY <1>4, <1>5

LEMMA ApplyHardwareStateKeeps ==
    ASSUME NEW w \in Worlds, NEW desired \in AppliedState,
           NEW r \in ApplyHardwareState(w, desired)
    PROVE  /\ Same(w, r.w) /\ Aware(r.w)
           /\ ~r.ok => Justified(r.w) /\ ~Free(r.w) /\ r.note # "saved" /\ TrueNote(r)
<1>1. PICK q \in HwApply(w, desired) :
          \/ q.ok /\ r = [ok |-> TRUE, note |-> "applied", w |-> MarkApplied(q.w)]
          \/ ~q.ok /\ r \in RollBack(q.w)
          \/ ~q.ok /\ r \in FallBack(q.w)
  BY DEF ApplyHardwareState
<1>2. q.w \in Worlds /\ Same(w, q.w)
  BY HwApplyLemma, HwApplyKeeps
<1>3. CASE q.ok /\ r = [ok |-> TRUE, note |-> "applied", w |-> MarkApplied(q.w)]
  <2>1. r.ok /\ r.w = MarkApplied(q.w)
    BY <1>3
  <2> QED
    BY <1>2, <2>1, MarkAppliedLemma, MarkAppliedKeeps, SameIsTransitive DEF Aware
<1>4. CASE ~q.ok /\ r \in RollBack(q.w)
  BY <1>2, <1>4, RollBackKeeps, SameIsTransitive
<1>5. CASE ~q.ok /\ r \in FallBack(q.w)
  BY <1>2, <1>5, FallBackKeeps, SameIsTransitive
<1> QED
  BY <1>1, <1>3, <1>4, <1>5

-----------------------------------------------------------------------------
(* The fan policy slows a fan only on evidence and lets go only when cool.  *)

LEMMA NoReasonMeansEvidence ==
    ASSUME NEW w \in Worlds, GuardReason(w) = None
    PROVE  Evidence(w) /\ (w.override # None => Cool(w))
<1>1. SensorOk(w) /\ ~ThermalOverrideNext(w.override # None, w.cpu, w.gpu)
  BY ReasonsAssumption DEF GuardReason, OverrideReasons
<1>2. w.cpu \in Nat /\ w.missed < CpuSensorMissLimit /\ w.gpu \in Nat \cup {None}
  BY <1>1 DEF SensorOk, Worlds
<1>3. /\ ~ThermalOverrideNext(FALSE, w.cpu, w.gpu)
      /\ w.override # None => ~ThermalOverrideNext(TRUE, w.cpu, w.gpu)
  <2>1. CASE w.override # None
    <3>1. ~ThermalOverrideNext(TRUE, w.cpu, w.gpu)
      BY <1>1, <2>1, Zenon
    <3> QED
      BY <1>2, <3>1, EngagingBoundsHold
  <2>2. CASE w.override = None
    BY <1>1, <2>2, Zenon
  <2> QED
    BY <2>1, <2>2
<1>4. Evidence(w)
  BY <1>2, <1>3, NoneAssumption
     DEF Evidence, ThermalOverrideNext, AtLeast, CpuOverrideOn, GpuOverrideOn
<1>5. w.override # None => Cool(w)
  BY <1>2, <1>3, NoneAssumption
     DEF Cool, ThermalOverrideNext, AtLeast, CpuOverrideOff, GpuOverrideOff
<1> QED
  BY <1>4, <1>5

LEMMA PolicyTargetIsJustified ==
    ASSUME NEW w \in Worlds, w.hw.live, PolicyTarget(w) < MaxRpm
    PROVE  Evidence(w)
<1>1. FanMax(w) = MaxRpm /\ MaxRpm \in Nat
  BY FanLimitsAssumption DEF FanMax
<1>2. GuardReason(w) = None
  BY <1>1 DEF PolicyTarget
<1> QED
  BY <1>2, NoReasonMeansEvidence

LEMMA RecoverTargetKeeps ==
    ASSUME NEW w \in Worlds, NEW v \in RecoverTarget(w)
    PROVE  Same(w, v) /\ Justified(v) /\ ~Free(v) /\ Aware(v)
<1>1. PICK r \in ApplyHardwareState(w, w.state) : v = IF r.ok THEN ResetTarget(r.w) ELSE r.w
  BY DEF RecoverTarget
<1>2. w.state \in AppliedState
  BY DEF Worlds
<1>3. /\ r.w \in Worlds /\ r.w.state = w.state /\ Same(w, r.w) /\ Aware(r.w)
      /\ r.ok => JustApplied(r.w, w.state)
      /\ ~r.ok => Justified(r.w) /\ ~Free(r.w)
  BY <1>1, <1>2, ApplyHardwareStateLemma, ApplyHardwareStateKeeps
<1>4. CASE r.ok
  BY <1>1, <1>3, <1>4, ResetTargetKeeps, SameIsTransitive DEF Aware
<1>5. CASE ~r.ok
  BY <1>1, <1>3, <1>5
<1> QED
  BY <1>4, <1>5

LEMMA SendTargetKeeps ==
    ASSUME NEW w \in Worlds, w.applied, NEW rpm \in Nat, rpm < MaxRpm => Evidence(w),
           NEW v \in SendTarget(w, rpm)
    PROVE  Same(w, v) /\ Justified(v) /\ (Free(v) => w.override = None) /\ Aware(v)
<1>1. PICK q \in HwSetTarget(w, rpm) :
          v \in IF q.ok THEN {[q.w EXCEPT !.target = rpm]} ELSE RecoverTarget(q.w)
  BY DEF SendTarget
<1>2. q.w \in Worlds /\ Same(w, q.w) /\ q.w.applied /\ q.w.override = w.override
  BY HwSetTargetLemma, HwSetTargetKeeps
<1>3. CASE q.ok
  <2>1. v = [q.w EXCEPT !.target = rpm]
    BY <1>1, <1>3
  <2> QED
    BY <1>2, <2>1
       DEF Worlds, Same, SamePreferences, SameReadings, SamePower, Justified, Evidence, Free,
           Aware
<1>4. CASE ~q.ok
  <2>1. v \in RecoverTarget(q.w)
    BY <1>1, <1>4
  <2> QED
    BY <1>2, <2>1, RecoverTargetKeeps, SameIsTransitive
<1> QED
  BY <1>3, <1>4

LEMMA UpdateFanPolicyKeeps ==
    ASSUME NEW w, Good(w), NEW v \in UpdateFanPolicy(w)
    PROVE  /\ Same(w, v) /\ Justified(v) /\ (Free(v) => Free(w) \/ Cool(v))
           /\ Aware(w) => Aware(v)
<1> DEFINE u == [w EXCEPT !.override = GuardReason(w)]
<1>1. \/ /\ ~w.applied \/ w.state.fan = AutoFan
         /\ v = [w EXCEPT !.target = None, !.override = None]
      \/ /\ w.applied /\ w.state.fan # AutoFan
         /\ w.target = PolicyTarget(w) /\ v = u
      \/ /\ w.applied /\ w.state.fan # AutoFan
         /\ v \in SendTarget(u, PolicyTarget(w))
  BY Zenon DEF UpdateFanPolicy
<1>2. w \in Worlds /\ (w.applied => w.hw.live)
  BY DEF Good, Consistent, HwIs
<1>3. /\ u \in Worlds /\ u.applied = w.applied /\ u.target = w.target
      /\ u.override = GuardReason(w) /\ Same(w, u)
      /\ Evidence(w) => Evidence(u)
      /\ Aware(w) => Aware(u)
  BY <1>2, GuardReasonType
     DEF Worlds, Same, SamePreferences, SameReadings, SamePower, Evidence, Aware
<1>4. w.applied /\ PolicyTarget(w) < MaxRpm => Evidence(u)
  BY <1>2, <1>3, PolicyTargetIsJustified
<1>5. u.override = None /\ w.override # None => Cool(w)
  BY <1>2, <1>3, NoReasonMeansEvidence
<1> HIDE DEF u
<1>6. CASE /\ ~w.applied \/ w.state.fan = AutoFan
           /\ v = [w EXCEPT !.target = None, !.override = None]
  BY <1>2, <1>6
     DEF Worlds, Same, SamePreferences, SameReadings, SamePower, Justified, Free, Aware
<1>7. CASE /\ w.applied /\ w.state.fan # AutoFan
           /\ w.target = PolicyTarget(w) /\ v = u
  BY <1>3, <1>4, <1>5, <1>7 DEF Justified, Free, Cool, Same, SameReadings
<1>8. CASE /\ w.applied /\ w.state.fan # AutoFan
           /\ v \in SendTarget(u, PolicyTarget(w))
  <2>1. PolicyTarget(w) \in Nat
    BY <1>2, <1>8, PolicyTargetType
  <2>2. Same(u, v) /\ Justified(v) /\ (Free(v) => u.override = None) /\ Aware(v)
    BY <1>3, <1>4, <1>8, <2>1, SendTargetKeeps
  <2>3. Same(w, v)
    BY <1>3, <2>2, SameIsTransitive
  <2>4. Cool(w) => Cool(v)
    BY <2>3 DEF Cool, Same, SameReadings
  <2> QED
    BY <1>5, <1>8, <2>2, <2>3, <2>4 DEF Free
<1> QED
  BY <1>1, <1>6, <1>7, <1>8

LEMMA SettleKeeps ==
    ASSUME NEW w \in Worlds, JustApplied(w, w.state), NEW v \in Settle(w)
    PROVE  Same(w, v) /\ Justified(v) /\ (Free(v) => Cool(v)) /\ Aware(v)
<1> DEFINE u == ResetTarget(w)
<1>1. Good(u) /\ Same(w, u) /\ ~Free(u) /\ Aware(u)
  BY ResetTargetLemma, ResetTargetKeeps DEF Aware
<1> HIDE DEF u
<1>2. v \in UpdateFanPolicy(u)
  BY DEF Settle, u
<1> QED
  BY <1>1, <1>2, UpdateFanPolicyKeeps, SameIsTransitive

-----------------------------------------------------------------------------
(* Commits: all or nothing. *)

LEMMA UndoUnsavedKeeps ==
    ASSUME NEW w \in Worlds, NEW r \in UndoUnsaved(w)
    PROVE  /\ Same(w, r.w) /\ Justified(r.w) /\ (Free(r.w) => Cool(r.w))
           /\ ~r.ok /\ r.note # "saved" /\ TrueNote(r)
<1>1. PICK q \in ApplyHardwareState(w, w.state) :
          \/ q.ok /\ \E v \in Settle(q.w) : r = [ok |-> FALSE, note |-> "unsaved_restored", w |-> v]
          \/ ~q.ok /\ r = [ok |-> FALSE, note |-> q.note, w |-> q.w]
  BY DEF UndoUnsaved
<1>2. w.state \in AppliedState
  BY DEF Worlds
<1>3. /\ q.w \in Worlds /\ q.w.state = w.state /\ Same(w, q.w)
      /\ q.ok => JustApplied(q.w, w.state)
      /\ ~q.ok => Justified(q.w) /\ ~Free(q.w) /\ q.note # "saved" /\ TrueNote(q)
  BY <1>2, ApplyHardwareStateLemma, ApplyHardwareStateKeeps
<1>4. CASE q.ok /\ \E v \in Settle(q.w) : r = [ok |-> FALSE, note |-> "unsaved_restored", w |-> v]
  <2>1. PICK v \in Settle(q.w) : r = [ok |-> FALSE, note |-> "unsaved_restored", w |-> v]
    BY <1>4
  <2>2. Same(w, v) /\ Justified(v) /\ (Free(v) => Cool(v)) /\ Aware(v)
    BY <1>3, <1>4, SettleKeeps, SameIsTransitive
  <2> QED
    BY <2>1, <2>2 DEF TrueNote
<1>5. CASE ~q.ok /\ r = [ok |-> FALSE, note |-> q.note, w |-> q.w]
  <2>1. ~r.ok /\ r.note = q.note /\ r.w = q.w
    BY <1>5
  <2> QED
    BY <1>3, <1>5, <2>1 DEF TrueNote
<1> QED
  BY <1>1, <1>4, <1>5

LEMMA CommitStateKeeps ==
    ASSUME NEW w \in Worlds, NEW next \in AppliedState, NEW r \in CommitState(w, next)
    PROVE  /\ SameReadings(w, r.w) /\ Justified(r.w) /\ (Free(r.w) => Cool(r.w))
           /\ SamePower(w, r.w)
           /\ \/ r.ok /\ r.note = "saved" /\ r.w.state = next /\ r.w.disk = next
              \/ ~r.ok /\ r.note # "saved" /\ SamePreferences(w, r.w)
           /\ TrueNote(r)
<1>1. PICK q \in ApplyHardwareState(w, next) :
          \/ ~q.ok /\ r = q
          \/ q.ok /\ \E v \in Settle([q.w EXCEPT !.disk = next, !.state = next]) :
                        r = [ok |-> TRUE, note |-> "saved", w |-> v]
          \/ q.ok /\ r \in UndoUnsaved(q.w)
  <2>1. PICK q \in ApplyHardwareState(w, next) :
            r \in IF ~q.ok THEN {q}
                  ELSE UNION {IF saved
                              THEN {[ok |-> TRUE, note |-> "saved", w |-> v] :
                                       v \in Settle([q.w EXCEPT !.disk = next, !.state = next])}
                              ELSE UndoUnsaved(q.w) : saved \in Saves}
    BY Zenon DEF CommitState
  <2>2. CASE ~q.ok
    BY <2>1, <2>2
  <2>3. CASE q.ok
    <3>1. PICK saved \in Saves :
              r \in IF saved
                    THEN {[ok |-> TRUE, note |-> "saved", w |-> v] :
                             v \in Settle([q.w EXCEPT !.disk = next, !.state = next])}
                    ELSE UndoUnsaved(q.w)
      BY <2>1, <2>3, Zenon
    <3>2. \/ r \in {[ok |-> TRUE, note |-> "saved", w |-> v] :
                       v \in Settle([q.w EXCEPT !.disk = next, !.state = next])}
          \/ r \in UndoUnsaved(q.w)
      BY <3>1, Zenon
    <3> QED
      BY <2>1, <2>3, <3>2, Zenon
  <2> QED
    BY <2>2, <2>3
<1>2. /\ q.w \in Worlds /\ Same(w, q.w)
      /\ q.ok => JustApplied(q.w, next)
      /\ ~q.ok => Justified(q.w) /\ ~Free(q.w) /\ q.note # "saved" /\ TrueNote(q)
  BY ApplyHardwareStateLemma, ApplyHardwareStateKeeps
<1>3. CASE ~q.ok /\ r = q
  BY <1>2, <1>3 DEF Same
<1>4. CASE q.ok /\ \E v \in Settle([q.w EXCEPT !.disk = next, !.state = next]) :
                       r = [ok |-> TRUE, note |-> "saved", w |-> v]
  <2> DEFINE x == q.w
             u == [x EXCEPT !.disk = next, !.state = next]
  <2>1. PICK v \in Settle(u) : r = [ok |-> TRUE, note |-> "saved", w |-> v]
    BY <1>4
  <2>2. x \in Worlds /\ x.applied /\ HwIs(x.hw, next, StartFan(next)) /\ Same(w, x)
    BY <1>2, <1>4 DEF JustApplied
  <2> HIDE DEF x
  <2>3. /\ u \in Worlds /\ u.state = next /\ u.disk = next /\ SameReadings(w, u)
        /\ u.applied /\ u.hw = x.hw /\ SamePower(w, u)
    <3>1. u \in Worlds
      BY <2>2, ZenonT(60) DEF Worlds
    <3>2. /\ u.state = next /\ u.disk = next /\ u.applied = x.applied /\ u.hw = x.hw
          /\ u.cpu = x.cpu /\ u.gpu = x.gpu /\ u.missed = x.missed
          /\ u.on_ac = x.on_ac /\ u.power_retry = x.power_retry
      BY <2>2 DEF Worlds
    <3> HIDE DEF u
    <3> QED
      BY <2>2, <3>1, <3>2 DEF Same, SameReadings, SamePower
  <2> HIDE DEF u
  <2>4. JustApplied(u, u.state)
    BY <2>2, <2>3 DEF JustApplied
  <2>5. Same(u, v) /\ Justified(v) /\ (Free(v) => Cool(v)) /\ Aware(v)
    BY <2>1, <2>3, <2>4, SettleKeeps
  <2>6. SameReadings(w, v) /\ SamePower(w, v) /\ v.state = next /\ v.disk = next
    BY <2>3, <2>5 DEF Same, SamePreferences, SameReadings, SamePower
  <2> QED
    BY <2>1, <2>5, <2>6 DEF TrueNote
<1>5. CASE q.ok /\ r \in UndoUnsaved(q.w)
  <2>1. /\ Same(q.w, r.w) /\ Justified(r.w) /\ (Free(r.w) => Cool(r.w))
        /\ ~r.ok /\ r.note # "saved" /\ TrueNote(r)
    BY <1>2, <1>5, UndoUnsavedKeeps
  <2>2. Same(w, r.w)
    BY <1>2, <2>1, SameIsTransitive
  <2> QED
    BY <2>1, <2>2 DEF Same
<1> QED
  BY <1>1, <1>3, <1>4, <1>5

-----------------------------------------------------------------------------
(* A tick. *)

\* A world without a CPU reading is guarded.
LEMMA BlindIsGuarded ==
    ASSUME NEW w \in Worlds, w.cpu = None
    PROVE  ~Cool(w) /\ ~Evidence(w)
BY DEF Cool, Evidence

LEMMA ReapplyKeeps ==
    ASSUME NEW w \in Worlds, NEW v \in Reapply(w)
    PROVE  /\ v.cpu = None /\ Justified(v) /\ ~Free(v)
           /\ SamePreferences(w, v) /\ SamePower(w, v) /\ (~w.hw.live => ~v.hw.live)
<1> DEFINE u == ForgetReadings(w)
<1>1. /\ u \in Worlds /\ u.state = w.state /\ u.disk = w.disk /\ u.hw = w.hw
      /\ u.on_ac = w.on_ac /\ u.power_retry = w.power_retry
      /\ u.cpu = None /\ w.state \in AppliedState
  <2>1. CpuSensorMissLimit \in 0 .. CpuSensorMissLimit
    BY DEF CpuSensorMissLimit
  <2> QED
    BY <2>1 DEF ForgetReadings, Worlds
<1>2. PICK r \in ApplyHardwareState(u, w.state) :
          \/ r.ok /\ v \in Settle(r.w)
          \/ ~r.ok /\ v = r.w
          \/ ~r.ok /\ v = [r.w EXCEPT !.hw_retry = RetryTicks]
  BY DEF Reapply
<1> HIDE DEF u
<1>3. /\ r.w \in Worlds /\ r.w.state = w.state /\ Same(u, r.w)
      /\ r.ok => JustApplied(r.w, w.state)
      /\ ~r.ok => Justified(r.w) /\ ~Free(r.w)
  BY <1>1, ApplyHardwareStateLemma, ApplyHardwareStateKeeps
<1>4. /\ r.w.cpu = None /\ SamePreferences(w, r.w) /\ SamePower(w, r.w)
      /\ ~w.hw.live => ~r.w.hw.live
  BY <1>1, <1>3 DEF Same, SamePreferences, SameReadings, SamePower
<1>5. CASE r.ok /\ v \in Settle(r.w)
  <2>1. Same(r.w, v) /\ Justified(v) /\ (Free(v) => Cool(v))
    BY <1>3, <1>5, SettleKeeps
  <2>2. v.cpu = None
    BY <1>4, <2>1 DEF Same, SameReadings
  <2> QED
    BY <1>4, <2>1, <2>2 DEF Cool, Same, SamePreferences, SameReadings, SamePower
<1>6. CASE ~r.ok /\ v = r.w
  BY <1>3, <1>4, <1>6
<1>7. CASE ~r.ok /\ v = [r.w EXCEPT !.hw_retry = RetryTicks]
  <2> DEFINE x == r.w
  <2>1. x \in Worlds /\ Justified(x) /\ ~Free(x)
    BY <1>3, <1>7
  <2>2. v = [x EXCEPT !.hw_retry = RetryTicks]
    BY <1>7
  <2>3. /\ x.cpu = None /\ SamePreferences(w, x) /\ SamePower(w, x)
        /\ ~w.hw.live => ~x.hw.live
    BY <1>4
  <2> HIDE DEF x
  <2> QED
    BY <2>1, <2>2, <2>3 DEF Worlds, Justified, Evidence, Free, SamePreferences, SamePower
<1> QED
  BY <1>2, <1>5, <1>6, <1>7

LEMMA RecoverKeeps ==
    ASSUME NEW w, Good(w), Justified(w), NEW reopened \in BOOLEAN,
           NEW v \in Recover(w, reopened)
    PROVE  /\ Justified(v)
           /\ v = w \/ (v.cpu = None /\ ~Free(v))
           /\ ~reopened /\ ~w.hw.live => v = w
           /\ reopened => v.cpu = None
           /\ ~reopened => SamePreferences(w, v) /\ SamePower(w, v)
<1>1. w \in Worlds /\ [w EXCEPT !.hw.live = TRUE] \in Worlds
  BY ZenonT(60) DEF Good, Worlds, HwType
<1>2. \/ reopened /\ v \in TakeOver([w EXCEPT !.hw.live = TRUE])
      \/ ~reopened /\ w.hw.live /\ v \in Reapply(w)
      \/ ~reopened /\ v = w
  BY Zenon DEF Recover
<1>3. CASE reopened /\ v \in TakeOver([w EXCEPT !.hw.live = TRUE])
  <2> DEFINE x == [w EXCEPT !.hw.live = TRUE]
  <2>1. PICK u \in Sanitize(MarkUnapplied(x)) :
            v \in Reapply([u EXCEPT !.on_ac = None, !.power_retry = None])
    BY <1>3 DEF TakeOver
  <2>2. u \in Worlds
    BY <1>1, <2>1, MarkUnappliedLemma, SanitizeLemma DEF Good
  <2>3. [u EXCEPT !.on_ac = None, !.power_retry = None] \in Worlds
    BY <2>2 DEF Worlds
  <2> QED
    BY <1>3, <2>1, <2>3, ReapplyKeeps
<1>4. CASE ~reopened /\ w.hw.live /\ v \in Reapply(w)
  BY <1>1, <1>4, ReapplyKeeps
<1>5. CASE ~reopened /\ v = w
  BY <1>5 DEF SamePreferences, SamePower
<1> QED
  BY <1>2, <1>3, <1>4, <1>5

LEMMA SenseKeeps ==
    ASSUME NEW w, Good(w), NEW c \in Nat \cup {None}, NEW g \in Nat \cup {None},
           NEW t \in Sense(w, c, g)
    PROVE  /\ Justified(t) /\ (Free(t) => Free(w) \/ Cool(t))
           /\ c = None /\ w.cpu = None => t.cpu = None
           /\ SamePreferences(w, t) /\ SamePower(w, t) /\ (~w.hw.live => ~t.hw.live)
<1>1. PICK h \in SampledHw(w) :
          LET v == [w EXCEPT !.hw = h]
              u == IF ~h.live /\ v.applied THEN MarkUnapplied(v) ELSE v
          IN  t \in UpdateFanPolicy(Read(u, c, g))
  BY DEF Sense
<1> DEFINE v == [w EXCEPT !.hw = h]
           u == IF ~h.live /\ v.applied THEN MarkUnapplied(v) ELSE v
<1>2. w.hw \in HwType /\ w \in Worlds
  BY DEF Good, Worlds
<1>3. h = w.hw \/ (h \in HwType /\ ~h.live)
  BY <1>2, DisturbedType DEF SampledHw, SampleOutcomes
<1>4. /\ v \in Worlds /\ v.hw = h /\ v.cpu = w.cpu /\ v.applied = w.applied
      /\ v.state = w.state /\ v.disk = w.disk /\ v.override = w.override
      /\ v.on_ac = w.on_ac /\ v.power_retry = w.power_retry
  BY <1>2, <1>3 DEF Worlds
<1>5. /\ Good(u) /\ (Free(u) => Free(w)) /\ u.cpu = w.cpu
      /\ u.state = w.state /\ u.disk = w.disk /\ (~w.hw.live => ~u.hw.live)
      /\ u.on_ac = w.on_ac /\ u.power_retry = w.power_retry
  <2>1. CASE ~h.live /\ v.applied
    <3>1. u = MarkUnapplied(v)
      BY <2>1, Zenon
    <3> HIDE DEF u, v
    <3> QED
      BY <1>4, <2>1, <3>1, MarkUnappliedLemma, MarkUnappliedKeeps
         DEF Same, SamePreferences, SameReadings, SamePower
  <2>2. CASE ~(~h.live /\ v.applied)
    <3>1. u = v
      BY <2>2, Zenon
    <3>2. v.applied => v = w
      BY <1>3, <2>2 DEF Good, Worlds
    <3>3. ~w.hw.live => ~h.live
      BY <1>3
    <3> HIDE DEF u, v
    <3> QED
      BY <1>4, <3>1, <3>2, <3>3 DEF Good, Consistent, Free
  <2> QED
    BY <2>1, <2>2
<1> HIDE DEF u, v
<1> DEFINE x == Read(u, c, g)
<1>6. Good(x)
  BY <1>5, ReadLemma
<1>7. /\ x.applied = u.applied /\ x.state = u.state /\ x.disk = u.disk
      /\ x.override = u.override /\ x.on_ac = u.on_ac /\ x.power_retry = u.power_retry
      /\ x.hw = u.hw /\ (c = None => x.cpu = u.cpu)
  BY <1>5 DEF Read, Good, Worlds
<1>8. t \in UpdateFanPolicy(x)
  BY <1>1 DEF u, v
<1> HIDE DEF x
<1>9. Same(x, t) /\ Justified(t) /\ (Free(t) => Free(x) \/ Cool(t))
  BY <1>6, <1>8, UpdateFanPolicyKeeps
<1>10. Free(x) => Free(w)
  BY <1>5, <1>7 DEF Free
<1> QED
  BY <1>5, <1>7, <1>9, <1>10 DEF Same, SamePreferences, SameReadings, SamePower

\* Deadlines and the sampled source are no business of the fan policy.
LEMMA PowerBookkeeping ==
    ASSUME NEW w \in Worlds, NEW v \in Worlds,
           \E source, retry : v = [w EXCEPT !.on_ac = source, !.power_retry = retry]
    PROVE  /\ SamePreferences(w, v) /\ SameReadings(w, v)
           /\ v.applied = w.applied /\ v.target = w.target
           /\ (Justified(w) => Justified(v)) /\ (Free(v) => Free(w)) /\ v.hw = w.hw
<1>1. /\ v.state = w.state /\ v.disk = w.disk /\ v.cpu = w.cpu /\ v.gpu = w.gpu
      /\ v.missed = w.missed /\ v.hw = w.hw /\ v.applied = w.applied
      /\ v.target = w.target /\ v.override = w.override
  BY DEF Worlds
<1> QED
  BY <1>1 DEF Same, SamePreferences, SameReadings, SamePower, Justified, Evidence, Free

LEMMA PowerTickKeeps ==
    ASSUME NEW w, Good(w), Justified(w), NEW source \in BOOLEAN \cup {None},
           NEW t \in PowerTick(w, source)
    PROVE  SameReadings(w, t.w) /\ Justified(t.w) /\ (Free(t.w) => Free(w) \/ Cool(t.w))
<1> DEFINE v == Sampled(w, source)
           next == AutomationState(w.hw.live, w.state, source)
<1>1. w \in Worlds
  BY DEF Good
<1>2. PICK retry \in {None, w.power_retry} :
          v = [w EXCEPT !.on_ac = source, !.power_retry = retry]
  BY DEF Sampled, Good, Worlds
<1>3. \/ t = [changed |-> FALSE, w |-> v]
      \/ t = [changed |-> FALSE, w |-> [v EXCEPT !.power_retry = None]]
      \/ AutomationDue(w, source) /\ t \in CommitAutomation(v, next)
  BY Zenon DEF PowerTick
<1>4. v \in Worlds
  BY <1>1, <1>2 DEF Worlds
<1> HIDE DEF v
<1>5. CASE t = [changed |-> FALSE, w |-> v]
  BY <1>1, <1>2, <1>4, <1>5, PowerBookkeeping
<1>6. CASE t = [changed |-> FALSE, w |-> [v EXCEPT !.power_retry = None]]
  <2>1. t.w = [w EXCEPT !.on_ac = source, !.power_retry = None]
    BY <1>1, <1>2, <1>6 DEF Worlds
  <2>2. t.w \in Worlds
    BY <1>1, <2>1 DEF Worlds
  <2> QED
    <3>1. \E s, r : t.w = [w EXCEPT !.on_ac = s, !.power_retry = r]
      BY <2>1, Zenon
    <3> DEFINE y == t.w
    <3>2. y \in Worlds /\ \E s, r : y = [w EXCEPT !.on_ac = s, !.power_retry = r]
      BY <2>2, <3>1
    <3> HIDE DEF y
    <3>3. SameReadings(w, y) /\ (Justified(w) => Justified(y)) /\ (Free(y) => Free(w))
      BY <1>1, <3>2, PowerBookkeeping
    <3> QED
      BY <3>3 DEF y
<1>7. CASE AutomationDue(w, source) /\ t \in CommitAutomation(v, next)
  <2>1. source \in BOOLEAN
    BY <1>7 DEF AutomationDue
  <2>2. next \in AppliedState
    BY <1>1, <2>1, AutomationStateType DEF Worlds, HwType
  <2> HIDE DEF next
  <2>3. PICK r \in CommitState(v, next) :
            t = [changed |-> r.ok,
                 w |-> [r.w EXCEPT !.power_retry = IF r.ok THEN None ELSE RetryTicks]]
    BY <1>7 DEF CommitAutomation
  <2> DEFINE x == r.w
             y == [x EXCEPT !.power_retry = IF r.ok THEN None ELSE RetryTicks]
  <2>4. /\ x \in Worlds /\ SameReadings(v, x) /\ Justified(x) /\ (Free(x) => Cool(x))
    BY <1>4, <2>2, <2>3, CommitStateLemma, CommitStateKeeps DEF Good
  <2>5. t.w = y
    BY <2>3
  <2> HIDE DEF x
  <2>6. /\ y.state = x.state /\ y.cpu = x.cpu /\ y.gpu = x.gpu /\ y.missed = x.missed
        /\ y.hw = x.hw /\ y.applied = x.applied /\ y.target = x.target
        /\ y.override = x.override
    BY <2>4 DEF Worlds
  <2> HIDE DEF y
  <2>7. SameReadings(w, v)
    BY <1>1, <1>2, <1>4, PowerBookkeeping
  <2> QED
    BY <2>4, <2>5, <2>6, <2>7 DEF SameReadings, Justified, Evidence, Free, Cool
<1> QED
  BY <1>3, <1>5, <1>6, <1>7

LEMMA HandleSetKeeps ==
    ASSUME NEW w \in Worlds, Justified(w), NEW cmd \in Command, NEW r \in HandleSet(w, cmd)
    PROVE  /\ SameReadings(w, r.w) /\ Justified(r.w) /\ (Free(r.w) => Free(w) \/ Cool(r.w))
           /\ IF r.note = "saved" THEN r.w.disk = r.w.state ELSE SamePreferences(w, r.w)
           /\ TrueNote(r) /\ r.note \in Replies
           /\ r.w.power_retry = IF r.ok /\ Supersedes(cmd) THEN None ELSE w.power_retry
<1> DEFINE next == Desired(w.hw.live, w.on_ac, w.state, cmd)
<1>1. next \in AppliedState \cup {Rejected}
  BY DesiredType DEF Worlds, HwType
<1>2. \/ r = [ok |-> FALSE, note |-> "rejected", w |-> w]
      \/ /\ next # Rejected
         /\ \E q \in CommitState(w, next) :
               r = [q EXCEPT !.w.power_retry = IF q.ok /\ Supersedes(cmd) THEN None ELSE @]
  BY DEF HandleSet
<1> HIDE DEF next
<1>3. CASE r = [ok |-> FALSE, note |-> "rejected", w |-> w]
  BY <1>3 DEF TrueNote, SameReadings, SamePreferences, Replies
<1>4. CASE /\ next # Rejected
           /\ \E q \in CommitState(w, next) :
                 r = [q EXCEPT !.w.power_retry = IF q.ok /\ Supersedes(cmd) THEN None ELSE @]
  <2>1. PICK q \in CommitState(w, next) :
            r = [q EXCEPT !.w.power_retry = IF q.ok /\ Supersedes(cmd) THEN None ELSE @]
    BY <1>4
  <2>2. q \in Outcomes /\ Good(q.w) /\ q.note \in Replies
    BY <1>1, <1>4, CommitStateLemma
  <2>3. /\ SameReadings(w, q.w) /\ Justified(q.w) /\ (Free(q.w) => Cool(q.w))
        /\ \/ q.ok /\ q.note = "saved" /\ q.w.state = next /\ q.w.disk = next
           \/ ~q.ok /\ q.note # "saved" /\ SamePreferences(w, q.w)
        /\ TrueNote(q) /\ SamePower(w, q.w)
    BY <1>1, <1>4, CommitStateKeeps
  <2> DEFINE x == q.w
             y == [x EXCEPT !.power_retry = IF q.ok /\ Supersedes(cmd) THEN None ELSE @]
  <2>4. r.w = y /\ r.note = q.note /\ r.ok = q.ok
    BY <2>1, <2>2 DEF Outcomes
  <2>5. x \in Worlds
    BY <2>2 DEF Good
  <2> HIDE DEF x
  <2>6. /\ y.state = x.state /\ y.disk = x.disk /\ y.hw = x.hw /\ y.applied = x.applied
        /\ y.cpu = x.cpu /\ y.gpu = x.gpu /\ y.missed = x.missed
        /\ y.target = x.target /\ y.override = x.override /\ y.hw_retry = x.hw_retry
        /\ y.power_retry = IF q.ok /\ Supersedes(cmd) THEN None ELSE x.power_retry
    BY <2>5 DEF Worlds
  <2> HIDE DEF y
  <2>7. SameReadings(w, r.w) /\ Justified(r.w) /\ (Free(r.w) => Cool(r.w))
    BY <2>3, <2>4, <2>6 DEF x, SameReadings, Justified, Evidence, Free, Cool
  <2>8. IF r.note = "saved" THEN r.w.disk = r.w.state ELSE SamePreferences(w, r.w)
    BY <2>3, <2>4, <2>6 DEF x, SamePreferences
  <2>9. TrueNote(r)
    BY <2>3, <2>4, <2>6 DEF x, TrueNote, InFirmwareHands, Aware
  <2>10. r.w.power_retry = IF r.ok /\ Supersedes(cmd) THEN None ELSE w.power_retry
    BY <2>3, <2>4, <2>6 DEF x, SamePower
  <2> QED
    BY <2>2, <2>4, <2>7, <2>8, <2>9, <2>10
<1> QED
  BY <1>2, <1>3, <1>4

-----------------------------------------------------------------------------
(* The inductive invariant: LowTargetHasEvidence says nothing of a guarded  *)
(* fan, so it is joined by what keeps old readings from being evidence: a   *)
(* handle that is gone leaves no target, and readings that are not fresh    *)
(* stand only beside a handle that is gone.                                 *)

TargetsAreJustified ==
    /\ ~applied => target = None
    /\ target # None /\ target < MaxRpm =>
          /\ cpu # None /\ missed < CpuSensorMissLimit
          /\ cpu < CpuOverrideOn
          /\ gpu = None \/ gpu < GpuOverrideOn

StaleReadingsAreHarmless ==
    /\ applied => hw.live
    /\ ~fresh => cpu = None \/ ~hw.live

PolicyInv == IInv /\ TargetsAreJustified /\ StaleReadingsAreHarmless

\* Nobody hears of a process that has ended.
ReplyInv ==
    /\ reply = "saved" => disk = state
    /\ ReportsAreTrue
    /\ ~Alive => reply = None

LEMMA PolicyInvImplies ==
    ASSUME PolicyInv
    PROVE  LowTargetHasEvidence
BY DEF PolicyInv, TargetsAreJustified, StaleReadingsAreHarmless, LowTargetHasEvidence

LEMMA WorldKeeps ==
    /\ TargetsAreJustified => Justified(World)
    /\ World.cpu = cpu /\ World.gpu = gpu /\ World.hw = hw
    /\ World.state = state /\ World.disk = disk
    /\ Free(World) <=> Released
BY DEF World, TargetsAreJustified, Justified, Evidence, Free, Released, Software

LEMMA BecomeKeeps ==
    ASSUME NEW w, Become(w)
    PROVE  /\ Justified(w) => TargetsAreJustified'
           /\ Good(w) => (applied' => hw'.live)
           /\ cpu' = w.cpu /\ hw' = w.hw /\ state' = w.state /\ disk' = w.disk
           /\ applied' = w.applied /\ hw_retry' = w.hw_retry
           /\ Released' => Free(w)
           /\ Cool(w) => /\ cpu' # None /\ cpu' < CpuOverrideOff
                         /\ gpu' = None \/ gpu' < GpuOverrideOff
BY DEF Become, Justified, Evidence, TargetsAreJustified, Good, Consistent, HwIs,
       Free, Released, Software, Cool

LEMMA BlankKeeps ==
    ASSUME NEW h \in HwType, NEW d \in AppliedState
    PROVE  /\ Justified(Blank(h, d)) /\ ~Free(Blank(h, d)) /\ Blank(h, d).cpu = None
           /\ Blank(h, d).hw = h
BY DEF Blank, Justified, Free

\* A step lets a fan go only when the readings it leaves are cool.
ReleasedCool ==
    Released' /\ ~Released =>
        /\ cpu' # None /\ cpu' < CpuOverrideOff
        /\ gpu' = None \/ gpu' < GpuOverrideOff

\* A step answers a command truthfully, or leaves no new answer.
AnswersTruthfully ==
    reply' # None => IF reply' = "saved" THEN disk' = state' ELSE UNCHANGED <<state, disk>>

-----------------------------------------------------------------------------
(* One lemma per step. *)

PolicyStep == TargetsAreJustified' /\ StaleReadingsAreHarmless' /\ ReleasedCool

LEMMA InitPolicyInv == Init => PolicyInv /\ ReplyInv
<1> SUFFICES ASSUME Init PROVE PolicyInv /\ ReplyInv
  OBVIOUS
<1>1. IInv
  BY InitIInv
<1> QED
  BY <1>1, RepliesAssumption
     DEF Init, PolicyInv, TargetsAreJustified, StaleReadingsAreHarmless,
         ReplyInv, ReportsAreTrue, Replies

LEMMA StartPolicy ==
    ASSUME PolicyInv, Start
    PROVE  PolicyStep
<1> DEFINE Opened(o) == [Blank(hw, disk) EXCEPT !.hw.live = o]
<1>1. PICK opened \in Opens : \E w \in Sanitize(Opened(opened)) : \E r \in Reapply(w) : Become(r)
  BY DEF Start
<1>2. Opened(opened) \in Worlds /\ ~Opened(opened).applied
  <2>1. opened \in BOOLEAN
    BY <1>1 DEF Opens
  <2>2. Blank(hw, disk) \in Worlds /\ ~Blank(hw, disk).applied
    BY BlankLemma DEF PolicyInv, IInv, CoreType, Good
  <2> QED
    BY <2>1, <2>2 DEF Worlds, HwType
<1> HIDE DEF Opened
<1>3. PICK w \in Sanitize(Opened(opened)) : \E r \in Reapply(w) : Become(r)
  BY <1>1
<1>4. PICK r \in Reapply(w) : Become(r)
  BY <1>3
<1>5. w \in Worlds
  BY <1>2, <1>3, SanitizeLemma
<1>6. Good(r) /\ r.cpu = None /\ Justified(r) /\ ~Free(r)
  BY <1>4, <1>5, ReapplyLemma, ReapplyKeeps
<1> QED
  BY <1>4, <1>6, BecomeKeeps DEF PolicyStep, StaleReadingsAreHarmless, ReleasedCool

LEMMA TickPolicy ==
    ASSUME PolicyInv, NEW c \in CpuReadings, NEW g \in GpuReadings,
           NEW source \in PowerReadings, TickWith(c, g, source)
    PROVE  PolicyStep
<1> DEFINE NewFresh == c # None \/ (fresh /\ ~suspended /\ hw.live)
           Post(t) == Become(t.w) /\ fresh' = NewFresh
<1>1. PICK w0 \in IF suspended THEN Reapply(World) ELSE {World} :
          \E reopened \in Reopenings(w0) : \E w1 \in Recover(w0, reopened) :
          \E w2 \in Sense(w1, c, g) : \E t \in PowerTick(w2, source) : Post(t)
  BY Zenon DEF TickWith
<1> HIDE DEF Post
<1>2. PICK reopened \in Reopenings(w0) : \E w1 \in Recover(w0, reopened) :
          \E w2 \in Sense(w1, c, g) : \E t \in PowerTick(w2, source) : Post(t)
  BY <1>1
<1>3. PICK w1 \in Recover(w0, reopened) :
          \E w2 \in Sense(w1, c, g) : \E t \in PowerTick(w2, source) : Post(t)
  BY <1>2
<1>4. PICK w2 \in Sense(w1, c, g) : \E t \in PowerTick(w2, source) : Post(t)
  BY <1>3
<1>5. PICK t \in PowerTick(w2, source) : Post(t)
  BY <1>4
<1>6. /\ c \in Nat \cup {None} /\ g \in Nat \cup {None} /\ source \in BOOLEAN \cup {None}
      /\ reopened \in BOOLEAN
  BY <1>2, InputsAssumption DEF Reopenings, Opens
<1>7. /\ World \in Worlds /\ Justified(World) /\ (~suspended => Good(World))
  BY WorldLemma, WorldKeeps DEF PolicyInv, IInv
<1>8. /\ Good(w0) /\ Justified(w0)
      /\ suspended => w0.cpu = None /\ ~Free(w0)
      /\ ~suspended => w0 = World
  BY <1>1, <1>7, ReapplyLemma, ReapplyKeeps
<1>9. Good(w1)
  BY <1>3, <1>6, <1>8, RecoverLemma
<1>10. /\ Justified(w1) /\ (w1 = w0 \/ (w1.cpu = None /\ ~Free(w1)))
       /\ ~reopened /\ ~w0.hw.live => w1 = w0
       /\ reopened => w1.cpu = None
  BY <1>3, <1>6, <1>8, RecoverKeeps
<1>11. Good(w2)
  BY <1>4, <1>6, <1>9, SenseLemma
<1>12. /\ Justified(w2) /\ (Free(w2) => Free(w1) \/ Cool(w2))
       /\ c = None /\ w1.cpu = None => w2.cpu = None
       /\ ~w1.hw.live => ~w2.hw.live
  BY <1>4, <1>6, <1>9, SenseKeeps
<1>13. Good(t.w)
  BY <1>5, <1>6, <1>11, PowerTickLemma
<1>14. SameReadings(w2, t.w) /\ Justified(t.w) /\ (Free(t.w) => Free(w2) \/ Cool(t.w))
  BY <1>5, <1>6, <1>11, <1>12, PowerTickKeeps
<1>15. Become(t.w) /\ fresh' = NewFresh
  BY <1>5 DEF Post
<1>16. ASSUME ~fresh' PROVE cpu' = None \/ ~hw'.live
  <2>1. c = None /\ (~fresh \/ suspended \/ ~hw.live)
    BY <1>15, <1>16
  <2>2. w1.cpu = None \/ ~w1.hw.live
    <3>1. CASE suspended
      BY <1>8, <1>10, <3>1
    <3>2. CASE ~suspended
      <4>1. w0.cpu = None \/ ~w0.hw.live
        BY <1>8, <2>1, <3>2, WorldKeeps DEF PolicyInv, StaleReadingsAreHarmless
      <4> QED
        BY <1>6, <1>10, <4>1
    <3> QED
      BY <3>1, <3>2
  <2>3. t.w.cpu = None \/ ~t.w.hw.live
    BY <1>12, <1>14, <2>1, <2>2 DEF SameReadings
  <2> QED
    BY <1>15, <2>3, BecomeKeeps
<1>17. Free(t.w) => Free(World) \/ Cool(t.w)
  <2>1. Cool(w2) => Cool(t.w)
    BY <1>14 DEF SameReadings, Cool
  <2>2. Free(w1) => Free(World)
    BY <1>8, <1>10
  <2> QED
    BY <1>12, <1>14, <2>1, <2>2
<1>18. ReleasedCool
  BY <1>15, <1>17, BecomeKeeps, WorldKeeps DEF ReleasedCool
<1> QED
  BY <1>13, <1>14, <1>15, <1>16, <1>18, BecomeKeeps DEF PolicyStep, StaleReadingsAreHarmless

LEMMA HandlePolicy ==
    ASSUME PolicyInv, NEW cmd \in Commands, Handle(cmd)
    PROVE  PolicyStep /\ AnswersTruthfully /\ ReportsAreTrue'
<1>1. PICK r \in HandleSet(World, cmd) : Become(r.w) /\ reply' = r.note
  BY DEF Handle
<1>2. cmd \in Command /\ World \in Worlds /\ Justified(World)
  BY InputsAssumption, WorldLemma, WorldKeeps DEF PolicyInv, IInv
<1>3. r.w = World \/ Good(r.w)
  BY <1>1, <1>2, HandleSetLemma
<1>4. /\ SameReadings(World, r.w) /\ Justified(r.w)
      /\ Free(r.w) => Free(World) \/ Cool(r.w)
      /\ IF r.note = "saved" THEN r.w.disk = r.w.state ELSE SamePreferences(World, r.w)
      /\ TrueNote(r)
  BY <1>1, <1>2, HandleSetKeeps
<1>5. TargetsAreJustified' /\ ReleasedCool
  BY <1>1, <1>4, BecomeKeeps, WorldKeeps DEF ReleasedCool
<1>6. StaleReadingsAreHarmless'
  <2>1. applied' => hw'.live
    <3>1. CASE Good(r.w)
      BY <1>1, <3>1, BecomeKeeps
    <3>2. CASE r.w = World
      BY <1>1, <3>2 DEF Become, World, PolicyInv, StaleReadingsAreHarmless
    <3> QED
      BY <1>3, <3>1, <3>2
  <2>2. fresh' = fresh /\ cpu' = cpu /\ (~hw.live => ~hw'.live)
    BY <1>1, <1>4, BecomeKeeps, WorldKeeps DEF Handle, SameReadings
  <2> QED
    BY <2>1, <2>2 DEF PolicyInv, StaleReadingsAreHarmless
<1>7. AnswersTruthfully
  BY <1>1, <1>4, BecomeKeeps, WorldKeeps DEF AnswersTruthfully, SamePreferences
<1>8. ReportsAreTrue'
  BY <1>1, <1>4, BecomeKeeps DEF ReportsAreTrue, TrueNote, InFirmwareHands, Aware
<1> QED
  BY <1>5, <1>6, <1>7, <1>8 DEF PolicyStep

LEMMA LeavePolicy ==
    ASSUME PolicyInv, NEW h \in HwType, NEW d \in AppliedState, NEW next, Leave(h, d, next)
    PROVE  PolicyStep
<1> DEFINE w == Blank(Closed(h), d)
<1>1. Good(w) /\ ~w.applied /\ Justified(w) /\ ~Free(w) /\ w.cpu = None
  BY DisturbedType, BlankLemma, BlankKeeps
<1> HIDE DEF w
<1>2. Become(w)
  BY DEF Leave, w
<1> QED
  BY <1>1, <1>2, BecomeKeeps DEF PolicyStep, StaleReadingsAreHarmless, ReleasedCool

LEMMA StopPolicy ==
    ASSUME PolicyInv, Stop
    PROVE  PolicyStep
<1>1. PICK r \in HwRestoreAuto(World, state.perf_mode) : Become(MarkUnapplied(r.w))
  BY DEF Stop
<1>2. World \in Worlds /\ state.perf_mode \in PerfMode
  BY WorldLemma DEF PolicyInv, IInv, CoreType, AppliedState
<1>3. r.w \in Worlds /\ Same(World, r.w)
  BY <1>1, <1>2, HwRestoreAutoLemma, HwRestoreAutoKeeps
<1> DEFINE w == MarkUnapplied(r.w)
<1>4. Same(World, w) /\ Justified(w) /\ ~Free(w) /\ ~w.applied
  BY <1>3, MarkUnappliedKeeps, SameIsTransitive
<1> HIDE DEF w
<1>5. Become(w)
  BY <1>1 DEF w
<1>6. fresh' = fresh /\ cpu' = cpu /\ (~hw.live => ~hw'.live)
  BY <1>4, <1>5, BecomeKeeps, WorldKeeps DEF Stop, Same, SameReadings
<1>7. StaleReadingsAreHarmless'
  BY <1>4, <1>5, <1>6, BecomeKeeps DEF PolicyInv, StaleReadingsAreHarmless
<1> QED
  BY <1>4, <1>5, <1>7, BecomeKeeps DEF PolicyStep, ReleasedCool

\* Steps that leave the policy's fields alone and lose no handle but a stopped one.
LEMMA PolicyUnchanged ==
    ASSUME PolicyInv,
           UNCHANGED <<state, applied, target, override, cpu, gpu, missed, fresh>>,
           hw'.live = hw.live \/ (~applied /\ ~hw'.live)
    PROVE  PolicyStep
BY DEF PolicyInv, PolicyStep, TargetsAreJustified, StaleReadingsAreHarmless,
       ReleasedCool, Released, Software

LEMMA StopPostPolicy ==
    ASSUME PolicyInv, StopPost
    PROVE  PolicyStep
<1>1. PICK opened \in Opens :
          \E r \in RestoreOutcomes([hw EXCEPT !.live = opened], disk.perf_mode) :
              hw' = Closed(r.h)
  BY DEF StopPost, Results
<1>2. [hw EXCEPT !.live = opened] \in HwType /\ disk.perf_mode \in PerfMode
  BY <1>1 DEF PolicyInv, IInv, CoreType, HwType, AppliedState, Opens
<1>3. PICK r \in RestoreOutcomes([hw EXCEPT !.live = opened], disk.perf_mode) :
          hw' = Closed(r.h)
  BY <1>1
<1>4. r.h \in HwType
  BY <1>2, <1>3, RestoreOutcomesType DEF HwOutcome
<1>5. ~hw'.live
  BY <1>3, <1>4 DEF Closed, HwType
<1>6. ~applied
  BY DEF StopPost, PolicyInv, IInv, Alive
<1> QED
  BY <1>5, <1>6, PolicyUnchanged DEF StopPost, coreVars

\* A step without a command leaves no answer behind.
LEMMA SilentStep ==
    ASSUME reply' = None
    PROVE  AnswersTruthfully /\ ReplyInv'
<1>1. /\ None # "saved" /\ None # "auto" /\ None # "restored"
      /\ None # "unsaved_restored"
  BY RepliesAssumption DEF Replies
<1> QED
  BY <1>1 DEF AnswersTruthfully, ReplyInv, ReportsAreTrue

\* A step that changes nothing a reply is about leaves it true.
LEMMA QuietStep ==
    ASSUME ReplyInv, UNCHANGED <<hw, disk, status, state, applied, hw_retry, reply>>
    PROVE  AnswersTruthfully /\ ReplyInv'
BY DEF ReplyInv, AnswersTruthfully, ReportsAreTrue, Alive

-----------------------------------------------------------------------------
(* Preferences: those in force beside an open EC fit the model, and the     *)
(* file restores the ones that are published.                               *)

Restores(w) == SanitizeLoadedState(TRUE, w.disk) = SanitizeLoadedState(TRUE, w.state)
Valid(w) == (w.hw.live => Fits(w.state)) /\ Restores(w)

LEMMA ValidKept ==
    ASSUME NEW w, Valid(w), NEW v, SamePreferences(w, v), ~w.hw.live => ~v.hw.live
    PROVE  Valid(v)
BY DEF Valid, Restores, SamePreferences

LEMMA SanitizeMakesValid ==
    ASSUME NEW w \in Worlds, Restores(w), NEW v \in Sanitize(w)
    PROVE  Valid(v) /\ v.hw = w.hw
<1> DEFINE st == SanitizeLoadedState(w.hw.live, w.state)
<1>1. w.state \in AppliedState /\ w.hw.live \in BOOLEAN
  BY DEF Worlds, HwType
<1>2. /\ st \in AppliedState /\ (w.hw.live => Fits(st))
      /\ SanitizeLoadedState(TRUE, st) = SanitizeLoadedState(TRUE, w.state)
  <2>1. CASE w.hw.live = TRUE
    BY <1>1, <2>1, SanitizeType, SanitizedFits, FittingIsKept
  <2>2. CASE w.hw.live = FALSE
    BY <1>1, <2>2, SanitizeType, SanitizingBlindlyFirst
  <2> QED
    BY <1>1, <2>1, <2>2
<1>3. \/ st = w.state /\ v = w
      \/ \E saved \in Saves : v = [w EXCEPT !.state = st, !.disk = IF saved THEN st ELSE @]
  BY DEF Sanitize
<1> HIDE DEF st
<1>4. CASE st = w.state /\ v = w
  BY <1>2, <1>4 DEF Valid
<1>5. CASE \E saved \in Saves : v = [w EXCEPT !.state = st, !.disk = IF saved THEN st ELSE @]
  <2>1. v.state = st /\ v.disk \in {st, w.disk} /\ v.hw = w.hw
    BY <1>5 DEF Worlds
  <2> QED
    BY <1>2, <2>1 DEF Valid, Restores
<1> QED
  BY <1>3, <1>4, <1>5

LEMMA TakeOverMakesValid ==
    ASSUME NEW w \in Worlds, Restores(w), NEW v \in TakeOver(w)
    PROVE  Valid(v)
<1>1. PICK u \in Sanitize(MarkUnapplied(w)) :
          v \in Reapply([u EXCEPT !.on_ac = None, !.power_retry = None])
  BY DEF TakeOver
<1> DEFINE m == MarkUnapplied(w)
<1>2. m \in Worlds /\ ~m.applied /\ Restores(m)
  BY MarkUnappliedLemma, MarkUnappliedKeeps
     DEF Good, Restores, Same, SamePreferences
<1> HIDE DEF m
<1>3. u \in Worlds /\ Valid(u)
  BY <1>1, <1>2, SanitizeLemma, SanitizeMakesValid DEF m
<1> DEFINE y == [u EXCEPT !.on_ac = None, !.power_retry = None]
<1>4. y \in Worlds /\ y.state = u.state /\ y.disk = u.disk /\ y.hw = u.hw
  BY <1>3, ZenonT(60) DEF Worlds
<1>5. v \in Reapply(y)
  BY <1>1
<1> HIDE DEF y
<1>6. Valid(y)
  BY <1>3, <1>4 DEF Valid, Restores
<1> QED
  BY <1>4, <1>5, <1>6, ReapplyKeeps, ValidKept

LEMMA RecoverKeepsValid ==
    ASSUME NEW w \in Worlds, Valid(w), NEW reopened \in BOOLEAN, NEW v \in Recover(w, reopened)
    PROVE  Valid(v)
<1> DEFINE x == [w EXCEPT !.hw.live = TRUE]
<1>1. x \in Worlds /\ x.state = w.state /\ x.disk = w.disk
  BY ZenonT(60) DEF Worlds, HwType
<1>2. v \in TakeOver(x) \/ v \in Reapply(w) \/ v = w
  BY Zenon DEF Recover
<1> HIDE DEF x
<1>3. Restores(x)
  BY <1>1 DEF Valid, Restores
<1> QED
  BY <1>1, <1>2, <1>3, TakeOverMakesValid, ReapplyKeeps, ValidKept

LEMMA CommitStateKeepsValid ==
    ASSUME NEW w \in Worlds, Valid(w), NEW next \in AppliedState, w.hw.live => Fits(next),
           NEW r \in CommitState(w, next)
    PROVE  Valid(r.w)
<1>1. ~w.hw.live => ~r.w.hw.live
  BY CommitStateKeeps DEF SameReadings
<1>2. \/ r.w.state = next /\ r.w.disk = next
      \/ SamePreferences(w, r.w)
  BY CommitStateKeeps
<1> QED
  BY <1>1, <1>2 DEF Valid, Restores, SamePreferences

LEMMA PowerTickKeepsValid ==
    ASSUME NEW w \in Worlds, Valid(w), NEW source \in BOOLEAN \cup {None},
           NEW t \in PowerTick(w, source)
    PROVE  Valid(t.w)
<1> DEFINE v == Sampled(w, source)
           next == AutomationState(w.hw.live, w.state, source)
<1>1. PICK retry \in {None, w.power_retry} :
          v = [w EXCEPT !.on_ac = source, !.power_retry = retry]
  BY DEF Sampled, Worlds
<1>2. \/ t = [changed |-> FALSE, w |-> v]
      \/ t = [changed |-> FALSE, w |-> [v EXCEPT !.power_retry = None]]
      \/ AutomationDue(w, source) /\ t \in CommitAutomation(v, next)
  BY Zenon DEF PowerTick
<1>3. v \in Worlds /\ v.state = w.state /\ v.disk = w.disk /\ v.hw = w.hw
  BY <1>1 DEF Worlds
<1> HIDE DEF v
<1>4. Valid(v)
  BY <1>3 DEF Valid, Restores
<1>5. CASE t = [changed |-> FALSE, w |-> v]
  BY <1>4, <1>5
<1>6. CASE t = [changed |-> FALSE, w |-> [v EXCEPT !.power_retry = None]]
  <2>1. t.w.state = v.state /\ t.w.disk = v.disk /\ t.w.hw = v.hw
    BY <1>3, <1>6 DEF Worlds
  <2> QED
    BY <1>4, <2>1 DEF Valid, Restores
<1>7. CASE AutomationDue(w, source) /\ t \in CommitAutomation(v, next)
  <2>1. source \in BOOLEAN /\ w.hw.live \in BOOLEAN /\ w.state \in AppliedState
    BY <1>7 DEF AutomationDue, Worlds, HwType
  <2>2. next \in AppliedState
    BY <2>1, AutomationStateType
  <2>3. v.hw.live => Fits(next)
    <3>1. CASE w.hw.live = TRUE
      BY <2>1, <3>1, AutomationFits DEF Valid
    <3> QED
      BY <1>3, <2>1, <3>1
  <2> HIDE DEF next
  <2>4. PICK r \in CommitState(v, next) :
            t = [changed |-> r.ok,
                 w |-> [r.w EXCEPT !.power_retry = IF r.ok THEN None ELSE RetryTicks]]
    BY <1>7 DEF CommitAutomation
  <2>5. Valid(r.w) /\ r.w \in Worlds
    BY <1>3, <1>4, <2>2, <2>3, CommitStateKeepsValid, CommitStateLemma DEF Good
  <2> DEFINE x == r.w
             y == [x EXCEPT !.power_retry = IF r.ok THEN None ELSE RetryTicks]
  <2>6. t.w = y
    BY <2>4
  <2> HIDE DEF x
  <2>7. y.state = x.state /\ y.disk = x.disk /\ y.hw = x.hw
    BY <2>5 DEF Worlds, x
  <2> HIDE DEF y
  <2> QED
    BY <2>5, <2>6, <2>7 DEF x, Valid, Restores
<1> QED
  BY <1>2, <1>5, <1>6, <1>7

LEMMA HandleSetKeepsValid ==
    ASSUME NEW w \in Worlds, Valid(w), NEW cmd \in Command, NEW r \in HandleSet(w, cmd)
    PROVE  Valid(r.w)
<1> DEFINE next == Desired(w.hw.live, w.on_ac, w.state, cmd)
<1>1. /\ next \in AppliedState \cup {Rejected}
      /\ w.hw.live \in BOOLEAN /\ w.state \in AppliedState /\ w.on_ac \in BOOLEAN \cup {None}
  BY DesiredType DEF Worlds, HwType
<1>2. next # Rejected /\ w.hw.live => Fits(next)
  <2>1. CASE w.hw.live = TRUE
    BY <1>1, <2>1, DesiredFits DEF Valid
  <2> QED
    BY <1>1, <2>1
<1>3. \/ r = [ok |-> FALSE, note |-> "rejected", w |-> w]
      \/ /\ next # Rejected
         /\ \E q \in CommitState(w, next) :
               r = [q EXCEPT !.w.power_retry = IF q.ok /\ Supersedes(cmd) THEN None ELSE @]
  BY DEF HandleSet
<1> HIDE DEF next
<1>4. CASE r = [ok |-> FALSE, note |-> "rejected", w |-> w]
  BY <1>4
<1>5. CASE /\ next # Rejected
           /\ \E q \in CommitState(w, next) :
                 r = [q EXCEPT !.w.power_retry = IF q.ok /\ Supersedes(cmd) THEN None ELSE @]
  <2>1. PICK q \in CommitState(w, next) :
            r = [q EXCEPT !.w.power_retry = IF q.ok /\ Supersedes(cmd) THEN None ELSE @]
    BY <1>5
  <2>2. q \in Outcomes /\ q.w \in Worlds /\ Valid(q.w)
    BY <1>1, <1>2, <1>5, CommitStateLemma, CommitStateKeepsValid DEF Good
  <2> DEFINE x == q.w
             y == [x EXCEPT !.power_retry = IF q.ok /\ Supersedes(cmd) THEN None ELSE @]
  <2>3. r.w = y
    BY <2>1, <2>2 DEF Outcomes
  <2>4. x \in Worlds
    BY <2>2
  <2> HIDE DEF x
  <2>5. y.state = x.state /\ y.disk = x.disk /\ y.hw = x.hw
    BY <2>4 DEF Worlds
  <2> HIDE DEF y
  <2> QED
    BY <2>2, <2>3, <2>5 DEF x, Valid, Restores
<1> QED
  BY <1>3, <1>4, <1>5

\* Valid, of the variables.
PreferencesInv == (hw.live => Fits(state)) /\ RestartKeepsPreferences

LEMMA WorldIsValid == PreferencesInv <=> Valid(World)
BY DEF World, PreferencesInv, Valid, Restores, RestartKeepsPreferences

LEMMA BecomeValid ==
    ASSUME NEW w, Become(w), Valid(w)
    PROVE  PreferencesInv'
BY DEF Become, PreferencesInv, Valid, Restores, RestartKeepsPreferences

LEMMA TickPreferences ==
    ASSUME PolicyInv, PreferencesInv, NEW c \in CpuReadings, NEW g \in GpuReadings,
           NEW source \in PowerReadings, TickWith(c, g, source)
    PROVE  PreferencesInv'
<1>1. PICK w0 \in IF suspended THEN Reapply(World) ELSE {World} :
          \E reopened \in Reopenings(w0) : \E w1 \in Recover(w0, reopened) :
          \E w2 \in Sense(w1, c, g) : \E t \in PowerTick(w2, source) : Become(t.w)
  BY Zenon DEF TickWith
<1>2. PICK reopened \in Reopenings(w0) : \E w1 \in Recover(w0, reopened) :
          \E w2 \in Sense(w1, c, g) : \E t \in PowerTick(w2, source) : Become(t.w)
  BY <1>1
<1>3. PICK w1 \in Recover(w0, reopened) :
          \E w2 \in Sense(w1, c, g) : \E t \in PowerTick(w2, source) : Become(t.w)
  BY <1>2
<1>4. PICK w2 \in Sense(w1, c, g) : \E t \in PowerTick(w2, source) : Become(t.w)
  BY <1>3
<1>5. PICK t \in PowerTick(w2, source) : Become(t.w)
  BY <1>4
<1>6. /\ c \in Nat \cup {None} /\ g \in Nat \cup {None} /\ source \in BOOLEAN \cup {None}
      /\ reopened \in BOOLEAN
  BY <1>2, InputsAssumption DEF Reopenings, Opens
<1>7. World \in Worlds /\ Valid(World) /\ (~suspended => Good(World))
  BY WorldLemma, WorldIsValid DEF PolicyInv, IInv
<1>8. Good(w0) /\ Valid(w0)
  BY <1>1, <1>7, ReapplyLemma, ReapplyKeeps, ValidKept
<1>9. Good(w1) /\ Valid(w1)
  BY <1>3, <1>6, <1>8, RecoverLemma, RecoverKeepsValid DEF Good
<1>10. Good(w2) /\ Valid(w2)
  BY <1>4, <1>6, <1>9, SenseLemma, SenseKeeps, ValidKept
<1>11. Valid(t.w)
  BY <1>5, <1>6, <1>10, PowerTickKeepsValid DEF Good
<1> QED
  BY <1>5, <1>11, BecomeValid

LEMMA LeavePreferences ==
    ASSUME NEW h \in HwType, NEW d, NEW next, Leave(h, d, next)
    PROVE  PreferencesInv'
<1>1. Valid(Blank(Closed(h), d))
  BY DEF Blank, Closed, HwType, Valid, Restores
<1> QED
  BY <1>1, BecomeValid DEF Leave

LEMMA StartPreferences ==
    ASSUME PolicyInv, Start
    PROVE  PreferencesInv'
<1> DEFINE Opened(o) == [Blank(hw, disk) EXCEPT !.hw.live = o]
<1>1. PICK opened \in Opens : \E w \in Sanitize(Opened(opened)) : \E r \in Reapply(w) : Become(r)
  BY DEF Start
<1>2. /\ Opened(opened) \in Worlds /\ ~Opened(opened).applied
      /\ Restores(Opened(opened))
  <2>1. opened \in BOOLEAN
    BY <1>1 DEF Opens
  <2>2. Blank(hw, disk) \in Worlds /\ ~Blank(hw, disk).applied
    BY BlankLemma DEF PolicyInv, IInv, CoreType, Good
  <2>3. Opened(opened).state = disk /\ Opened(opened).disk = disk
    BY DEF Blank
  <2> QED
    BY <2>1, <2>2, <2>3, ZenonT(60) DEF Worlds, HwType, Restores
<1> HIDE DEF Opened
<1>3. PICK w \in Sanitize(Opened(opened)) : \E r \in Reapply(w) : Become(r)
  BY <1>1
<1>4. PICK r \in Reapply(w) : Become(r)
  BY <1>3
<1>5. w \in Worlds /\ Valid(w)
  BY <1>2, <1>3, SanitizeLemma, SanitizeMakesValid
<1>6. Valid(r)
  BY <1>4, <1>5, ReapplyKeeps, ValidKept
<1> QED
  BY <1>4, <1>6, BecomeValid

LEMMA StopPreferences ==
    ASSUME PolicyInv, PreferencesInv, Stop
    PROVE  PreferencesInv'
<1>1. PICK r \in HwRestoreAuto(World, state.perf_mode) : Become(MarkUnapplied(r.w))
  BY DEF Stop
<1>2. World \in Worlds /\ state.perf_mode \in PerfMode
  BY WorldLemma DEF PolicyInv, IInv, CoreType, AppliedState
<1>3. Same(World, MarkUnapplied(r.w))
  BY <1>1, <1>2, HwRestoreAutoLemma, HwRestoreAutoKeeps, MarkUnappliedKeeps, SameIsTransitive
<1>4. Valid(MarkUnapplied(r.w))
  BY <1>3, WorldIsValid, ValidKept DEF Same, SameReadings
<1> QED
  BY <1>1, <1>4, BecomeValid

\* Steps that leave the preferences alone and open no handle.
LEMMA PreferencesUnchanged ==
    ASSUME PreferencesInv, UNCHANGED <<disk, state>>, hw'.live => hw.live
    PROVE  PreferencesInv'
BY DEF PreferencesInv, RestartKeepsPreferences

-----------------------------------------------------------------------------
(* The theorems. *)

THEOREM NextPolicyInv ==
    PolicyInv /\ ReplyInv /\ [Next]_vars =>
        PolicyInv' /\ ReplyInv' /\ ReleasedCool /\ AnswersTruthfully
<1> SUFFICES ASSUME PolicyInv, ReplyInv, [Next]_vars
             PROVE  PolicyStep /\ AnswersTruthfully /\ ReplyInv'
  BY NextIInv DEF PolicyInv, PolicyStep
<1>1. CASE Start
  BY <1>1, StartPolicy, SilentStep DEF Start
<1>2. ASSUME NEW c \in CpuReadings, NEW g \in GpuReadings, NEW source \in PowerReadings,
             TickWith(c, g, source)
      PROVE  PolicyStep /\ AnswersTruthfully /\ ReplyInv'
  BY <1>2, TickPolicy, SilentStep DEF TickWith
<1>3. CASE Suspend
  <2>1. hw'.live = hw.live
    BY <1>3 DEF Suspend, Disturbed, PolicyInv, IInv, CoreType, HwType
  <2> QED
    BY <1>3, <2>1, PolicyUnchanged, SilentStep DEF Suspend, coreVars
<1>4. CASE Elapse
  BY <1>4, PolicyUnchanged, SilentStep DEF Elapse
<1>5. CASE Crash
  <2>1. PICK d \in {disk} \cup InFlight : Leave(Disturbed(hw), d, "crashed")
    BY <1>5 DEF Crash
  <2>2. d \in AppliedState /\ Disturbed(hw) \in HwType
    BY <2>1, InFlightType, DisturbedType DEF PolicyInv, IInv, CoreType
  <2> QED
    BY <2>1, <2>2, LeavePolicy, SilentStep DEF Leave
<1>6. CASE Abandon
  <2>1. PICK d \in {disk} \cup InFlight : Leave(Disturbed(hw), d, "stopped")
    BY <1>6 DEF Abandon
  <2>2. d \in AppliedState /\ Disturbed(hw) \in HwType
    BY <2>1, InFlightType, DisturbedType DEF PolicyInv, IInv, CoreType
  <2> QED
    BY <2>1, <2>2, LeavePolicy, SilentStep DEF Leave
<1>7. CASE Exit
  <2>1. hw \in HwType /\ disk \in AppliedState
    BY DEF PolicyInv, IInv, CoreType
  <2> QED
    BY <1>7, <2>1, LeavePolicy, SilentStep DEF Exit, Leave
<1>8. CASE Stop
  BY <1>8, StopPolicy, SilentStep DEF Stop
<1>9. CASE StopPost
  <2>1. reply' = None
    BY <1>9 DEF StopPost, ReplyInv, Alive
  <2> QED
    BY <1>9, <2>1, StopPostPolicy, SilentStep
<1>10. CASE Stabilise
  BY <1>10, PolicyUnchanged, QuietStep DEF Stabilise, coreVars
<1>11. ASSUME NEW cmd \in Commands, Handle(cmd)
       PROVE  PolicyStep /\ AnswersTruthfully /\ ReplyInv'
  <2>1. PolicyStep /\ AnswersTruthfully /\ ReportsAreTrue'
    BY <1>11, HandlePolicy
  <2>2. Alive'
    BY <1>11 DEF Handle, Alive
  <2>3. reply' = "saved" => disk' = state'
    BY <2>1, RepliesAssumption DEF AnswersTruthfully, Replies
  <2> QED
    BY <2>1, <2>2, <2>3 DEF ReplyInv
<1>12. CASE UNCHANGED vars
  BY <1>12, PolicyUnchanged, QuietStep DEF vars, coreVars
<1> QED
  BY <1>1, <1>2, <1>3, <1>4, <1>5, <1>6, <1>7, <1>8, <1>9, <1>10, <1>11, <1>12 DEF Next, Tick

\* A fan is run below the maximum only on evidence (core.rs update_fan_policy,
\* apply_hardware_state): for every laptop, curve and sequence of readings,
\* sleeps, lost handles and failed writes, a lower target stands beside a CPU
\* reading taken since the EC was last taken over, recent enough and below
\* the bounds at which the guard engages.
THEOREM SlowFansHaveEvidence == Spec => []LowTargetHasEvidence
<1>1. Init => PolicyInv /\ ReplyInv
  BY InitPolicyInv
<1>2. PolicyInv /\ ReplyInv /\ [Next]_vars => (PolicyInv /\ ReplyInv)'
  BY NextPolicyInv
<1>3. PolicyInv => LowTargetHasEvidence
  BY PolicyInvImplies
<1> QED
  BY <1>1, <1>2, <1>3, PTL DEF Spec

\* However the guard lets go of the fans (core.rs thermal_override_next behind
\* every apply, recovery and commit), the readings are below the Off bounds.
THEOREM GuardReleasesWhenCool == Spec => ReleaseNeedsCooling
<1>1. Init => PolicyInv /\ ReplyInv
  BY InitPolicyInv
<1>2. PolicyInv /\ ReplyInv /\ [Next]_vars => (PolicyInv /\ ReplyInv)'
  BY NextPolicyInv
<1>3. PolicyInv /\ ReplyInv /\ [Next]_vars =>
          [Released' /\ ~Released =>
              /\ cpu' # None /\ cpu' < CpuOverrideOff
              /\ gpu' = None \/ gpu' < GpuOverrideOff]_vars
  BY NextPolicyInv DEF ReleasedCool
<1> QED
  BY <1>1, <1>2, <1>3, PTL DEF Spec, ReleaseNeedsCooling

\* A command is all or nothing (core.rs commit_state, handle_set): whatever
\* fails on the way, an acknowledged command is in memory and in the file,
\* and a refused or failed one has changed neither.
THEOREM CommandsAreAtomic == Spec => CommandsAreTransactions
<1>1. Init => PolicyInv /\ ReplyInv
  BY InitPolicyInv
<1>2. PolicyInv /\ ReplyInv /\ [Next]_vars => (PolicyInv /\ ReplyInv)'
  BY NextPolicyInv
<1>3. PolicyInv /\ ReplyInv /\ [Next]_vars =>
          [reply' # None => IF reply' = "saved" THEN disk' = state'
                            ELSE UNCHANGED <<state, disk>>]_vars
  BY NextPolicyInv DEF AnswersTruthfully
<1> QED
  BY <1>1, <1>2, <1>3, PTL DEF Spec, CommandsAreTransactions

\* What a client is told of a failed apply is so (core.rs apply_hardware_state):
\* fans reported under firmware control are, a state reported restored is in force.
\* A command reported applied, or a failed save reported undone, is in force or a
\* retry is scheduled: the fan target is written after the answer is decided.
THEOREM ClientsAreToldTheTruth == Spec => []ReportsAreTrue
<1>1. Init => PolicyInv /\ ReplyInv
  BY InitPolicyInv
<1>2. PolicyInv /\ ReplyInv /\ [Next]_vars => (PolicyInv /\ ReplyInv)'
  BY NextPolicyInv
<1>3. ReplyInv => ReportsAreTrue
  BY DEF ReplyInv
<1> QED
  BY <1>1, <1>2, <1>3, PTL DEF Spec

THEOREM NextPreferencesInv == PolicyInv /\ PreferencesInv /\ [Next]_vars => PreferencesInv'
<1> SUFFICES ASSUME PolicyInv, PreferencesInv, [Next]_vars PROVE PreferencesInv'
  OBVIOUS
<1>1. hw \in HwType /\ disk \in AppliedState
  BY DEF PolicyInv, IInv, CoreType
<1>2. CASE Start
  BY <1>2, StartPreferences
<1>3. ASSUME NEW c \in CpuReadings, NEW g \in GpuReadings, NEW source \in PowerReadings,
             TickWith(c, g, source)
      PROVE  PreferencesInv'
  BY <1>3, TickPreferences
<1>4. CASE Suspend
  BY <1>1, <1>4, PreferencesUnchanged DEF Suspend, coreVars, Disturbed, HwType
<1>5. CASE Elapse
  BY <1>5, PreferencesUnchanged DEF Elapse
<1>6. CASE Crash
  BY <1>1, <1>6, DisturbedType, LeavePreferences DEF Crash
<1>7. CASE Abandon
  BY <1>1, <1>7, DisturbedType, LeavePreferences DEF Abandon
<1>8. CASE Exit
  BY <1>1, <1>8, LeavePreferences DEF Exit
<1>9. CASE Stop
  BY <1>9, StopPreferences
<1>10. CASE StopPost
  <2>1. PICK opened \in Opens :
            \E r \in RestoreOutcomes([hw EXCEPT !.live = opened], disk.perf_mode) :
                hw' = Closed(r.h)
    BY <1>10 DEF StopPost, Results
  <2>2. [hw EXCEPT !.live = opened] \in HwType /\ disk.perf_mode \in PerfMode
    BY <1>1, <2>1 DEF HwType, AppliedState, Opens
  <2>3. ~hw'.live
    BY <2>1, <2>2, RestoreOutcomesType DEF HwOutcome, Closed, HwType
  <2> QED
    BY <1>10, <2>3, PreferencesUnchanged DEF StopPost, coreVars
<1>11. CASE Stabilise
  BY <1>11, PreferencesUnchanged DEF Stabilise, coreVars
<1>12. ASSUME NEW cmd \in Commands, Handle(cmd) PROVE PreferencesInv'
  <2>1. PICK r \in HandleSet(World, cmd) : Become(r.w)
    BY <1>12 DEF Handle
  <2>2. cmd \in Command /\ World \in Worlds /\ Valid(World)
    BY InputsAssumption, WorldLemma, WorldIsValid DEF PolicyInv, IInv
  <2> QED
    BY <2>1, <2>2, HandleSetKeepsValid, BecomeValid
<1>13. CASE UNCHANGED vars
  BY <1>13, PreferencesUnchanged DEF vars, coreVars
<1> QED
  BY <1>2, <1>3, <1>4, <1>5, <1>6, <1>7, <1>8, <1>9, <1>10, <1>11, <1>12, <1>13 DEF Next, Tick

LEMMA InitPreferencesInv == Init => PreferencesInv
BY DEF Init, Disturbed, PreferencesInv, RestartKeepsPreferences

\* Preferences in force beside an open EC are within the limits of the detected
\* model (core.rs sanitize_loaded_state, handle_set, power_tick): for every
\* model, whatever a file held, however often the EC was lost and reopened, and
\* whatever clients asked for meanwhile.
THEOREM PreferencesAreWithinLimits == Spec => []PreferencesFitTheModel
<1>1. Init => PolicyInv /\ ReplyInv /\ PreferencesInv
  BY InitPolicyInv, InitPreferencesInv
<1>2. PolicyInv /\ ReplyInv /\ PreferencesInv /\ [Next]_vars
          => (PolicyInv /\ ReplyInv /\ PreferencesInv)'
  BY NextPolicyInv, NextPreferencesInv
<1>3. PolicyInv /\ PreferencesInv => PreferencesFitTheModel
  BY FittingIsKept DEF PolicyInv, IInv, CoreType, PreferencesInv, PreferencesFitTheModel
<1> QED
  BY <1>1, <1>2, <1>3, PTL DEF Spec

\* A restart loses nothing (state.rs save, core.rs sanitize_loaded_state): the
\* file, normalised for the model, always gives the preferences that are
\* published, even when the last normalisation could not be saved.
THEOREM RestartsLoseNothing == Spec => []RestartKeepsPreferences
<1>1. Init => PolicyInv /\ ReplyInv /\ PreferencesInv
  BY InitPolicyInv, InitPreferencesInv
<1>2. PolicyInv /\ ReplyInv /\ PreferencesInv /\ [Next]_vars
          => (PolicyInv /\ ReplyInv /\ PreferencesInv)'
  BY NextPolicyInv, NextPreferencesInv
<1>3. PreferencesInv => RestartKeepsPreferences
  BY DEF PreferencesInv
<1> QED
  BY <1>1, <1>2, <1>3, PTL DEF Spec

-----------------------------------------------------------------------------
(* Choices: an acknowledged choice takes the retry of automation with it,   *)
(* and none is scheduled while it stands.                                    *)

ChoiceInv == chosen => power_retry = None

\* The choice is forgotten, or the profile and the fan are as they were.
ChoiceKept == chosen /\ chosen' /\ reply' = None => SamePolicy

\* A tick at an unchanged source with nothing to retry leaves automation alone.
LEMMA PowerTickRests ==
    ASSUME NEW w \in Worlds, w.power_retry = None, NEW t \in PowerTick(w, w.on_ac)
    PROVE  t.w.state = w.state /\ t.w.power_retry = None
<1>1. ~AutomationDue(w, w.on_ac)
  BY DEF AutomationDue, Due
<1>2. t = [changed |-> FALSE, w |-> Sampled(w, w.on_ac)]
  BY <1>1, Zenon DEF PowerTick
<1>3. Sampled(w, w.on_ac).state = w.state /\ Sampled(w, w.on_ac).power_retry = None
  BY DEF Sampled, Worlds
<1> QED
  BY <1>2, <1>3

LEMMA TickChoice ==
    ASSUME PolicyInv, ChoiceInv, chosen, chosen', NEW c \in CpuReadings, NEW g \in GpuReadings,
           NEW source \in PowerReadings, TickWith(c, g, source)
    PROVE  power_retry' = None /\ state' = state
<1> DEFINE Quiet(reopened) == chosen' = (chosen /\ source = on_ac /\ ~reopened)
<1>1. PICK w0 \in IF suspended THEN Reapply(World) ELSE {World} :
          \E reopened \in Reopenings(w0) : \E w1 \in Recover(w0, reopened) :
          \E w2 \in Sense(w1, c, g) : \E t \in PowerTick(w2, source) :
             Become(t.w) /\ Quiet(reopened)
  BY Zenon DEF TickWith
<1> HIDE DEF Quiet
<1>2. PICK reopened \in Reopenings(w0) : \E w1 \in Recover(w0, reopened) :
          \E w2 \in Sense(w1, c, g) : \E t \in PowerTick(w2, source) :
             Become(t.w) /\ Quiet(reopened)
  BY <1>1
<1>3. PICK w1 \in Recover(w0, reopened) :
          \E w2 \in Sense(w1, c, g) : \E t \in PowerTick(w2, source) :
             Become(t.w) /\ Quiet(reopened)
  BY <1>2
<1>4. PICK w2 \in Sense(w1, c, g) : \E t \in PowerTick(w2, source) :
             Become(t.w) /\ Quiet(reopened)
  BY <1>3
<1>5. PICK t \in PowerTick(w2, source) : Become(t.w) /\ Quiet(reopened)
  BY <1>4
<1>6. /\ c \in Nat \cup {None} /\ g \in Nat \cup {None} /\ reopened \in BOOLEAN
      /\ source = on_ac /\ ~reopened
  BY <1>2, <1>5, InputsAssumption DEF Reopenings, Opens, Quiet
<1> DEFINE Stands(w) == w.state = state /\ w.on_ac = on_ac /\ w.power_retry = None
<1>7. /\ World \in Worlds /\ Justified(World) /\ (~suspended => Good(World))
      /\ Stands(World)
  BY WorldLemma, WorldKeeps DEF PolicyInv, IInv, ChoiceInv, World
<1>8. Good(w0) /\ Justified(w0) /\ Stands(w0)
  BY <1>1, <1>7, ReapplyLemma, ReapplyKeeps DEF SamePreferences, SamePower
<1>9. Good(w1) /\ Stands(w1)
  BY <1>3, <1>6, <1>8, RecoverLemma, RecoverKeeps DEF SamePreferences, SamePower
<1>10. Good(w2) /\ Stands(w2)
  BY <1>4, <1>6, <1>9, SenseLemma, SenseKeeps DEF SamePreferences, SamePower
<1>11. t.w.state = w2.state /\ t.w.power_retry = None
  BY <1>5, <1>6, <1>10, PowerTickRests DEF Good
<1> QED
  BY <1>5, <1>10, <1>11 DEF Become

LEMMA HandleChoice ==
    ASSUME PolicyInv, ChoiceInv, NEW cmd \in Commands, Handle(cmd)
    PROVE  ChoiceInv' /\ reply' # None
<1>1. PICK r \in HandleSet(World, cmd) :
          /\ Become(r.w) /\ reply' = r.note
          /\ chosen' = (r.w.state.auto_power /\ (chosen \/ (r.ok /\ Supersedes(cmd))))
  BY DEF Handle
<1>2. cmd \in Command /\ World \in Worlds /\ Justified(World) /\ World.power_retry = power_retry
  BY InputsAssumption, WorldLemma, WorldKeeps DEF PolicyInv, IInv, World
<1>3. /\ r.note \in Replies
      /\ r.w.power_retry = IF r.ok /\ Supersedes(cmd) THEN None ELSE power_retry
  BY <1>1, <1>2, HandleSetKeeps
<1> QED
  BY <1>1, <1>3, RepliesAssumption DEF Become, ChoiceInv

LEMMA StopChoice ==
    ASSUME PolicyInv, ChoiceInv, Stop
    PROVE  ChoiceInv' /\ state' = state
<1>1. PICK r \in HwRestoreAuto(World, state.perf_mode) : Become(MarkUnapplied(r.w))
  BY DEF Stop
<1>2. World \in Worlds /\ state.perf_mode \in PerfMode
  BY WorldLemma DEF PolicyInv, IInv, CoreType, AppliedState
<1>3. Same(World, MarkUnapplied(r.w))
  BY <1>1, <1>2, HwRestoreAutoLemma, HwRestoreAutoKeeps, MarkUnappliedKeeps, SameIsTransitive
<1>4. World.power_retry = power_retry /\ World.state = state
  BY DEF World
<1> QED
  BY <1>1, <1>3, <1>4 DEF Become, Same, SamePreferences, SamePower, ChoiceInv, Stop

THEOREM NextChoiceInv == PolicyInv /\ ChoiceInv /\ [Next]_vars => ChoiceInv' /\ ChoiceKept
<1> SUFFICES ASSUME PolicyInv, ChoiceInv, [Next]_vars PROVE ChoiceInv' /\ ChoiceKept
  OBVIOUS
<1>1. ASSUME ~chosen' PROVE ChoiceInv' /\ ChoiceKept
  BY <1>1 DEF ChoiceInv, ChoiceKept
<1>2. CASE Start
  BY <1>1, <1>2 DEF Start
<1>3. ASSUME NEW c \in CpuReadings, NEW g \in GpuReadings, NEW source \in PowerReadings,
             TickWith(c, g, source)
      PROVE  ChoiceInv' /\ ChoiceKept
  <2>1. chosen' => chosen
    BY <1>3 DEF TickWith
  <2> QED
    BY <1>3, <2>1, TickChoice DEF ChoiceInv, ChoiceKept, SamePolicy
<1>4. CASE Suspend
  BY <1>4 DEF Suspend, coreVars, ChoiceInv, ChoiceKept, SamePolicy
<1>5. CASE Elapse
  BY <1>5 DEF Elapse, CountDown, ChoiceInv, ChoiceKept, SamePolicy
<1>6. CASE Crash \/ Exit \/ Abandon
  BY <1>1, <1>6 DEF Crash, Exit, Abandon, Leave
<1>7. CASE Stop
  BY <1>7, StopChoice DEF ChoiceKept, SamePolicy
<1>8. CASE StopPost \/ Stabilise \/ UNCHANGED vars
  BY <1>8 DEF StopPost, Stabilise, vars, coreVars, ChoiceInv, ChoiceKept, SamePolicy
<1>9. ASSUME NEW cmd \in Commands, Handle(cmd) PROVE ChoiceInv' /\ ChoiceKept
  BY <1>9, HandleChoice DEF ChoiceKept
<1> QED
  BY <1>2, <1>3, <1>4, <1>5, <1>6, <1>7, <1>8, <1>9 DEF Next, Tick

\* A choice outlives the retries of automation (core.rs handle_set, power_tick_at):
\* for every model, profile and history of failures, what a client was told is
\* saved is not overwritten while the power source stays and the EC stays open.
THEOREM ChoicesAreRespected == Spec => ChoiceOutlivesRetries
<1>1. Init => PolicyInv /\ ReplyInv /\ ChoiceInv
  BY InitPolicyInv DEF Init, ChoiceInv
<1>2. PolicyInv /\ ReplyInv /\ ChoiceInv /\ [Next]_vars
          => (PolicyInv /\ ReplyInv /\ ChoiceInv)'
  BY NextPolicyInv, NextChoiceInv
<1>3. PolicyInv /\ ReplyInv /\ ChoiceInv /\ [Next]_vars
          => [chosen /\ chosen' /\ reply' = None => SamePolicy]_vars
  BY NextChoiceInv DEF ChoiceKept
<1> QED
  BY <1>1, <1>2, <1>3, PTL DEF Spec, ChoiceOutlivesRetries

-----------------------------------------------------------------------------
(* The core implements PreferenceStore: whatever it does to the hardware,   *)
(* its preferences and the file are one register.                           *)

Store == INSTANCE PreferenceStore WITH memory <- state, file <- disk

\* The abstract module computes preferences as this one does.
LEMMA SameFunctions ==
    /\ \A p, st : Store!SanitizeLoadedState(p, st) = SanitizeLoadedState(p, st)
    /\ \A p, st, s : Store!AutomationState(p, st, s) = AutomationState(p, st, s)
    /\ \A p, s, st, cmd : Store!Desired(p, s, st, cmd) = Desired(p, s, st, cmd)
    /\ Store!Rejected = Rejected
<1>1. /\ Store!AutoFan = AutoFan /\ Store!Rejected = Rejected
      /\ \A rpm : Store!ManualFan(rpm) = ManualFan(rpm)
      /\ \A ps : Store!CurveFan(ps) = CurveFan(ps)
      /\ \A x, lo, hi : Store!Clamp(x, lo, hi) = Clamp(x, lo, hi)
  BY DEF Store!AutoFan, AutoFan, Store!Rejected, Rejected, Store!ManualFan, ManualFan,
         Store!CurveFan, CurveFan, Store!Clamp, Clamp
<1>2. \A rpm, lo, hi : Store!NormalizeRpm(rpm, lo, hi) = NormalizeRpm(rpm, lo, hi)
  BY <1>1 DEF Store!NormalizeRpm, NormalizeRpm
<1>3. \A ps : Store!ValidCurve(ps) = ValidCurve(ps)
  BY DEF Store!ValidCurve, ValidCurve, Store!MinCurvePoints, MinCurvePoints,
         Store!MaxCurvePoints, MaxCurvePoints
<1>4. \A ps : Store!NormalizePoints(ps) = NormalizePoints(ps)
  BY <1>2 DEF Store!NormalizePoints, NormalizePoints
<1>5. \A p, fan : Store!NormalizeFan(p, fan) = NormalizeFan(p, fan)
  BY <1>1, <1>2, <1>3, <1>4 DEF Store!NormalizeFan, NormalizeFan
<1>6. /\ \A p, fan : Store!FanOrAuto(p, fan) = FanOrAuto(p, fan)
      /\ \A ps : Store!SavedCurve(ps) = SavedCurve(ps)
      /\ \A b, a : Store!CapBoost(b, a) = CapBoost(b, a)
  BY <1>1, <1>5 DEF Store!FanOrAuto, FanOrAuto, Store!SavedCurve, SavedCurve,
                    Store!CapBoost, CapBoost
<1>7. /\ \A st : Store!SanitizeCommon(st) = SanitizeCommon(st)
      /\ \A st : Store!SanitizeForModel(st) = SanitizeForModel(st)
  BY <1>1, <1>6 DEF Store!SanitizeCommon, SanitizeCommon,
                    Store!SanitizeForModel, SanitizeForModel
<1>8. \A p, st : Store!SanitizeLoadedState(p, st) = SanitizeLoadedState(p, st)
  BY <1>7 DEF Store!SanitizeLoadedState, SanitizeLoadedState
<1>9. /\ \A st, fan : Store!WithFan(st, fan) = WithFan(st, fan)
      /\ \A p, st : Store!CapCpuBoost(p, st) = CapCpuBoost(p, st)
      /\ \A st, s : Store!SourceProfile(st, s) = SourceProfile(st, s)
      /\ \A st, s : Store!SourceFan(st, s) = SourceFan(st, s)
      /\ \A o, old : Store!OrKeep(o, old) = OrKeep(o, old)
  BY <1>6 DEF Store!WithFan, WithFan, Store!CapCpuBoost, CapCpuBoost,
              Store!SourceProfile, SourceProfile, Store!SourceFan, SourceFan,
              Store!OrKeep, OrKeep
<1>10. \A p, st, s : Store!AutomationState(p, st, s) = AutomationState(p, st, s)
  BY <1>9 DEF Store!AutomationState, AutomationState
<1>11. /\ \A p, st, cmd : Store!SetPerfModeState(p, st, cmd) = SetPerfModeState(p, st, cmd)
       /\ \A p, st, cmd : Store!SetFanState(p, st, cmd) = SetFanState(p, st, cmd)
       /\ \A p, st, cmd : Store!SetBhoState(p, st, cmd) = SetBhoState(p, st, cmd)
  BY <1>1, <1>5, <1>9 DEF Store!SetPerfModeState, SetPerfModeState,
         Store!SetFanState, SetFanState, Store!SetBhoState, SetBhoState
<1>12. \A p, st, cmd : Store!SetLightingState(p, st, cmd) = SetLightingState(p, st, cmd)
  BY <1>1, <1>9 DEF Store!SetLightingState, SetLightingState
<1>13. ASSUME NEW p, NEW s, NEW st, NEW cmd
       PROVE  Store!SetAutoPowerState(p, s, st, cmd) = SetAutoPowerState(p, s, st, cmd)
  <2> DEFINE ac == NormalizeFan(p, cmd.ac_fan)
             battery == NormalizeFan(p, cmd.battery_fan)
             policy == [st EXCEPT !.auto_power = cmd.enabled,
                                  !.ac_profile = cmd.ac_profile,
                                  !.battery_profile = cmd.battery_profile,
                                  !.ac_fan = ac, !.battery_fan = battery]
             adopted == WithFan([policy EXCEPT !.perf_mode = SourceProfile(policy, s)],
                                SourceFan(policy, s))
  <2>1. SetAutoPowerState(p, s, st, cmd) =
            CASE Rejected \in {ac, battery} -> Rejected
              [] Rejected \notin {ac, battery} /\ cmd.enabled /\ s # None -> adopted
              [] OTHER -> policy
    BY Zenon DEF SetAutoPowerState
  <2>2. Store!SetAutoPowerState(p, s, st, cmd) =
            CASE Rejected \in {ac, battery} -> Rejected
              [] Rejected \notin {ac, battery} /\ cmd.enabled /\ s # None -> adopted
              [] OTHER -> policy
    <3> DEFINE store_ac == Store!NormalizeFan(p, cmd.ac_fan)
               store_battery == Store!NormalizeFan(p, cmd.battery_fan)
               store_policy == [st EXCEPT !.auto_power = cmd.enabled,
                                  !.ac_profile = cmd.ac_profile,
                                  !.battery_profile = cmd.battery_profile,
                                  !.ac_fan = store_ac, !.battery_fan = store_battery]
               store_adopted == Store!WithFan(
                    [store_policy EXCEPT !.perf_mode = Store!SourceProfile(store_policy, s)],
                    Store!SourceFan(store_policy, s))
    <3>1. store_ac = ac /\ store_battery = battery
      BY <1>5
    <3>2. store_policy = policy
      BY <3>1, Zenon
    <3> HIDE DEF policy, store_policy
    <3>3. store_adopted = adopted
      BY <1>9, <3>2, Zenon
    <3>4. Store!Rejected = Rejected
      BY <1>1
    <3>5. Store!SetAutoPowerState(p, s, st, cmd) =
            CASE Store!Rejected \in {store_ac, store_battery} -> Store!Rejected
              [] Store!Rejected \notin {store_ac, store_battery} /\ cmd.enabled /\ s # None
                    -> store_adopted
              [] OTHER -> store_policy
      BY Zenon DEF Store!SetAutoPowerState, store_policy
    <3> HIDE DEF ac, battery, store_ac, store_battery, adopted, store_adopted
    <3> QED
      BY <3>1, <3>2, <3>3, <3>4, <3>5
  <2> QED
    BY <2>1, <2>2
<1>14. \A p, s, st, cmd : Store!Desired(p, s, st, cmd) = Desired(p, s, st, cmd)
  BY <1>11, <1>12, <1>13 DEF Store!Desired, Desired
<1> QED
  BY <1>1, <1>8, <1>10, <1>14

\* next is what a command makes of preferences m, or automation.
AskedOf(m, next) ==
    \E cmd \in Commands, source \in BOOLEAN \cup {None} :
        next = Desired(TRUE, source, m, cmd) /\ next # Rejected
AutomatedFrom(m, next) ==
    m.auto_power /\ \E source \in BOOLEAN : next = AutomationState(TRUE, m, source)

\* The preferences, in memory and in the file, become next.
Stored(w, next) == w.state = next /\ w.disk = next

\* Nothing is committed without a laptop.
LEMMA CommitNeedsLaptop ==
    ASSUME NEW w \in Worlds, NEW next \in AppliedState, NEW r \in CommitState(w, next),
           ~SamePreferences(w, r.w)
    PROVE  w.hw.live /\ Stored(r.w, next)
<1>1. Stored(r.w, next) /\ r.ok
  BY CommitStateKeeps DEF Stored
<1>2. PICK q \in ApplyHardwareState(w, next) : q.ok
  <2>1. PICK q \in ApplyHardwareState(w, next) :
            r \in IF ~q.ok THEN {q}
                  ELSE UNION {IF saved
                              THEN {[ok |-> TRUE, note |-> "saved", w |-> v] :
                                       v \in Settle([q.w EXCEPT !.disk = next, !.state = next])}
                              ELSE UndoUnsaved(q.w) : saved \in Saves}
    BY Zenon DEF CommitState
  <2> QED
    BY <1>1, <2>1
<1>3. PICK p \in HwApply(w, next) :
          q \in CASE p.ok -> {[ok |-> TRUE, note |-> "applied", w |-> MarkApplied(p.w)]}
                  [] ~p.ok /\ w.applied -> RollBack(p.w)
                  [] OTHER -> FallBack(p.w)
  BY Zenon DEF ApplyHardwareState
<1>4. ~p.ok => q \in RollBack(p.w) \/ q \in FallBack(p.w)
  BY <1>3, Zenon
<1>5. q \in FallBack(p.w) => ~q.ok
  BY DEF FallBack
<1>6. q \in RollBack(p.w) => ~q.ok
  BY DEF RollBack, FallBack
<1>7. p.ok
  BY <1>2, <1>4, <1>5, <1>6
<1>8. w.hw.live
  BY <1>7, HwApplyKeeps
<1> QED
  BY <1>1, <1>8

LEMMA SanitizeStores ==
    ASSUME NEW w \in Worlds, NEW v \in Sanitize(w)
    PROVE  /\ v.state = SanitizeLoadedState(w.hw.live, w.state)
           /\ v.disk \in {w.disk, v.state}
<1> DEFINE st == SanitizeLoadedState(w.hw.live, w.state)
<1>1. \/ st = w.state /\ v = w
      \/ \E saved \in Saves : v = [w EXCEPT !.state = st, !.disk = IF saved THEN st ELSE @]
  BY DEF Sanitize
<1> HIDE DEF st
<1>2. v.state = st /\ v.disk \in {w.disk, st}
  BY <1>1 DEF Worlds
<1> QED
  BY <1>2 DEF st

\* A laptop that was reopened has its preferences normalised; a retry has not.
LEMMA RecoverStores ==
    ASSUME NEW w, Good(w), Justified(w), NEW reopened \in BOOLEAN,
           NEW v \in Recover(w, reopened)
    PROVE  IF reopened
           THEN v.state = SanitizeLoadedState(TRUE, w.state) /\ v.disk \in {w.disk, v.state}
           ELSE SamePreferences(w, v)
<1>1. CASE ~reopened
  BY <1>1, RecoverKeeps
<1>2. CASE reopened
  <2> DEFINE x == [w EXCEPT !.hw.live = TRUE]
             m == MarkUnapplied(x)
  <2>1. PICK u \in Sanitize(m) : v \in Reapply([u EXCEPT !.on_ac = None, !.power_retry = None])
    BY <1>2 DEF Recover, TakeOver
  <2>2. x \in Worlds /\ x.hw.live = TRUE /\ x.state = w.state /\ x.disk = w.disk
    BY ZenonT(60) DEF Good, Worlds, HwType
  <2> HIDE DEF x
  <2>3. m \in Worlds /\ m.state = w.state /\ m.disk = w.disk /\ m.hw.live = TRUE
        /\ ~m.applied
    <3>1. m \in Worlds /\ ~m.applied /\ SamePreferences(x, m)
      BY <2>2, MarkUnappliedLemma, MarkUnappliedKeeps DEF Good, Same
    <3>2. m.hw = x.hw
      BY <2>2 DEF MarkUnapplied, Worlds
    <3> QED
      BY <2>2, <3>1, <3>2 DEF SamePreferences
  <2> HIDE DEF m
  <2>4. /\ u \in Worlds /\ u.state = SanitizeLoadedState(TRUE, w.state)
        /\ u.disk \in {w.disk, u.state}
    BY <2>1, <2>2, <2>3, SanitizeLemma, SanitizeStores
  <2> DEFINE y == [u EXCEPT !.on_ac = None, !.power_retry = None]
  <2>5. y \in Worlds /\ y.state = u.state /\ y.disk = u.disk
    BY <2>4 DEF Worlds
  <2>6. v \in Reapply(y)
    BY <2>1
  <2> HIDE DEF y
  <2> QED
    BY <1>2, <2>4, <2>5, <2>6, ReapplyKeeps DEF SamePreferences
<1> QED
  BY <1>1, <1>2

LEMMA PowerTickStores ==
    ASSUME NEW w \in Worlds, NEW source \in BOOLEAN \cup {None}, NEW t \in PowerTick(w, source)
    PROVE  \/ SamePreferences(w, t.w)
           \/ \E next : AutomatedFrom(w.state, next) /\ Stored(t.w, next)
<1> DEFINE v == Sampled(w, source)
           next == AutomationState(w.hw.live, w.state, source)
<1>1. PICK retry \in {None, w.power_retry} :
          v = [w EXCEPT !.on_ac = source, !.power_retry = retry]
  BY DEF Sampled, Worlds
<1>2. \/ t = [changed |-> FALSE, w |-> v]
      \/ t = [changed |-> FALSE, w |-> [v EXCEPT !.power_retry = None]]
      \/ AutomationDue(w, source) /\ t \in CommitAutomation(v, next)
  BY Zenon DEF PowerTick
<1>3. v \in Worlds /\ v.state = w.state /\ v.disk = w.disk /\ v.hw = w.hw
  BY <1>1 DEF Worlds
<1> HIDE DEF v
<1>4. CASE t = [changed |-> FALSE, w |-> v]
  BY <1>3, <1>4 DEF SamePreferences
<1>5. CASE t = [changed |-> FALSE, w |-> [v EXCEPT !.power_retry = None]]
  <2>1. t.w.state = v.state /\ t.w.disk = v.disk
    BY <1>3, <1>5 DEF Worlds
  <2> QED
    BY <1>3, <2>1 DEF SamePreferences
<1>6. CASE AutomationDue(w, source) /\ t \in CommitAutomation(v, next)
  <2>1. source \in BOOLEAN /\ w.state.auto_power
    BY <1>6 DEF AutomationDue
  <2>2. next \in AppliedState
    BY <2>1, AutomationStateType DEF Worlds, HwType
  <2>3. w.hw.live => AutomatedFrom(w.state, next)
    <3>1. w.hw.live \in BOOLEAN
      BY DEF Worlds, HwType
    <3> QED
      BY <2>1, <3>1 DEF AutomatedFrom
  <2> HIDE DEF next
  <2>4. PICK r \in CommitState(v, next) :
            t = [changed |-> r.ok,
                 w |-> [r.w EXCEPT !.power_retry = IF r.ok THEN None ELSE RetryTicks]]
    BY <1>6 DEF CommitAutomation
  <2>5. r.w \in Worlds
    BY <1>3, <2>2, CommitStateLemma DEF Good
  <2> DEFINE x == r.w
             y == [x EXCEPT !.power_retry = IF r.ok THEN None ELSE RetryTicks]
  <2>6. t.w = y
    BY <2>4
  <2> HIDE DEF x
  <2>7. y.state = x.state /\ y.disk = x.disk
    BY <2>5 DEF Worlds, x
  <2> HIDE DEF y
  <2>8. SamePreferences(v, r.w) \/ (w.hw.live /\ Stored(r.w, next))
    BY <1>3, <2>2, CommitNeedsLaptop
  <2> QED
    BY <1>3, <2>3, <2>6, <2>7, <2>8 DEF x, SamePreferences, Stored
<1> QED
  BY <1>2, <1>4, <1>5, <1>6

LEMMA HandleSetStores ==
    ASSUME NEW w \in Worlds, NEW cmd \in Commands, NEW r \in HandleSet(w, cmd)
    PROVE  \/ SamePreferences(w, r.w)
           \/ \E next : AskedOf(w.state, next) /\ Stored(r.w, next)
<1> DEFINE next == Desired(w.hw.live, w.on_ac, w.state, cmd)
<1>1. /\ next \in AppliedState \cup {Rejected}
      /\ w.hw.live \in BOOLEAN /\ w.on_ac \in BOOLEAN \cup {None}
  BY DesiredType, InputsAssumption DEF Worlds, HwType
<1>2. \/ r = [ok |-> FALSE, note |-> "rejected", w |-> w]
      \/ /\ next # Rejected
         /\ \E q \in CommitState(w, next) :
               r = [q EXCEPT !.w.power_retry = IF q.ok /\ Supersedes(cmd) THEN None ELSE @]
  BY DEF HandleSet
<1>3. next # Rejected /\ w.hw.live => AskedOf(w.state, next)
  BY <1>1 DEF AskedOf
<1> HIDE DEF next
<1>4. CASE r = [ok |-> FALSE, note |-> "rejected", w |-> w]
  BY <1>4 DEF SamePreferences
<1>5. CASE /\ next # Rejected
           /\ \E q \in CommitState(w, next) :
                 r = [q EXCEPT !.w.power_retry = IF q.ok /\ Supersedes(cmd) THEN None ELSE @]
  <2>1. PICK q \in CommitState(w, next) :
            r = [q EXCEPT !.w.power_retry = IF q.ok /\ Supersedes(cmd) THEN None ELSE @]
    BY <1>5
  <2>2. q \in Outcomes /\ q.w \in Worlds
    BY <1>1, <1>5, CommitStateLemma DEF Good
  <2> DEFINE x == q.w
             y == [x EXCEPT !.power_retry = IF q.ok /\ Supersedes(cmd) THEN None ELSE @]
  <2>3. r.w = y
    BY <2>1, <2>2 DEF Outcomes
  <2>4. x \in Worlds
    BY <2>2
  <2> HIDE DEF x
  <2>5. y.state = x.state /\ y.disk = x.disk
    BY <2>4 DEF Worlds
  <2> HIDE DEF y
  <2>6. SamePreferences(w, q.w) \/ (w.hw.live /\ Stored(q.w, next))
    BY <1>1, <1>5, CommitNeedsLaptop
  <2> QED
    BY <1>3, <1>5, <2>3, <2>5, <2>6 DEF x, SamePreferences, Stored
<1> QED
  BY <1>2, <1>4, <1>5

\* A process that is not alive has nothing in memory but the file.
IdleInv == ~Alive => state = disk

StoreStep == [Store!StoreNext]_<<state, disk>>

\* The abstract steps, in the terms of the lemmas above.
LEMMA StoreSteps ==
    /\ \A next : Store!Store(next) <=> state' = next /\ disk' = next
    /\ \A next : AskedOf(state, next) /\ Store!Store(next) => StoreStep
    /\ \A next : AutomatedFrom(state, next) /\ Store!Store(next) => StoreStep
    /\ \A next : AutomatedFrom(SanitizeLoadedState(TRUE, state), next) /\ Store!Store(next)
                     => StoreStep
    /\ \A device \in BOOLEAN :
          state' = SanitizeLoadedState(device, state) /\ disk' \in {disk, state'} => StoreStep
    /\ Store!Store(disk) => StoreStep
    /\ UNCHANGED <<state, disk>> => StoreStep
<1>1. \A next : Store!Store(next) <=> state' = next /\ disk' = next
  BY DEF Store!Store
<1>2. ASSUME NEW next, AskedOf(state, next), Store!Store(next) PROVE StoreStep
  <2>1. PICK cmd \in Commands, source \in BOOLEAN \cup {None} :
            next = Desired(TRUE, source, state, cmd) /\ next # Rejected
    BY <1>2 DEF AskedOf
  <2>2. next = Store!Desired(TRUE, source, state, cmd) /\ next # Store!Rejected
    BY <2>1, SameFunctions
  <2>3. Store!Ask(cmd)
    BY <1>2, <2>2, Zenon DEF Store!Ask
  <2> QED
    BY <2>3 DEF StoreStep, Store!StoreNext
<1>3. ASSUME NEW m, NEW next, AutomatedFrom(m, next), Store!Store(next) PROVE Store!Automate(m)
  <2>1. PICK source \in BOOLEAN : next = Store!AutomationState(TRUE, m, source)
    BY <1>3, SameFunctions DEF AutomatedFrom
  <2> QED
    BY <1>3, <2>1 DEF AutomatedFrom, Store!Automate
<1>4. ASSUME NEW next, AutomatedFrom(state, next), Store!Store(next) PROVE StoreStep
  BY <1>3, <1>4 DEF StoreStep, Store!StoreNext
<1>5. ASSUME NEW next, AutomatedFrom(SanitizeLoadedState(TRUE, state), next), Store!Store(next)
      PROVE  StoreStep
  <2>1. Store!Automate(Store!SanitizeLoadedState(TRUE, state))
    BY <1>3, <1>5, SameFunctions
  <2> QED
    BY <2>1 DEF StoreStep, Store!StoreNext
<1>6. ASSUME NEW device \in BOOLEAN, state' = SanitizeLoadedState(device, state),
             disk' \in {disk, state'}
      PROVE  StoreStep
  <2>1. state' = Store!SanitizeLoadedState(device, state)
    BY <1>6, SameFunctions
  <2>2. Store!Normalise
    BY <1>6, <2>1, Zenon DEF Store!Normalise
  <2> QED
    BY <2>2 DEF StoreStep, Store!StoreNext
<1>7. Store!Store(disk) => StoreStep
  BY DEF StoreStep, Store!StoreNext
<1>8. UNCHANGED <<state, disk>> => StoreStep
  BY DEF StoreStep
<1> QED
  BY <1>1, <1>2, <1>4, <1>5, <1>6, <1>7, <1>8

LEMMA TickStores ==
    ASSUME PolicyInv, NEW c \in CpuReadings, NEW g \in GpuReadings,
           NEW source \in PowerReadings, TickWith(c, g, source)
    PROVE  StoreStep
<1>1. PICK w0 \in IF suspended THEN Reapply(World) ELSE {World} :
          \E reopened \in Reopenings(w0) : \E w1 \in Recover(w0, reopened) :
          \E w2 \in Sense(w1, c, g) : \E t \in PowerTick(w2, source) : Become(t.w)
  BY Zenon DEF TickWith
<1>2. PICK reopened \in Reopenings(w0) : \E w1 \in Recover(w0, reopened) :
          \E w2 \in Sense(w1, c, g) : \E t \in PowerTick(w2, source) : Become(t.w)
  BY <1>1
<1>3. PICK w1 \in Recover(w0, reopened) :
          \E w2 \in Sense(w1, c, g) : \E t \in PowerTick(w2, source) : Become(t.w)
  BY <1>2
<1>4. PICK w2 \in Sense(w1, c, g) : \E t \in PowerTick(w2, source) : Become(t.w)
  BY <1>3
<1>5. PICK t \in PowerTick(w2, source) : Become(t.w)
  BY <1>4
<1>6. /\ c \in Nat \cup {None} /\ g \in Nat \cup {None} /\ source \in BOOLEAN \cup {None}
      /\ reopened \in BOOLEAN
  BY <1>2, InputsAssumption DEF Reopenings, Opens
<1>7. /\ World \in Worlds /\ Justified(World) /\ (~suspended => Good(World))
      /\ World.state = state /\ World.disk = disk
  BY WorldLemma, WorldKeeps DEF PolicyInv, IInv
<1>8. Good(w0) /\ Justified(w0) /\ w0.state = state /\ w0.disk = disk
  BY <1>1, <1>7, ReapplyLemma, ReapplyKeeps DEF SamePreferences
<1>9. /\ Good(w1)
      /\ IF reopened
         THEN w1.state = SanitizeLoadedState(TRUE, state) /\ w1.disk \in {disk, w1.state}
         ELSE w1.state = state /\ w1.disk = disk
  <2>1. Good(w1)
    BY <1>3, <1>6, <1>8, RecoverLemma DEF Good
  <2>2. IF reopened
        THEN w1.state = SanitizeLoadedState(TRUE, w0.state) /\ w1.disk \in {w0.disk, w1.state}
        ELSE SamePreferences(w0, w1)
    BY <1>3, <1>6, <1>8, RecoverStores
  <2> QED
    BY <1>8, <2>1, <2>2 DEF SamePreferences
<1>10. Good(w2) /\ w2.state = w1.state /\ w2.disk = w1.disk
  BY <1>4, <1>6, <1>9, SenseLemma, SenseKeeps DEF SamePreferences
<1>11. /\ w2 \in Worlds /\ state' = t.w.state /\ disk' = t.w.disk
  BY <1>5, <1>10 DEF Good, Become
<1>12. CASE SamePreferences(w2, t.w)
  <2>1. state' = w1.state /\ disk' = w1.disk
    BY <1>10, <1>11, <1>12 DEF SamePreferences
  <2>2. CASE reopened
    <3>1. state' = SanitizeLoadedState(TRUE, state) /\ disk' \in {disk, state'}
      BY <1>9, <2>1, <2>2
    <3> QED
      BY <3>1, StoreSteps
  <2>3. CASE ~reopened
    BY <1>9, <2>1, <2>3, StoreSteps
  <2> QED
    BY <2>2, <2>3
<1>13. CASE \E next : AutomatedFrom(w2.state, next) /\ Stored(t.w, next)
  <2>1. PICK next : AutomatedFrom(w2.state, next) /\ Stored(t.w, next)
    BY <1>13
  <2>2. Store!Store(next)
    BY <1>11, <2>1, StoreSteps DEF Stored
  <2>3. w2.state \in {state, SanitizeLoadedState(TRUE, state)}
    BY <1>9, <1>10
  <2> QED
    BY <2>1, <2>2, <2>3, StoreSteps
<1> QED
  BY <1>5, <1>6, <1>11, <1>12, <1>13, PowerTickStores

LEMMA HandleStores ==
    ASSUME PolicyInv, NEW cmd \in Commands, Handle(cmd)
    PROVE  StoreStep
<1>1. PICK r \in HandleSet(World, cmd) : Become(r.w)
  BY DEF Handle
<1>2. World \in Worlds /\ World.state = state /\ World.disk = disk
  BY WorldLemma, WorldKeeps DEF PolicyInv, IInv
<1>3. state' = r.w.state /\ disk' = r.w.disk
  BY <1>1 DEF Become
<1>4. CASE SamePreferences(World, r.w)
  BY <1>2, <1>3, <1>4, StoreSteps DEF SamePreferences
<1>5. CASE \E next : AskedOf(World.state, next) /\ Stored(r.w, next)
  BY <1>2, <1>3, <1>5, StoreSteps DEF Stored
<1> QED
  BY <1>1, <1>2, <1>4, <1>5, HandleSetStores

LEMMA StartStores ==
    ASSUME PolicyInv, IdleInv, Start
    PROVE  StoreStep
<1> DEFINE Opened(o) == [Blank(hw, disk) EXCEPT !.hw.live = o]
<1>1. PICK opened \in Opens : \E w \in Sanitize(Opened(opened)) : \E r \in Reapply(w) : Become(r)
  BY DEF Start
<1> DEFINE x == Opened(opened)
<1>2. /\ x \in Worlds /\ ~x.applied /\ x.hw.live = opened
      /\ x.state = disk /\ x.disk = disk /\ opened \in BOOLEAN
  <2>1. opened \in BOOLEAN
    BY <1>1 DEF Opens
  <2>2. Blank(hw, disk) \in Worlds /\ ~Blank(hw, disk).applied
    BY BlankLemma DEF PolicyInv, IInv, CoreType, Good
  <2>3. x.state = disk /\ x.disk = disk
    BY DEF Blank
  <2> QED
    BY <2>1, <2>2, <2>3 DEF Worlds, HwType
<1>3. PICK w \in Sanitize(x) : \E r \in Reapply(w) : Become(r)
  BY <1>1
<1>4. PICK r \in Reapply(w) : Become(r)
  BY <1>3
<1> HIDE DEF x
<1>5. /\ w \in Worlds /\ w.state = SanitizeLoadedState(opened, disk)
      /\ w.disk \in {disk, w.state}
  BY <1>2, <1>3, SanitizeLemma, SanitizeStores
<1>6. state' = w.state /\ disk' = w.disk
  BY <1>4, <1>5, ReapplyKeeps DEF Become, SamePreferences
<1>7. state = disk
  BY DEF Start, Alive, IdleInv
<1> QED
  BY <1>2, <1>5, <1>6, <1>7, StoreSteps

\* What dies with the process leaves the file, or what was being saved.
LEMMA LeaveStores ==
    ASSUME PolicyInv, NEW h, NEW d \in {disk} \cup InFlight, NEW next, Leave(h, d, next)
    PROVE  StoreStep
<1>1. state' = d /\ disk' = d
  BY DEF Leave, Become, Blank
<1>2. Store!Store(d)
  BY <1>1, StoreSteps
<1>3. on_ac \in BOOLEAN \cup {None}
  BY DEF PolicyInv, IInv, CoreType
<1>4. CASE d = disk
  BY <1>2, <1>4, StoreSteps
<1>5. CASE d \in InFlight /\ hw.live
  <2>1. \/ d \in {Desired(TRUE, on_ac, state, cmd) : cmd \in Commands} \ {Rejected}
        \/ d \in {AutomationState(TRUE, state, source) :
                     source \in {s \in BOOLEAN : AutomationDue(World, s)}}
    BY <1>5 DEF InFlight
  <2>2. CASE d \in {Desired(TRUE, on_ac, state, cmd) : cmd \in Commands} \ {Rejected}
    <3>1. AskedOf(state, d)
      BY <1>3, <2>2 DEF AskedOf
    <3> QED
      BY <1>2, <3>1, StoreSteps
  <2>3. CASE d \in {AutomationState(TRUE, state, source) :
                       source \in {s \in BOOLEAN : AutomationDue(World, s)}}
    <3>1. PICK source \in BOOLEAN :
              d = AutomationState(TRUE, state, source) /\ AutomationDue(World, source)
      BY <2>3
    <3>2. state.auto_power
      BY <3>1 DEF AutomationDue, World
    <3>3. AutomatedFrom(state, d)
      BY <3>1, <3>2 DEF AutomatedFrom
    <3> QED
      BY <1>2, <3>3, StoreSteps
  <2> QED
    BY <2>1, <2>2, <2>3
<1>6. CASE d \in InFlight /\ ~hw.live
  <2> DEFINE taken == SanitizeLoadedState(TRUE, state)
  <2>1. \/ d = taken
        \/ d \in {AutomationState(TRUE, taken, source) :
                     source \in {s \in BOOLEAN : taken.auto_power}}
    BY <1>6 DEF InFlight
  <2>2. CASE d = taken
    <3>1. state' = taken /\ disk' \in {disk, state'}
      BY <1>1, <2>2
    <3> QED
      BY <3>1, StoreSteps
  <2>3. CASE d \in {AutomationState(TRUE, taken, source) :
                       source \in {s \in BOOLEAN : taken.auto_power}}
    <3>1. AutomatedFrom(taken, d)
      BY <2>3 DEF AutomatedFrom
    <3> QED
      BY <1>2, <3>1, StoreSteps
  <2> QED
    BY <2>1, <2>2, <2>3
<1> QED
  BY <1>4, <1>5, <1>6

THEOREM NextStores == PolicyInv /\ IdleInv /\ [Next]_vars => StoreStep /\ IdleInv'
<1> SUFFICES ASSUME PolicyInv, IdleInv, [Next]_vars PROVE StoreStep /\ IdleInv'
  OBVIOUS
<1>1. ASSUME Alive', StoreStep PROVE StoreStep /\ IdleInv'
  BY <1>1 DEF IdleInv
<1>2. ASSUME UNCHANGED <<state, disk>>, Alive' <=> Alive PROVE StoreStep /\ IdleInv'
  BY <1>2, StoreSteps DEF IdleInv
<1>3. ASSUME NEW h, NEW d \in {disk} \cup InFlight, NEW next, Leave(h, d, next)
      PROVE  StoreStep /\ IdleInv'
  BY <1>3, LeaveStores DEF Leave, Become, Blank, IdleInv
<1>4. CASE Start
  BY <1>1, <1>4, StartStores DEF Start, Alive
<1>5. ASSUME NEW c \in CpuReadings, NEW g \in GpuReadings, NEW source \in PowerReadings,
             TickWith(c, g, source)
      PROVE  StoreStep /\ IdleInv'
  <2>1. Alive'
    BY <1>5 DEF TickWith, Alive
  <2> QED
    BY <1>1, <1>5, <2>1, TickStores
<1>6. CASE Suspend \/ Elapse \/ Stabilise \/ UNCHANGED vars
  BY <1>2, <1>6 DEF Suspend, Elapse, Stabilise, vars, coreVars, Alive
<1>7. CASE Crash
  BY <1>3, <1>7 DEF Crash
<1>8. CASE Abandon
  BY <1>3, <1>8 DEF Abandon
<1>9. CASE Exit
  BY <1>3, <1>9 DEF Exit
<1>10. CASE Stop
  <2>1. UNCHANGED <<state, disk>>
    <3>1. PICK r \in HwRestoreAuto(World, state.perf_mode) : Become(MarkUnapplied(r.w))
      BY <1>10 DEF Stop
    <3>2. World \in Worlds /\ state.perf_mode \in PerfMode
      BY WorldLemma DEF PolicyInv, IInv, CoreType, AppliedState
    <3>3. SamePreferences(World, MarkUnapplied(r.w))
      BY <3>1, <3>2, HwRestoreAutoLemma, HwRestoreAutoKeeps, MarkUnappliedKeeps,
         SameIsTransitive DEF Same
    <3> QED
      BY <3>1, <3>3, WorldKeeps DEF Become, SamePreferences
  <2> QED
    BY <1>2, <1>10, <2>1 DEF Stop, Alive
<1>11. CASE StopPost
  BY <1>2, <1>11 DEF StopPost, coreVars, Alive
<1>12. ASSUME NEW cmd \in Commands, Handle(cmd) PROVE StoreStep /\ IdleInv'
  BY <1>1, <1>12, HandleStores DEF Handle, Alive
<1> QED
  BY <1>4, <1>5, <1>6, <1>7, <1>8, <1>9, <1>10, <1>11, <1>12 DEF Next, Tick

\* The core implements PreferenceStore (core.rs commit_state, handle_set, power_tick_at,
\* sanitize_loaded_state; state.rs save): whatever the hardware does, a command
\* or automation replaces the preferences and the file at once, and nothing
\* but these, normalisation and a restart ever touches either.
THEOREM PreferencesAreARegister == Spec => Store!StoreSpec
<1>1. Init => PolicyInv /\ ReplyInv /\ IdleInv /\ state = disk
  BY InitPolicyInv DEF Init, IdleInv
<1>2. PolicyInv /\ ReplyInv /\ IdleInv /\ [Next]_vars => (PolicyInv /\ ReplyInv /\ IdleInv)'
  BY NextPolicyInv, NextStores
<1>3. PolicyInv /\ ReplyInv /\ IdleInv /\ [Next]_vars => [Store!StoreNext]_<<state, disk>>
  BY NextStores DEF StoreStep
<1> QED
  BY <1>1, <1>2, <1>3, PTL DEF Spec, Store!StoreSpec
=============================================================================
