------------------------------ MODULE FangCore ------------------------------
(***************************************************************************)
(* The daemon's core (core.rs) with its EC connection (hw/connection.rs,   *)
(* hw/razer.rs) and its state file (state.rs), as the telemetry loop and    *)
(* the client handlers of server.rs drive it.                               *)
(*                                                                          *)
(* Every handler holds the core's mutex from its first read to its last     *)
(* write, so one handler is one step.  Inside it the backend may fail at    *)
(* any call: an operator below that stands for a method of Core maps the    *)
(* world it starts in to the set of worlds it may leave, and composes the   *)
(* methods it calls.  A crash may interrupt a handler anywhere.             *)
(***************************************************************************)
EXTENDS EcDevice, FiniteSets

CONSTANTS
    Commands,       \* the client commands of this instance
    InitialDisks,   \* what the state file may hold before the first start
    CpuReadings, GpuReadings, PowerReadings,  \* sensor values, None included
    RetryTicks,     \* POWER_RETRY_INTERVAL and RETRY_INTERVAL in clock steps
    MayStabilise    \* bound: does this instance explore a failure-free suffix

ASSUME InputsAssumption ==
    /\ Commands \subseteq Command
    /\ InitialDisks \subseteq AppliedState /\ InitialDisks # {}
    /\ CpuReadings \subseteq Nat \cup {None}
    /\ GpuReadings \subseteq Nat \cup {None}
    /\ PowerReadings \subseteq BOOLEAN \cup {None}
    /\ RetryTicks \in Nat \ {0}
    /\ MayStabilise \in BOOLEAN

\* Why the guard holds the fans at the maximum (ThermalOverrideReason).
OverrideReasons == {"sensor_unavailable", "temperature"}
ASSUME ReasonsAssumption == None \notin OverrideReasons

VARIABLES
    \* the laptop
    hw,             \* the backend: [live, zone, settings] (EcDevice)
    disk,           \* the state file
    suspended,      \* the EC may have been reset since fangd last ticked
    stable,         \* from now on nothing fails (liveness only)
    \* the process
    status,         \* of the process and of its systemd unit
    \* fields of Core; a thermal override is active when it has a reason
    state, applied, target, override, cpu, gpu, missed,
    on_ac, power_retry, hw_retry, present,
    \* the connection's retry deadline
    conn_retry,
    \* observers: what the last handler told its client, the last published
    \* device_present, whether a choice made beside automation stands, and whether a CPU
    \* reading has arrived since the EC was last taken over
    reply, announced, chosen, fresh

coreVars == <<state, applied, target, override, cpu, gpu, missed,
              on_ac, power_retry, hw_retry, present, conn_retry>>
vars == <<hw, disk, suspended, stable, status, coreVars,
          reply, announced, chosen, fresh>>

\* What one handler reads and writes while it holds the mutex.
World == [hw |-> hw, disk |-> disk, state |-> state, applied |-> applied,
          target |-> target, override |-> override, cpu |-> cpu, gpu |-> gpu,
          missed |-> missed, on_ac |-> on_ac, power_retry |-> power_retry,
          hw_retry |-> hw_retry]

Become(w) ==
    /\ hw' = w.hw /\ disk' = w.disk /\ state' = w.state /\ applied' = w.applied
    /\ target' = w.target /\ override' = w.override
    /\ cpu' = w.cpu /\ gpu' = w.gpu /\ missed' = w.missed
    /\ on_ac' = w.on_ac /\ power_retry' = w.power_retry /\ hw_retry' = w.hw_retry

\* Deadlines count down to 0 (due); None is no deadline.
Due(deadline) == deadline # None /\ deadline = 0

\* Once the environment is stable, what can succeed succeeds.
Results(outcomes) ==
    IF stable /\ \E r \in outcomes : r.ok THEN {r \in outcomes : r.ok} ELSE outcomes

Saves == IF stable THEN {TRUE} ELSE BOOLEAN

-----------------------------------------------------------------------------
(* Backend calls inside a world. *)

Lift(w, outcomes) ==
    {[ok |-> r.ok, w |-> [w EXCEPT !.hw = r.h]] : r \in Results(outcomes)}

HwApply(w, st) == Lift(w, ApplyOutcomes(w.hw, st))
HwSetTarget(w, rpm) == Lift(w, TargetOutcomes(w.hw, rpm))
HwRestoreAuto(w, mode) == Lift(w, RestoreOutcomes(w.hw, mode))

\* info() reports the model's limits only while the EC is open.
FanMax(w) == IF w.hw.live THEN MaxRpm ELSE 0
FanMin(w) == IF w.hw.live THEN MinRpm ELSE 0

-----------------------------------------------------------------------------
(* Methods of Core. *)

\* Mutant: no retry is scheduled.
MarkUnappliedForGood(w) ==
    [w EXCEPT !.applied = FALSE, !.hw_retry = None, !.target = None, !.override = None]

MarkUnapplied(w) ==
    [w EXCEPT !.applied = FALSE, !.hw_retry = RetryTicks,
              !.target = None, !.override = None]

MarkApplied(w) == [w EXCEPT !.applied = TRUE, !.hw_retry = None]

ResetTarget(w) ==
    IF w.state.fan = AutoFan
    THEN [w EXCEPT !.target = None, !.override = None]
    ELSE [w EXCEPT !.target = FanMax(w), !.override = "sensor_unavailable"]

SensorOk(w) == w.cpu # None /\ w.missed < CpuSensorMissLimit

\* Mutant: the result of the fallback is not looked at.
FallBackBlindly(w) ==
    {[ok |-> FALSE, note |-> "auto", w |-> MarkUnapplied(r.w)] :
        r \in HwRestoreAuto(w, w.state.perf_mode)}

\* The last resort of apply_hardware_state.
FallBack(w) ==
    {[ok |-> FALSE, note |-> IF r.ok THEN "auto" ELSE "unconfirmed", w |-> MarkUnapplied(r.w)] :
        r \in HwRestoreAuto(w, w.state.perf_mode)}

\* With a previous complete state, that state is restored first.
RollBack(w) ==
    UNION {IF r.ok
           THEN {[ok |-> FALSE, note |-> "restored", w |-> ResetTarget(MarkApplied(r.w))]}
           ELSE FallBack(r.w) : r \in HwApply(w, w.state)}

ApplyHardwareState(w, desired) ==
    UNION {CASE r.ok -> {[ok |-> TRUE, note |-> "applied", w |-> MarkApplied(r.w)]}
             [] ~r.ok /\ w.applied -> RollBack(r.w)
             [] OTHER -> FallBack(r.w) : r \in HwApply(w, desired)}

GuardReason(w) ==
    IF ~SensorOk(w) THEN "sensor_unavailable"
    ELSE IF ThermalOverrideNext(w.override # None, w.cpu, w.gpu) THEN "temperature"
    ELSE None

PolicyTarget(w) ==
    IF GuardReason(w) # None THEN FanMax(w)
    ELSE NormalizeRpm(RequestedRpm(w.state.fan, w.cpu, w.gpu, FanMax(w)), FanMin(w), FanMax(w))

\* A failed target write may have reached one zone only: the complete state
\* is reapplied, which starts again at the maximum.
RecoverTarget(w) ==
    {IF r.ok THEN ResetTarget(r.w) ELSE r.w : r \in ApplyHardwareState(w, w.state)}

\* Mutant: a failed write is only logged.
SendTargetBlindly(w, rpm) == {[r.w EXCEPT !.target = rpm] : r \in HwSetTarget(w, rpm)}

SendTarget(w, rpm) ==
    UNION {IF r.ok THEN {[r.w EXCEPT !.target = rpm]} ELSE RecoverTarget(r.w) :
           r \in HwSetTarget(w, rpm)}

UpdateFanPolicy(w) ==
    CASE ~w.applied \/ w.state.fan = AutoFan ->
            {[w EXCEPT !.target = None, !.override = None]}
      [] w.applied /\ w.state.fan # AutoFan /\ w.target = PolicyTarget(w) ->
            {[w EXCEPT !.override = GuardReason(w)]}
      [] OTHER ->
            SendTarget([w EXCEPT !.override = GuardReason(w)], PolicyTarget(w))

\* Enter an applied state: guarded at the maximum, then by the sensors.
Settle(w) == UpdateFanPolicy(ResetTarget(w))

\* A failed save takes the hardware back to the published preferences.  Once they
\* are applied the answer says "previous hardware state restored", whatever becomes
\* of the fan target that is written next.
UndoUnsaved(w) ==
    UNION {IF r.ok
           THEN {[ok |-> FALSE, note |-> "unsaved_restored", w |-> v] : v \in Settle(r.w)}
           ELSE {[ok |-> FALSE, note |-> r.note, w |-> r.w]} :
           r \in ApplyHardwareState(w, w.state)}

\* Mutant: memory and disk are updated before the hardware has accepted.
CommitStateEagerly(w, next) ==
    UNION {{[ok |-> r.ok, note |-> r.note, w |-> v] : v \in Settle(r.w)} :
           r \in ApplyHardwareState([w EXCEPT !.state = next, !.disk = next], next)}

\* Mutant: a failed save is only logged.
CommitStateUnsaved(w, next) ==
    UNION {IF ~r.ok THEN {r}
           ELSE UNION {{[ok |-> TRUE, note |-> "saved", w |-> v] :
                           v \in Settle([r.w EXCEPT !.disk = IF saved THEN next ELSE @,
                                                    !.state = next])} : saved \in Saves} :
           r \in ApplyHardwareState(w, next)}

CommitState(w, next) ==
    UNION {IF ~r.ok THEN {r}
           ELSE UNION {IF saved
                       THEN {[ok |-> TRUE, note |-> "saved", w |-> v] :
                                v \in Settle([r.w EXCEPT !.disk = next, !.state = next])}
                       ELSE UndoUnsaved(r.w) : saved \in Saves} :
           r \in ApplyHardwareState(w, next)}

\* Mutant: the readings of before a suspend or a lost handle are kept.
ForgetNothing(w) == w

\* Readings of before a suspend or a lost handle cannot release the guard.
ForgetReadings(w) ==
    [w EXCEPT !.cpu = None, !.gpu = None, !.missed = CpuSensorMissLimit]

Reapply(w) ==
    UNION {CASE r.ok -> Settle(r.w)
             [] ~r.ok /\ r.w.applied -> {r.w}
             [] OTHER -> {[r.w EXCEPT !.hw_retry = RetryTicks]} :
           r \in ApplyHardwareState(ForgetReadings(w), w.state)}

\* sanitize_loaded_state: a failed save of the result is only logged.
Sanitize(w) ==
    LET st == SanitizeLoadedState(w.hw.live, w.state)
    IN  IF st = w.state THEN {w}
        ELSE {[w EXCEPT !.state = st, !.disk = IF saved THEN st ELSE @] : saved \in Saves}

\* Mutant: the preferences are not checked against the reopened model.
TakeOverUnchecked(w) ==
    Reapply([MarkUnapplied(w) EXCEPT !.on_ac = None, !.power_retry = None])

TakeOver(w) ==
    UNION {Reapply([v EXCEPT !.on_ac = None, !.power_retry = None]) :
           v \in Sanitize(MarkUnapplied(w))}

\* sample_at, before the sensors are read: take over a reopened EC, or retry.
Recover(w, reopened) ==
    CASE reopened -> TakeOver([w EXCEPT !.hw.live = TRUE])
      [] ~reopened /\ ~w.applied /\ w.hw.live /\ Due(w.hw_retry) -> Reapply(w)
      [] OTHER -> {w}

\* Mutant: the count of misses is not bounded.
ReadUnbounded(w, c, g) ==
    [w EXCEPT !.cpu = IF c = None THEN @ ELSE c,
              !.missed = IF c = None THEN @ + 1 ELSE 0,
              !.gpu = g]

\* The code counts misses up to 255; only "at the limit" is ever asked.
Read(w, c, g) ==
    [w EXCEPT !.cpu = IF c = None THEN @ ELSE c,
              !.missed = IF c = None
                         THEN IF @ < CpuSensorMissLimit THEN @ + 1 ELSE @
                         ELSE 0,
              !.gpu = g]

\* Reading the fan speeds may lose the handle (not once stable).
SampledHw(w) == IF stable THEN {w.hw} ELSE SampleOutcomes(w.hw)

Sense(w, c, g) ==
    UNION {LET v == [w EXCEPT !.hw = h]
               u == IF ~h.live /\ v.applied THEN MarkUnapplied(v) ELSE v
           IN  UpdateFanPolicy(Read(u, c, g)) : h \in SampledHw(w)}

-----------------------------------------------------------------------------
(* Power automation (power_tick_at). *)

Sampled(w, source) ==
    [w EXCEPT !.on_ac = source,
              !.power_retry = IF source # w.on_ac \/ ~w.state.auto_power THEN None ELSE @]

\* Mutant: only a change of source starts automation.
AutomationDueOnChange(w, source) ==
    w.state.auto_power /\ source # w.on_ac /\ source # None

AutomationDue(w, source) ==
    /\ w.state.auto_power
    /\ source # w.on_ac \/ Due(w.power_retry)
    /\ source # None

InPlace(w, next) ==
    /\ next.perf_mode = w.state.perf_mode
    /\ next.fan = w.state.fan
    /\ w.applied

CommitAutomation(w, next) ==
    {[changed |-> r.ok, w |-> [r.w EXCEPT !.power_retry = IF r.ok THEN None ELSE RetryTicks]] :
        r \in CommitState(w, next)}

PowerTick(w, source) ==
    LET next == AutomationState(w.hw.live, w.state, source)
        v == Sampled(w, source)
    IN  CASE ~AutomationDue(w, source) -> {[changed |-> FALSE, w |-> v]}
          [] AutomationDue(w, source) /\ InPlace(w, next) ->
                {[changed |-> FALSE, w |-> [v EXCEPT !.power_retry = None]]}
          [] OTHER -> CommitAutomation(v, next)

-----------------------------------------------------------------------------
(* Client commands (handle_set). *)

\* Mutant: an explicit choice leaves the pending automatic retry alone.
HandleSetBesideRetry(w, cmd) ==
    LET next == Desired(w.hw.live, w.on_ac, w.state, cmd)
    IN  IF next = Rejected THEN {[ok |-> FALSE, note |-> "rejected", w |-> w]}
        ELSE CommitState(w, next)

HandleSet(w, cmd) ==
    LET next == Desired(w.hw.live, w.on_ac, w.state, cmd)
    IN  IF next = Rejected THEN {[ok |-> FALSE, note |-> "rejected", w |-> w]}
        ELSE {[r EXCEPT !.w.power_retry = IF r.ok /\ Supersedes(cmd) THEN None ELSE @] :
                 r \in CommitState(w, next)}

-----------------------------------------------------------------------------
(* The steps. *)

\* The telemetry loop runs only in a running process; client handlers may
\* still run in one that has been told to stop.
Running == status = "running"
Alive == status \in {"running", "stopping"}

\* A process that is not running has no core: its fields are those of a fresh
\* one, over the state file.
Blank(h, d) ==
    [hw |-> h, disk |-> d, state |-> d, applied |-> FALSE, target |-> None,
     override |-> None, cpu |-> None, gpu |-> None, missed |-> CpuSensorMissLimit,
     on_ac |-> None, power_retry |-> None, hw_retry |-> None]

Init ==
    /\ hw = Disturbed([live |-> FALSE, zone |-> Unsure, settings |-> Unsure])
    /\ disk \in InitialDisks
    /\ state = disk /\ applied = FALSE /\ target = None /\ override = None
    /\ cpu = None /\ gpu = None /\ missed = CpuSensorMissLimit
    /\ on_ac = None /\ power_retry = None /\ hw_retry = None
    /\ suspended = FALSE /\ stable = FALSE /\ status = "off"
    /\ present = FALSE /\ conn_retry = RetryTicks
    /\ reply = None /\ announced = FALSE /\ chosen = FALSE /\ fresh = FALSE

Opens == IF stable THEN {TRUE} ELSE BOOLEAN

\* main: open the EC, Core::new, then the first reapply.
Start ==
    /\ status \in {"restarting", "off"}
    /\ \E opened \in Opens :
       \E w \in Sanitize([Blank(hw, disk) EXCEPT !.hw.live = opened]) :
       \E r \in Reapply(w) :
          /\ Become(r)
          /\ present' = opened
          /\ announced' = r.hw.live
    /\ status' = "running" /\ conn_retry' = RetryTicks
    /\ suspended' = FALSE /\ chosen' = FALSE /\ fresh' = FALSE /\ reply' = None
    /\ UNCHANGED stable

\* The connection tries to reopen a missing EC when its own deadline is due.
Reopenings(w) == IF w.hw.live \/ ~Due(conn_retry) THEN {FALSE} ELSE Opens

\* Mutant: a handle lost and replaced between two samples goes unnoticed.
StatusChangedByPresence(reopened, live) == live # present

\* Clients are sent the status when the EC was taken over or came or went.
StatusChanged(reopened, live) == reopened \/ live # present

\* One pass of telemetry_loop; after a wall-clock jump it reapplies everything
\* before it samples.
TickWith(c, g, source) ==
    /\ status = "running"
    /\ \E w0 \in IF suspended THEN Reapply(World) ELSE {World} :
       \E reopened \in Reopenings(w0) :
       \E w1 \in Recover(w0, reopened) :
       \E w2 \in Sense(w1, c, g) :
       \E t \in PowerTick(w2, source) :
          /\ Become(t.w)
          /\ conn_retry' = IF ~w0.hw.live /\ Due(conn_retry) THEN RetryTicks ELSE conn_retry
          /\ present' = w2.hw.live
          /\ announced' = IF t.changed \/ StatusChanged(reopened, w2.hw.live)
                          THEN t.w.hw.live ELSE announced
          /\ chosen' = (chosen /\ source = on_ac /\ ~reopened)
          /\ fresh' = (c # None \/ (fresh /\ ~suspended /\ hw.live))
    /\ suspended' = FALSE /\ reply' = None
    /\ UNCHANGED <<stable, status>>

Tick == \E c \in CpuReadings, g \in GpuReadings, source \in PowerReadings :
            TickWith(c, g, source)

\* One core command of handle_conn; success is broadcast.  Handlers are not
\* aborted by a stop: one that waits for the core still runs before the exit.
Handle(cmd) ==
    /\ Alive
    /\ \E r \in HandleSet(World, cmd) :
          /\ Become(r.w)
          /\ reply' = r.note
          /\ announced' = IF r.ok THEN r.w.hw.live ELSE announced
          /\ chosen' = (r.w.state.auto_power /\ (chosen \/ (r.ok /\ Supersedes(cmd))))
    /\ UNCHANGED <<stable, status, suspended, present, conn_retry, fresh>>

\* The wall clock jumps, by a sleep long enough for the loop to notice or by
\* being set: the EC may have been reset meanwhile, or not.  Readings of before it
\* stay in use until the tick that notices it.
Suspend ==
    /\ Alive
    /\ hw' = Disturbed(hw)
    /\ suspended' = TRUE /\ reply' = None
    /\ UNCHANGED <<disk, stable, status, coreVars, announced, chosen, fresh>>

CountDown(deadline) == IF deadline = None \/ deadline = 0 THEN deadline ELSE deadline - 1

\* Time passes.
Elapse ==
    /\ status = "running"
    /\ power_retry' = CountDown(power_retry)
    /\ hw_retry' = CountDown(hw_retry)
    /\ conn_retry' = CountDown(conn_retry)
    /\ <<power_retry, hw_retry, conn_retry>>' # <<power_retry, hw_retry, conn_retry>>
    /\ reply' = None
    /\ UNCHANGED <<hw, disk, suspended, stable, status, state, applied, target, override,
                   cpu, gpu, missed, on_ac, present, announced, chosen, fresh>>

Leave(h, d, next) ==
    /\ Become(Blank(Closed(h), d))
    /\ status' = next
    /\ suspended' = FALSE /\ present' = FALSE /\ conn_retry' = RetryTicks
    /\ reply' = None /\ announced' = FALSE /\ chosen' = FALSE /\ fresh' = FALSE
    /\ UNCHANGED stable

\* What a handler interrupted between its save and its reply has saved.
InFlight ==
    LET taken == SanitizeLoadedState(TRUE, state)
        Automatic(st, sources) == {AutomationState(TRUE, st, source) : source \in sources}
        asked == {Desired(TRUE, on_ac, state, cmd) : cmd \in Commands}
                   \cup Automatic(state, {s \in BOOLEAN : AutomationDue(World, s)})
    IN  IF hw.live THEN asked \ {Rejected}
        ELSE {taken} \cup Automatic(taken, {s \in BOOLEAN : taken.auto_power})

\* The process dies, in the middle of a handler or between two: saving is
\* atomic (write, sync, rename), EC writes are not.
Crash ==
    /\ status = "running" /\ ~stable
    /\ \E d \in {disk} \cup InFlight : Leave(Disturbed(hw), d, "crashed")

\* A stop signal ends the telemetry task and restores firmware control.
Stop ==
    /\ status = "running" /\ ~stable
    /\ \E r \in HwRestoreAuto(World, state.perf_mode) : Become(MarkUnapplied(r.w))
    /\ status' = "stopping" /\ reply' = None
    /\ UNCHANGED <<suspended, stable, present, conn_retry, announced, chosen, fresh>>

Exit == status = "stopping" /\ Leave(hw, disk, "stopped")

\* The core is not free within three seconds of the signal, or systemd's patience
\* ends first: the process goes without restoring anything, whatever its last
\* handler has done by then.
Abandon ==
    /\ Alive /\ ~stable
    /\ \E d \in {disk} \cup InFlight : Leave(Disturbed(hw), d, "stopped")

\* Mutant: only a crash is cleaned up after.
StopPostAfterCrash ==
    /\ status \in {"crashed", "stopped"}
    /\ \E opened \in Opens :
       \E r \in Results(RestoreOutcomes([hw EXCEPT !.live = opened], disk.perf_mode)) :
          hw' = IF status = "crashed" THEN Closed(r.h) ELSE hw
    /\ status' = IF status = "crashed" THEN "restarting" ELSE "off"
    /\ UNCHANGED <<disk, suspended, stable, coreVars, reply, announced, chosen, fresh>>

\* systemd's ExecStopPost: a second process, fangd --restore-auto, which
\* opens the EC for itself and reads the mode from the state file.
StopPost ==
    /\ status \in {"crashed", "stopped"}
    /\ \E opened \in Opens :
       \E r \in Results(RestoreOutcomes([hw EXCEPT !.live = opened], disk.perf_mode)) :
          hw' = Closed(r.h)
    /\ status' = IF status = "crashed" THEN "restarting" ELSE "off"
    /\ UNCHANGED <<disk, suspended, stable, coreVars, reply, announced, chosen, fresh>>

\* The environment settles: from here on no call fails and nothing dies.
Stabilise ==
    /\ MayStabilise /\ ~stable
    /\ stable' = TRUE
    /\ UNCHANGED <<hw, disk, suspended, status, coreVars, reply, announced, chosen, fresh>>

Next ==
    \/ Start \/ Tick \/ Suspend \/ Elapse \/ Stabilise
    \/ Crash \/ Stop \/ Exit \/ Abandon \/ StopPost
    \/ \E cmd \in Commands : Handle(cmd)

\* A tick at which no sensor has changed.  Fairness is stated for these, lest
\* a stuttering tick should force a sensor to change.
SteadyTick ==
    \E c \in CpuReadings, g \in GpuReadings, source \in PowerReadings :
        /\ cpu \in CpuReadings => c = cpu
        /\ gpu \in GpuReadings => g = gpu
        /\ on_ac \in PowerReadings => source = on_ac
        /\ TickWith(c, g, source)

\* tokio runs the 1 Hz loop and time passes; main returns once it was told to
\* stop; systemd runs ExecStopPost and restarts a process that failed.  Nobody
\* has to send a command.  Only the stable suffix of a behaviour needs this, so
\* no more is assumed.
Fairness ==
    /\ WF_vars(stable /\ SteadyTick) /\ WF_vars(stable /\ Elapse)
    /\ WF_vars(stable /\ Exit) /\ WF_vars(stable /\ StopPost)
    /\ WF_vars(stable /\ status = "restarting" /\ Start)

Spec == Init /\ [][Next]_vars
FairSpec == Spec /\ Fairness

-----------------------------------------------------------------------------
(* Correctness. *)

Deadline == 0 .. RetryTicks
Replies == {"saved", "unsaved_restored", "restored", "auto", "unconfirmed", "rejected"}
ASSUME RepliesAssumption == None \notin Replies

\* Every variable holds a value of its kind.
TypeOK ==
    /\ hw \in HwType
    /\ disk \in AppliedState /\ state \in AppliedState
    /\ suspended \in BOOLEAN /\ stable \in BOOLEAN
    /\ status \in {"running", "stopping", "crashed", "stopped", "restarting", "off"}
    /\ applied \in BOOLEAN
    /\ target \in Nat \cup {None}
    /\ override \in OverrideReasons \cup {None}
    /\ cpu \in Nat \cup {None} /\ gpu \in Nat \cup {None}
    /\ missed \in 0 .. CpuSensorMissLimit
    /\ on_ac \in BOOLEAN \cup {None}
    /\ power_retry \in Deadline \cup {None} /\ hw_retry \in Deadline \cup {None}
    /\ conn_retry \in Deadline
    /\ present \in BOOLEAN /\ announced \in BOOLEAN
    /\ chosen \in BOOLEAN /\ fresh \in BOOLEAN
    /\ reply \in Replies \cup {None}

Software == state.fan # AutoFan

InCharge(z) == hw.zone[z] = ZoneSetting(state.perf_mode, IF Software THEN target ELSE Firmware)

\* hardware_state_applied tells the truth: unless a sleep has just ended, it
\* implies a usable handle and that both fan zones, in the same mode and at
\* the target the policy believes in, and every other register hold exactly
\* the published preferences -- whatever failed on the way there.
HardwareMatches ==
    Alive /\ applied /\ ~suspended =>
        /\ hw.live
        /\ hw.settings = EcSettings(state)
        /\ \A z \in Zones : InCharge(z)

\* Software control runs a fan below the maximum only on evidence: a CPU
\* reading taken since the EC was last taken over, recent enough, and no
\* reading at which the guard would engage.
LowTargetHasEvidence ==
    target # None /\ target < MaxRpm =>
        /\ fresh
        /\ cpu # None /\ missed < CpuSensorMissLimit
        /\ cpu < CpuOverrideOn
        /\ gpu = None \/ gpu < GpuOverrideOn

Released == applied /\ Software /\ override = None

\* However software control comes to be released from the guard -- by cooling,
\* by a new profile, by a recovery -- it is released below the Off bounds.
ReleaseNeedsCooling ==
    [][Released' /\ ~Released =>
          /\ cpu' # None /\ cpu' < CpuOverrideOff
          /\ gpu' = None \/ gpu' < GpuOverrideOff]_vars

\* What a client is told of the hardware.  A fallback to EC automatic control has
\* happened in both zones; a state rolled back to is in force; and where the
\* answer says that a command was applied, or that a failed save was undone, the
\* core knows whether it is so: if the fan target written last has failed, with its
\* recovery, it has scheduled a retry.
ReportsAreTrue ==
    /\ reply = "auto" => /\ ~applied
                         /\ \A z \in Zones : hw.zone[z] = ZoneSetting(state.perf_mode, Firmware)
    /\ reply = "restored" => applied
    /\ reply \in {"saved", "unsaved_restored"} => applied \/ hw_retry # None

\* "A failed save restores the previous hardware state, or falls back to EC Auto"
\* (core.rs:249-250), and the answer says which: a client told "previous hardware
\* state restored" (core.rs:217, 260) has it in force.
RestoredIsInForce == reply \in {"restored", "unsaved_restored"} => applied

\* A command is all or nothing for the preferences: acknowledged, it is in
\* memory and in the state file; refused, neither has changed.
CommandsAreTransactions ==
    [][reply' # None =>
          IF reply' = "saved" THEN disk' = state' ELSE UNCHANGED <<state, disk>>]_vars

\* The state file always restores the published preferences: a process that
\* starts from it, on this laptop, publishes the same ones again -- even when
\* saving the normalised preferences had failed.
RestartKeepsPreferences ==
    SanitizeLoadedState(TRUE, disk) = SanitizeLoadedState(TRUE, state)

\* Whatever sequence of loads, commands and automation led here, preferences
\* published beside an open EC are within the limits of the detected model.
PreferencesFitTheModel ==
    Alive /\ hw.live => SanitizeLoadedState(TRUE, state) = state

SamePolicy == UNCHANGED <<state.perf_mode, state.fan>>

\* An acknowledged choice of profile, fan or automation is not overwritten by
\* automation while the sampled power source stays the same and the EC is not
\* reopened: in particular not by the retry of an older failed transition.
ChoiceOutlivesRetries ==
    [][chosen /\ chosen' /\ reply' = None => SamePolicy]_vars

\* "Automation acts only on transitions" (core.rs:39): a step after which the
\* sampled source is what it was does not undo an acknowledged choice.
AutomationActsOnlyOnTransitions ==
    [][chosen /\ Running' /\ reply' = None /\ on_ac' = on_ac => SamePolicy]_vars

\* A process that runs, or that systemd will run again.
Kept == status \in {"running", "crashed", "restarting"}

\* Once nothing fails any more, the preferences are in force again: after a
\* lost handle, a failed apply, a fallback, a sleep or a crash.
ControlReturns ==
    (stable /\ Kept) ~> (Running /\ applied /\ hw.live /\ \A z \in Zones : InCharge(z))

\* A daemon that is stopped leaves the fans to the firmware, whatever a client's
\* last command did while it was stopping: "ExecStopPost will restore Auto".
StoppedIsLeftToFirmware ==
    (stable /\ status \in {"stopping", "stopped"})
        ~> (status = "off" /\ \A z \in Zones :
                                  hw.zone[z] = ZoneSetting(disk.perf_mode, Firmware))

Owed(source) == stable /\ state.auto_power /\ on_ac = source /\ power_retry # None
Settled(source) ==
    \/ on_ac # source \/ ~state.auto_power \/ chosen
    \/ /\ state.perf_mode = SourceProfile(state, source)
       /\ state.fan = SourceFan(state, source)

\* A transition that automation failed to apply is not forgotten: it is
\* applied, unless the source changes or the user chooses otherwise.
TransitionsCatchUp == (Owed(TRUE) ~> Settled(TRUE)) /\ (Owed(FALSE) ~> Settled(FALSE))

\* Once nothing fails any more, clients are left with a true device_present,
\* whatever losses and reopenings they were or were not told of before.
AvailabilityIsAnnounced == (stable /\ Kept) ~> [](Running /\ announced = hw.live)
=============================================================================
