# VFang: a TLA+ verification project

VFang controls the fans, the performance modes, the lighting and the battery
limit of Razer Blade laptops under Linux. A root daemon, `fangd`, owns the
laptop's embedded controller (EC) and keeps the user's preferences in force
through failures, sleeps, crashes and changes of the power source; an app talks
to it over a socket. This directory models the daemon, the parts of the app that
keep state in step with it, and what lies between the daemon and the hardware,
in TLA+, checks the models with TLC and proves their safety properties with TLAPS. All
paths below are relative to the repository.

## Inventory

### The daemon

| Component | State | Operations | Talks to |
|---|---|---|---|
| Fan policy (`crates/fangd/src/core.rs` 335-440, 635-678) | none (pure) | normalise an RPM or a curve, interpolate, thermal hysteresis | called by the core |
| Preferences (`state.rs`, `core.rs` 278-333, 536-621) | `AppliedState`, in memory and in a JSON file | load, sanitise for the detected model, derive the state a command or a power transition asks for, save (write, sync, rename) | the core, the disk |
| Core (`core.rs`) | published state, `hardware_state_applied`, fan target, thermal override and its reason, last readings, count of missed readings, last power source, two retry deadlines | `apply_hardware_state` with rollback and fallback, `commit_state`, `reapply`, `sample`, `power_tick`, `handle_set`, `restore_auto_fan` | EC backend, state file, telemetry loop and client handlers, which share it under one mutex |
| EC backend (`hw/razer.rs`, `hw/connection.rs`, `hw/transport.rs`, `hw/lighting.rs`) | open handle or none, retry deadline | open, reconnect, apply (a sequence of about ten reports), set target on two zones, restore auto, sample | the EC over hidraw |
| Server (`server.rs`) | broadcast bus of 64 lines, per-connection reader and writer | telemetry loop (1 Hz), rescan loop (15 s), one handler per connection | core, peripherals, clients |
| Slow peripherals (`peripherals.rs`, `ddc.rs`, `gpu.rs`) | DDC cache, GPU switch, shared snapshot | discover, write a VCP feature, switch GPU, rescan | helper programs on blocking workers |
| Lifecycle (`main.rs`, `packaging/fangd.service`) | instance lock, socket, tasks | start, accept, stop, `--restore-auto` | systemd |
| Sensors (`hw/sensors.rs`, `hw/runtime_pm.rs`, `power.rs`) | RAPL counters | read sysfs and NVML | the core |
| Helper processes (`process.rs`) | child, pipes | run with a deadline | peripherals, GPU |

### The app

| Component | State | Operations |
|---|---|---|
| Daemon client (`app/src-tauri/src/client.rs`) | queue of requests, pending answers, connection | request with timeout, reconnect, forward events |
| Settings and windows (`main.rs`, `window.rs`) | settings file, autostart entry, tray | change with rollback |
| Display and panel (`display.rs`, `panel.rs`) | none | call desktop tools |
| UI state (`app/src/lib`) | stores, revision guard, command sequence | order snapshots, command results and events |

### What is hard about it

* **Partial failure.** An EC apply is a sequence of reports; it may stop
  anywhere, its acknowledgement may be lost, the rollback may fail, then the
  fallback may fail. The core goes on from a belief (`hardware_state_applied`,
  the fan target) that has to be true all the same.
* **Stale evidence.** Readings, the last power source, the DDC cache and the
  snapshot survive the thing they describe: a sleep, a replaced handle, a
  swapped monitor.
* **Crash and restart.** The preferences, the EC and the state file change one
  after the other; a process may end between any two, and `ExecStopPost` runs in
  another process with only the file to go by.
* **Retries.** Two deadlines drive EC recovery and one drives automation; a
  retry may race an explicit choice, or never be armed.
* **Interleaving.** Client handlers outlive the stop signal; blocking workers
  share a snapshot under locks of their own.
* **Ordering** of broadcasts, answers and snapshots, on both ends of the socket.

What makes each component correct:

* **Policy and core**: no fan slows while the machine warms, and the guard is released only on
  cool readings; the core believes only what is so; commands are all or nothing and a
  restart loses nothing; recovery and automation catch up; a stopped daemon leaves the
  fans to the firmware.
* **EC session**: every call ends, with an outcome the core reckons with, and what a
  call set stays set.
* **Lifecycle**: one process drives the EC, no live socket is removed, no crash keeps
  the next start from succeeding.
* **Helpers**: a call returns, complete or by its deadline, and kills nobody else.
* **Peripherals**: the snapshot follows the workers and a lost monitor is looked for again.
* **Sensors**: a moved sensor is found again, sampling lets a GPU sleep.
* **App**: the page shows the newest status sent; an answer belongs to its call; a daemon
  of another version is not changed; the copies of a setting agree; a new refresh
  rate changes the mode of no other monitor and no priority.

`PROJECT.json` lists the hazards line by line with the properties that cover
them, and every part that is not modelled with the reason.

## Modules

```
FanPolicy        pure fan arithmetic and the thermal guard's hysteresis
  FanCurves      a custom curve, normalised and followed
  Preferences    AppliedState, sanitising, what commands and transitions ask for
    PreferenceStore  the preferences as one register; FangCore implements it
    EcDevice     what each backend call may leave in the EC
      FangCore   the daemon: core, connection, state file, telemetry loop,
                 client commands, life cycle
      EcCalls    the backend as the core sees it: one step per call
      EcSession  the same calls as reports, attempts and answers (also uses
                 EcReports, the wire, and Laptops, the model table);
                 implements EcCalls
Peripherals      DDC and GPU workers, snapshot, rescan loop
Lifecycle        processes, instance lock, socket path
HelperProcess    one helper program under its deadline
Sensors          CPU sensor, GPU power management, energy counter
StatusFeed       from a change in the daemon to the store of the page
DaemonClient     the app's queue, ids, answers and connections
UiSettings       autostart: operating system, file, app and page
DisplayMode      the refresh rate of the main screen
```

Proofs are in `EcDeviceProofs` (with the operators of `FanPolicy` and
`Preferences`), `FanCurvesProofs`, `FangCoreProofs`, `EcSessionProofs`,
`PeripheralsProofs`, `LifecycleProofs`, `HostProofs` (`HelperProcess`, `Sensors`)
and `AppProofs` (`DaemonClient`, `UiSettings`, `DisplayMode`, `StatusFeed`). The `MC` modules give the constants values for TLC. `MCHost`, `MCEc` and `MCClients` each check several components that share no
variable in one run: `focus`, fixed in the initial state, says which of them moves while the others rest, so
their states are added, not multiplied, and a component's properties
mean what they mean on their own. A mutant of a definition
stands directly before it, marked `Mutant:`; nothing uses it. A mutant shows that
the property it belongs to would notice a plausible bug there.

### FanPolicy

Operators for `normalize_rpm`, `normalize_fan`, `curve_target`,
`thermal_override_next` and the requested speed of `update_fan_policy`, in whole
degrees and integer arithmetic. The code interpolates in `f32`; for whole degrees
and `u16` speeds both give the same number. Readings between two degrees are
left out. Refused input, such as a curve of fewer than two or more than eight points, is
`Rejected`. `MinRpm` and `MaxRpm` are the model's limits and arbitrary
in the proofs. `FanCurves` is the behaviour the curve properties are about: a client's points are
normalised and, if accepted, followed while the hottest sensor warms up.

### Preferences

`AppliedState` is the record the daemon persists. `SanitizeLoadedState` is what
`sanitize_loaded_state` does with an open EC (limits of the model) and without
one (universal rules); `Desired` is the state `handle_set` derives from a command, or
`Rejected`; `AutomationState` is what `power_tick_at` derives from the
source. A colour of the keyboard is a model value; strings and JSON are
left out, and so is the case of an active curve with no points at all, which no
client can store.

`PreferenceStore` is an abstract specification: memory and file are one
register. A command or automation replaces both at once, normalising may leave the file behind,
and a restart goes back to the file; nothing the hardware does appears in it. `FangCore` implements it
with the identity on `state` and `disk`. A crash in the middle of a handler is an abstract step too, since
it leaves what was, or what was about to be saved.

### EcDevice

`hw.live` is the open handle. `hw.zone` maps each of the two fan zones to the
last mode and fan setting known to be in it, `hw.settings` is the rest of the
registers, and `Unsure` is the value of a register nobody can know: after a call that failed,
after a sleep, after the handle was lost. The daemon never reads these
registers back, so "unsure" is exactly what the code can justify. Each backend call is the
set of its outcomes `[ok, h]`: success; failure with the fallbacks of
`apply_state_with_recovery` done or not, and the handle kept, lost, or lost and
reopened. Lighting and boost registers are written in the same sequence and
share its fate. `EcSession` shows the single reports behind these outcomes.

### FangCore

One action per entry into the core:

| Action | Code |
|---|---|
| `Start` | `main` 320-348: open, load, `Core::new`, `reapply` |
| `Tick` | one pass of `telemetry_loop`: reapply after a clock jump, `sample`, `power_tick`, broadcast |
| `Handle(cmd)` | a core command in `handle_conn`: `handle_set`, answer, broadcast |
| `Suspend` | the wall clock jumps; the EC may have been reset |
| `Elapse` | time passes: deadlines come closer |
| `Crash` | the process dies, also in the middle of a handler |
| `Stop`, `Exit` | the signal: loops aborted, `restore_auto_before_exit`, return |
| `Abandon` | the core is busy for 3 s, or systemd kills the process after 8 s |
| `StopPost` | `ExecStopPost=fangd --restore-auto`, then restart on failure |
| `Stabilise` | from here on nothing fails (liveness only) |

All handlers hold the core's mutex from their first read to their last write, so each is
one step. Inside it, an operator that stands for a method of `Core` maps the
*world* it starts in (EC, file, and fields of `Core`) to the set of worlds it may
leave, and composes the methods it calls, in the code's order: `CommitState` is
`ApplyHardwareState`, then the save, then `Settle`, or, if the save failed,
`UndoUnsaved`. A crash may keep any state that was about to be saved and leaves the
EC disturbed. A client handler may still run after `Stop`: tasks are not aborted before `main` returns.

`reply`, `announced`, `chosen` and `fresh` are observers: what the last client was told,
the `device_present` last broadcast, whether an acknowledged choice stands, and
whether a CPU reading has arrived since the EC was last taken over. No guard reads them.

Abstractions: sleeps under 20 s, which the loop cannot notice, are left out; the
two 5 s retry intervals are one constant in clock steps; the miss counter stops
at the limit of three, beyond which the code never distinguishes; power and RPM
readings, on which nothing depends, are left out.

### Peripherals

A task is a connection or the rescan loop. A request is queued, takes its
worker's lock (`Begin`), runs helper programs (`CallDdc`, `GpuSwitches`,
`GpuFails`) and publishes. Publishing a DDC result holds the snapshot's write lock throughout (`SyncDdc`, one
step); `set_gpu_mode` reads the snapshot and writes it back under two separate
acquisitions, hence two steps (`CopySnapshot`, `WriteSnapshot`). A helper that
fails or is killed may or may not have reached the monitor. `Plug` changes the
monitor at any time. All monitors of an instance advertise the same presets
(`Offered`, of which the daemon knows those in `Curated`) and have the same
maximum brightness. A discovery is one step. What `setvcp` reports as
done is taken as done, and a monitor is not changed on its own menu while it is plugged in.

### EcReports, EcSession, EcCalls, Laptops

`EcReports` translates the report constructors of `packet.rs` and
`response_from_feature_report`, as far as reports differ: command class and id,
transaction id, declared size, arguments. CRC and byte offsets become one question: is the answer
intact? `Laptops` is `MODELS` with the rules that pick a laptop among the
interfaces on the bus, and approve an unknown one.

`EcSession` runs one call of the backend as the reports it consists of. `Begin`
queues them (`ApplyReports`, `TargetReports`, `RestoreReports`,
`SampleReports`: `razer.rs` and `lighting.rs`), `Send` writes the first,
`ReceiveInvalid`, `ReceiveBusy`, `ReceiveFailure` and `ReceiveSuccess` are the branches of
the loop in `transport.rs` 9-66, `Retry` and `Reject` end an attempt, `GiveUp` is
what each caller does about a report that failed, `StartRecovery` the fallback of
`apply_state_with_recovery`. The controller has registers, one report it has not
dealt with and one answer it shows; it obeys (`Process`), refuses, is busy, and
may lose everything in a `Sleep`. A report it has obeyed may still fail for
the daemon, and a report retried is obeyed twice.

`EcCalls` is the abstract specification: every call is one step with an outcome
of `EcDevice`. The refinement mapping (`view`) is the backend as `EcDevice` describes
it: a zone the daemon has an acknowledgement for has the mode and speed the *controller*
holds, one it has none for is `Unsure`, and the settings are those of the last
complete apply; while a call is at work, it is what it was before.
`CallsAreAsEcDeviceSays` (`Calls!Spec`) thus says both that no other outcome
occurs and that what the core takes for granted about the fans is really in the
registers; `SettingsHold` says the latter of the other registers.

### Lifecycle

`main.rs` for several processes, one step per system call on the lock or on the socket path: take the lock,
bind, connect, inspect, unlink, bind again, listen, identify, grant access,
open the device, run, restore, drop the guard, release the lock, shut the runtime down. `dir` maps a path to what it names: nothing, a file, or a socket with
the process that bound it. Processes crash anywhere, leaving sockets but no locks;
others may put files where a socket should be. A daemon that cannot read the inode of its new socket removes what the
path names and gives up (`Discard`, `Refuse`). A handler
inside the core (`worker`) may outlive the loop that accepted it. `args` ranges over
command lines: real or simulated, serving or `--restore-auto`, a socket or TCP.

### HelperProcess

`process.rs`: the polling parent, a reader thread per stream, the helper and its descendants. Pipes are bounded: a writer blocks when they are full, and a reader sees the end
only when nobody holds the other end. Members of the group may hang, leave the group, or close
their pipes; a pending `SIGKILL` takes effect in its own time; once the leader is reaped its PID may be
given to a stranger. What a reader keeps is limited by `OutputLimit`, beyond which a result counts as truncated.
Errors of `read` and `try_wait`, which a pipe and an unreaped child do not give, and a reader that panics are left out.

### Sensors

Three machines that share nothing: the CPU temperature file, cached and
rediscovered after `RediscoverAfter` failures while drivers come and go, and perhaps
taken over by another chip, whose reading then passes for the CPU's; the
GPU, whose power management the daemon reads file by file (`ReadPm`) before it
decides to query (`Query`, which restarts the kernel's countdown) or not
(`SkipQuery`); and an energy counter that wraps.

### StatusFeed

From the daemon's state to the store of the page. `core` and `side` count how often
each of the two parts of a status changed. A handler or loop (`job`) reads the
side part before it awaits the core lock (`ReadSide`), reads the core under it (`Assemble`) and
broadcasts after releasing it (`SendStatus`), so statuses may pass each other. The bus keeps
`BusCapacity` lines per subscriber and drops the oldest; the handler writes answers and events to one `wire`. In the app a line is an event
(`Show`), an answer to the tray or to the client's own request (`Emit`), or the
result of a command or a snapshot, which `Finish` lets through or not, by the counters
of `bridge-init.js`. The connection breaks and is made again; `Load` is a snapshot.

`stale` is an observer: the last status sent was lost to lag, or was sent or emitted by the tray or the client after a newer
one. `handle` says whether the EC's handle, on which the core's part of a status depends, is "held", "gone", or
"lost" by a command or a failed transition that the telemetry loop could not yet see. Against
the orders of `stale` the code does nothing (see below), and about a lost handle it tells nobody until
the loop's next sample: `PageShowsTheStatus` excludes these and nothing else.

### DaemonClient

`client.rs`: `Give` and `Enter` are the two halves of `request` (the version
check, the wait for a place in the queue), `Take` writes a request under the next
id, `Read` matches an answer, `TimeOut` gives up, `Open`, `Prime` and `Close` are the
connections. `Process` and `Admits` are the daemon of the moment, which may have
another version than the one before. Ids start over with every connection.

### UiSettings

`set_ui_settings` step by step: read autostart, apply it, save the file, undo.
Beside it the start of the app, which reconciles file and operating system, the
tray's switches, the end of the app at any point, and the
committer and the snapshots of the page. `doubt` and `raced` mark behaviours after which the copies
may differ for good: an undo or a reconciliation that failed too, a change of
autostart from outside. A failed `enable` or `disable` is taken to have left the entry
as it was, which is up to the autostart plugin. `known` says that the page was ever told anything.

### DisplayMode

`display.rs` for Mutter with its serial number and for the helper tools: read the layout, choose the
main monitor and the mode, apply, read again, while others change the layout in
between. Mutter's call carries a mode for *all* monitors and is refused for an old
serial; a tool is given one output by name. Of each monitor, mode and priority are
modelled; position, scale, mirrored monitors and the properties `ApplyMonitorsConfig` may
drop are not.

## What the runs show

| Run | States | Question |
|---|---|---|
| `thermal` | 23,784 | Is the belief about the EC true, and does a fan slow down only on evidence? |
| `restored` | violation | Is a state reported as restored in force? Not after a failed save, if the fan target written last fails. |
| `automation` | 12,577 | Are commands all or nothing, restarts lossless, choices respected? |
| `recovery` | 8,416 | Does control return, automation catch up, availability get announced, a stop leave the firmware in charge? |
| `reconnect` | violation | Does automation act only on transitions? No: a reopened EC counts as one. |
| `peripherals` | 600,908 | Does the snapshot follow the workers, does the cache never lie, and what may hide a discovery from clients? |
| `display_retry` | violation | Is a failed display always retried? No: a GPU switch may hide the failure. |
| `host` | 295,891 | Does one process own the EC, do only stale sockets go, do starts, stops and helpers end as they should? |
| `shared_socket` | violation | Is a live listener never deleted? It may be, where a simulated and a real daemon share a path. |
| `ec` | 413,406 | Does every backend call, report by report, end as `EcDevice` says, is every accepted curve followed exactly, monotonically and stably, and do the sensors follow the hardware? |
| `ec_stale` | violation | Is an accepted answer always to the report it is taken for? Not if the two have the same shape. |
| `clients` | 3,243,989 | Do the page, the calls, the settings and the screen end up as the app believes? |

**Bounds.** The `thermal` run takes temperatures on both sides of the On and Off
thresholds and between them, absent readings, and one curve; more readings
repeat one of these cases. `automation` takes a mode change, a fixed speed beyond the model, a
charge limit and a lighting change beside automation, over a file that breaks every rule of sanitising.
`recovery` takes one command, both power sources and a profile pair that
differs in mode and fan. `RetryTicks = 1` orders deadlines against everything
else, because any number of other steps fits between two clock steps. `peripherals` has
two clients and the loop; its monitor advertises a preset the daemon does not know, and lacks one it
knows: a lost update needs two tasks, and a race for a lock
needs three. The passing runs bound neither the number of failures nor of
restarts: the state space is finite without it.

`host` has two processes, three paths and five command lines: a race for a lock or a path
needs two, and the third is a process that ended and is launched anew, which nothing
limits. Its helper has one descendant and writes at most two units to each of two
pipes that hold one (`MostOutput`, `PipeSize`), of which one is kept (`OutputLimit`): enough to block, to fill, to
truncate and to hold a pipe open past the helper's end. `ec` applies two sets of
preferences that differ in mode, fan, CPU boost, keyboard effect and logo, and asks for one target, on a laptop with all
features; a frame has two rows (`FrameRows`; more only repeat the second) and three
attempts (`FrameAttempts`; five in the code), which is one more than a failure and a
success need. It takes all curves of one to three points over five raw
temperatures and five raw speeds around every limit (`RawTemps`, `RawRpms`), and sweeps beyond both ends (`SweepFrom`, `SweepTo`);
a target depends on two neighbouring points, so longer curves add nothing. The CPU sensor and another
chip move between two files; the GPU's countdown and the energy counter are
as short as their cases allow (`SuspendDelay`, `MaxEnergy`); `RediscoverAfter` is the code's own 5. `clients`
bounds what a behaviour may spend: `MCBounds` lists six budgets, each for one
kind of race (a change by others beside a command, both parts of a status changing, a
bus that overflows, two commands, a reconnection beside a second load). The bus has
two places, the client's queue one, with three calls and two connections; the settings
see two saves, two loads, one end of the app and one change from outside; the layout two changes by
others during one request.

**Deadlock** is checked in `thermal`, `automation`, `recovery` and `peripherals`.
In `host`, `ec` and
`clients` a helper returns, a sweep ends at its last temperature, or a component is left where its bounded
environment has nothing more to do.

**Fairness.** `FangCore` assumes it only for steps taken once the environment is
stable (`MayStabilise`): the 1 Hz loop ticks, time passes, `main` returns after
a stop, systemd runs `ExecStopPost` and restarts a failed process. Fairness is
stated for `SteadyTick`, a tick whose sensors read what they read last: where
only a different reading would make a tick change anything, fairness of `Tick`
would force the sensor to change, which nothing in the code does. No client is obliged to send
anything. `ControlReturns` and the others are therefore statements about every failure
history followed by a failure-free suffix. `Peripherals` assumes that the
15 s timer fires, that a worker which has its lock ends (helpers are killed at a
deadline) and that a lock which stays free is taken; no order among waiters.
`Lifecycle`: a process that is starting or stopping goes on and a handler in
the core ends; crashes, signals and launches owe nothing. `HelperProcess`: parent, readers and the helper's own writing go on, a killed or
well-behaved process ends, and the deadline passes if something hangs, so that
without a hang a run must end with no help from the clock. `EcSession`: only
the daemon's own thread is fair; the controller may stay busy or silent for ever.
The GPU sleeps by the kernel's clock and the daemon's sampling. `StatusFeed`,
`DaemonClient`, `UiSettings` and `DisplayMode` state safety at rest and need none.

### Disagreements found

* `core.rs:128` clears the last sampled source when an EC is reopened. The
  next tick sees a "transition" although the source is the same, and replaces a choice
  the user made. The comment at `core.rs:39` says automation "acts only on
  transitions". Run `reconnect`.
* `peripherals.rs:132-135` reads, changes and writes back the whole snapshot
  without excluding the DDC worker. A display failure published in between is
  lost; the rescan loop asks only the snapshot and never retries, against
  `server.rs:205`. Run `display_retry`; `RetriedWithoutGpuSwitch` shows that
  this is the only obstacle.
* `core.rs:254-260` reapplies the previous state after a failed save, then writes the fan target
  (`update_fan_policy`). If that write and its recovery fail, the state is not in force, but the
  answer is "previous hardware state restored" all the same, where the comment at 249-250 says
  that a failed save "restores the previous hardware state, or falls back to EC Auto". Run `restored`.
  `ReportsAreTrue` holds what remains: a retry is scheduled then.
* `main.rs:231` removes whatever its path names, some steps after what was there was found stale; only the
  instance lock keeps others from binding or listening in between. A simulated daemon locks
  `<socket>.lock`, a real one `/run/fangd.lock` (292-301). On a shared path, the one may
  find the other's socket bound but not yet listening, take it for stale, and remove it
  once it listens. The comment at `main.rs:174` says "without ever
  deleting a live listener". Run `shared_socket`; `OnlyStaleSocketsAreRemoved` holds,
  and is proved, where the command lines of a path take one lock.
* `packet.rs:240` compares transaction, size, class and command, not the
  arguments, and all requests have one transaction id. Where the controller still shows its answer to
  the previous report of the same shape (fan zone 1, then zone 2), that answer is accepted for the next. The comment at `packet.rs:238` says it proves the answer is not
  stale. Run `ec_stale`. The `ec` run assumes a controller that does not show
  such answers (`StaleAnswers = FALSE`); nothing in the repository says whether a real one does.

### Races the code leaves open

The models show these orders; no comment of the code denies them, and the
properties say where they exclude them.

* Two statuses assembled under the lock may be broadcast in the other order
  (`server.rs` 172), the peripheral part of one may be older than the core part (377), and
  a subscriber that lags may lose the last one (107-111). The page is then behind until the next
  change or snapshot.
* The tray's and the client's answers become events beside the stream of
  broadcasts (`app/src-tauri/src/main.rs` 378, `client.rs` 152-166) and may overtake a newer one.
* A GPU whose usage count cannot be read is sampled and so kept awake (`legible` in `GpuFallsAsleep`).
* A command that fails, or a power transition after the sample, may lose the EC's handle. `device_present` and the
  limits change at once; clients are told at the next sample (`core.rs` 149-151, `server.rs` 171-175).
* A cached path of the CPU sensor that another chip has taken over is read as if it were the CPU's
  (`sensors.rs` 156-164): `CpuSensorIsFoundAgain` promises a reading, not whose.
* The last handler of a stopped daemon may still be at the EC when its lock is
  free (`HardwareIsExclusive` names the case).

## What is proved

Every safety property of the passing runs, for every value of the constants that
satisfies the named assumptions. They say that inputs are of their kind
(`FeaturesAssumption`, `InputsAssumption`, `CurvesAssumption`, `TasksAssumption`,
`MonitorsAssumption`, `RequestsAssumption`, `LifecycleAssumption`,
`ClientAssumption`, `HelperAssumption`, `SensorsAssumption`, `FeedAssumption`, `UiAssumption`,
`FrameAssumption`, `SessionAssumption`, `InputAssumption`, `PowerOnAssumption`), that a marker is not one of the values it
stands beside (`NoneAssumption`, `EcMarkersAssumption`, `ReasonsAssumption`,
`RepliesAssumption`, `PathsAssumption`, `NothingAssumption`), and these facts of the code and its data:

* `FanLimitsAssumption`: the limits are positive whole hundreds in order, as in
  every row of `models.rs`; `TableAssumption` has TLC check each row, and
  `ModelAssumption` ties an instance to its row.
* `DisplayAssumption`: every monitor has a mode no other of its modes is faster than.

TLC evaluates all of them in the runs.

| Module | Theorems |
|---|---|
| `EcDeviceProofs` | `NormalizedRpmIsInRange`, `NormalizingTwiceIsNormalizingOnce`, `GuardHasHysteresis`; lemmas on the kinds of all results, and that sanitising fits any preferences to the model (`SanitizedFits`) and leaves fitting ones alone (`FittingIsKept`) |
| `FanCurvesProofs` | `TargetsFollowTheCurve`, `StoredCurvesStay`, `WarmingNeverSlows` |
| `FangCoreProofs` | `TypeCorrect`, `BeliefIsTrue`, `SlowFansHaveEvidence`, `GuardReleasesWhenCool`, `CommandsAreAtomic`, `ClientsAreToldTheTruth`, `PreferencesAreWithinLimits`, `RestartsLoseNothing`, `ChoicesAreRespected`, and `PreferencesAreARegister`: `FangCore` implements `PreferenceStore` |
| `EcSessionProofs` | `CallsRefineEcDevice` (`EcSession` implements `EcCalls`), `FramesStayWhole`, `SettingsStayApplied`, all if no stale answers are shown |
| `PeripheralsProofs` | `SwitchIsPublished`, `CacheIsTrue`, `UpdatesAreLostOnlyToSwitches` |
| `LifecycleProofs` | `LifecycleTypeCorrect`, `OneProcessDrives` and, if `OneLockPerPath` holds of the command lines, `ServersAreReachable`, `OnlyStaleSocketsGo`, `RefusalsHaveCauses`; `shared_socket` shows that the premise is needed |
| `HostProofs` | `OkIsComplete`, `TimeoutKillsTheGroup`, `CpuSensorIsAlwaysFound`, `EnergyIsAlwaysTrue` |
| `AppProofs` | `OtherVersionsAreSafe`, `CallsGetTheirAnswers`, `SettingsAgreeAtRest`, `SettingTheRateIsLocal`, `PageShowsItAtRest` |

**Curves.** The code walks along the points; the model chooses the first that is
at least as hot, so that curves of any length need no
induction: the temperature lies in one segment, and `InterpolateIs` says
that the target is a whole number nearest to its line. That an accepted curve is in
order everywhere, not only between neighbours, follows from the least point that
would be out of order. `WarmingNeverSlows` compares two targets of one segment, or two segments
through the points between them.

**`BeliefIsTrue`.** `HardwareMatches` alone is not inductive: it is silent while
a sleep is unnoticed and it does not say that software control has a target.
The invariant `IInv` adds the kinds of all variables, the
consistency of the world whenever it is believed applied and undisturbed, that a
process which is not alive believes nothing, and that the observers are of
their kind. The proof follows the calls of the code: a lemma per method says
that from a *good* world (right kinds, consistent) each world it may leave is
good. `ApplyHardwareState` reestablishes consistency from nothing, because
a complete apply writes everything; `SendTarget` keeps it or goes through
`RecoverTarget`; `CommitState` needs both. The steps then follow from the methods they call.

**The policy.** `LowTargetHasEvidence` speaks of `fresh`, an observer, and
is not inductive. `PolicyInv` adds to `IInv` that a state not applied has no target, that a target below the maximum has
a reading and no reason to guard, and why an old reading does no harm: while
none has arrived since the EC was taken over, there is no CPU reading or the handle is
dead, and an applied state has a live one. `ReplyInv` (an acknowledged state is the one on disk, and an ended
process has no reply) gives atomic commands and true reports; of a report made before the fan target is written, it
says that a state not in force has a retry scheduled. `PreferencesInv` says that
preferences beside an open EC fit the model and that file and memory sanitise to the same;
loading without a device sanitises by universal rules, so the proof needs that sanitising twice is sanitising once, in either order of
the two rules (`SanitizingBlindlyFirst`). `ChoicesAreRespected` needs that no retry of automation is
pending while a choice stands (`ChoiceInv`): whoever acknowledges a choice clears the deadline in the same step.

**`PreferencesAreARegister`.** A lemma per method says what may become of `state` and `disk`: nothing, the
result of the command, that of automation, or normalised preferences. Automation may follow a
normalisation in one tick, when the handle comes back between them; that is why `StoreNext` allows it to
start from normalised preferences. `IdleInv` (a process that is not alive has nothing in memory but the file)
makes a crash and a restart steps of the register.

**`CallsRefineEcDevice`.** `SessionInv` says for each call how far it is: which reports are
left (a suffix of those the call began with), which of those before are acknowledged, and that the
registers these wrote hold what was sent. `Talk` relates the report sent, the one the controller has not dealt with and the
answer it shows; `Harmless` says that whatever it may still obey only repeats what is already sent, which is where a
report obeyed twice and `StaleAnswers` matter. The zones vouched for hold what the calls acknowledged, so the last step of a
call is one outcome of `EcDevice` and every other step a stutter. `SettingsInv` (outside of an apply, every setting of the last
complete one is in the registers, and nothing pending changes it) and `FrameInv` (no rows that differ are shown, or about to be) give the
other two theorems.

**`SwitchIsPublished`.** The invariant says who may be between the switch and
the snapshot's update: a worker past `Begin` owns its lock, the copy a GPU worker is
about to write back carries the switch's present state, and a snapshot that is
behind is explained by such a worker. **`CacheIsTrue`** is inductive with the kinds of the variables.
**`UpdatesAreLostOnlyToSwitches`** needs of that invariant who owns which lock: only its owner changes
what a DDC worker knows, and it publishes before it lets go.

**`OneProcessDrives` and the sockets.** `LockInv`: a process past `Acquire` and before `Release` is the
holder of its lock, a lock's holder is such a process, and whoever has a handler in the core opened the
device under the lock, or is draining. `SocketInv` adds that while a process
holds its lock, what it found at its path still stands: nobody else binds or removes there, because
whoever could would hold the same lock. That is where `OneLockPerPath` enters.

**Helpers and sensors.** `HelperInv`: where a reader has ended, its pipe is empty and nobody can
write to it (`StreamInv`), the leader's PID is its own until it is reaped and no stranger was hit
(`PidInv`), a member of the group lives past a timeout only with a `SIGKILL` pending (`GroupInv`), and a result says how
the readers ended (`ResultInv`). `CpuInv` bounds the samples without a reading by the failures counted; `EnergyInv` says that the counter is
the last sample plus what was drawn since, modulo its width.

**`CallsGetTheirAnswers`.** Ids are reused by every connection, so the invariant `IdInv` speaks of one:
every request and answer under way has an id already given out, and one that is
still awaited is about the command that awaits it.

**`SettingsAgreeAtRest`.** `UiInv` follows the four copies of the setting through a save, a start
and an undo: which of them may differ at each step (`SaveInv`, `CopiesInv`), and what the page is about to be told
(`PageInv`).

**`PageShowsItAtRest`.** `FeedInv` says that every change not yet sent is carried by a job
(`SentInv`), that the last status on its way to the page (bus, wire, app) is the newest sent (`PipeInv`), and that
the guard of `bridge-init.js` lets through only what is newest or has been superseded
(`ShownInv`). The order of locks and broadcasts enters through `JobInv`, answers through `AskInv` and `ReplyInv`.

**Only model-checked**: the liveness properties, since fairness and `ENABLED` are out
of the prover's reach: `ControlReturns`, `TransitionsCatchUp`, `AvailabilityIsAnnounced`,
`StoppedIsLeftToFirmware`, `RetriedWithoutGpuSwitch`, `SignalledDaemonsEnd`, `HelperReturns`, `CallsReturn`
and `GpuFallsAsleep`. Nothing is taken as an axiom; no module declares a recursive operator.

## Not modelled

* `hw/mock.rs`, a simulator for development without the laptop; the screens of
  the app, which present the stores; packaging (`fangd.service` excepted, which
  `FangCore` follows); the vendored GLib bindings.
* The limit on the length of a request, deadlines of requests, the limit on
  connections, and lines cut by a write timeout (`server.rs`): `StatusFeed` ends the
  connection where a write times out.
* Parsing of sysfs, KScreen and xrandr output, panel brightness, window
  placement: single reads or calls, without state between them.
* Which supplies `power.rs` counts as mains: `FangCore` takes its verdict as an input.
* The updater, the simulator and the freshness of telemetry in the page.

## Plan

Done: all modules above, their runs, and the proofs listed. Left, in order:

1. An abstract specification `FanGuard` (a guard that may slow a fan only on
   evidence), refined by `FangCore`; the invariant it needs is proved.
2. Limits of the server: request length, deadlines, connection slots, lines cut
   in half, and a client that reads slowly.
3. The power supplies of `power.rs` and the settings of panel and KScreen.
