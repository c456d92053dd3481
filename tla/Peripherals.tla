---------------------------- MODULE Peripherals ----------------------------
(***************************************************************************)
(* The slow peripherals (peripherals.rs, ddc.rs, gpu.rs): an external       *)
(* monitor driven over DDC/CI and the GPU switch, each operated by a helper *)
(* program on a blocking worker behind a lock of its own, the snapshot both *)
(* share, and the loop that looks for a missing monitor (server.rs).        *)
(*                                                                          *)
(* A task is a client's connection, with one request at a time, or the      *)
(* rescan loop.  The seconds a helper program runs lie between a worker's   *)
(* Begin and its Call; the snapshot's own lock covers one step each.        *)
(***************************************************************************)
EXTENDS Integers

CONSTANTS
    Clients,     \* connections
    Rescanner,   \* ddc_rescan_loop
    Curated,     \* PRESETS: the colour presets the daemon has a name for
    Offered,     \* those the monitors at hand advertise
    Requests,    \* the requests of this instance
    Monitors,    \* the monitors that may be plugged in
    BrightMax,   \* their maximum of VCP 0x10
    GpuModes,
    None         \* no monitor, no value, a free lock

MonitorType == [preset : Nat, luminance : Nat]

Request ==
    [op : {"SetColorPreset", "SetMonitorBrightness"}, value : Nat]
    \cup [op : {"SetGpuMode"}, mode : GpuModes] \cup [op : {"RescanDdc"}]

ASSUME TasksAssumption == Rescanner \notin Clients /\ None \notin Clients \cup {Rescanner}
ASSUME MonitorsAssumption ==
    Monitors \subseteq MonitorType /\ Curated \subseteq Nat /\ BrightMax \in Nat \ {0}
ASSUME RequestsAssumption == Requests \subseteq Request

VARIABLES
    monitor,   \* what is plugged in: [preset, luminance] or None
    swapped,   \* it may not be the one that was discovered
    ddc,       \* Ddc: the worker's cache of the monitor
    gpu,       \* the GPU switch: [mode, pending]
    snapshot,  \* PeripheralSnapshot: [ddc, gpu]
    lock,      \* who holds the DDC lock and who the GPU lock
    task       \* [step, req, copy] of every task

vars == <<monitor, swapped, ddc, gpu, snapshot, lock, task>>

Tasks == Clients \cup {Rescanner}
Idle == [step |-> "idle", req |-> None, copy |-> None]

NoDdc == [display |-> FALSE, presets |-> {}, preset |-> None, brightness |-> None]

IsGpu(req) == req.op = "SetGpuMode"
IsRescan(req) == req.op \in {"RescanDdc", "RescanIfMissing"}
LockOf(req) == IF IsGpu(req) THEN "gpu" ELSE "ddc"
RescanIfMissing == [op |-> "RescanIfMissing"]

Step(t, step) == task' = [task EXCEPT ![t].step = step]

\* A worker returns: its lock is free and its task may take the next request.
Return(t) ==
    /\ task' = [task EXCEPT ![t] = Idle]
    /\ lock' = [lock EXCEPT ![LockOf(task[t].req)] = None]

-----------------------------------------------------------------------------
(* What a call on the DDC worker may leave: [ddc, monitor]. *)

Keep == [ddc |-> ddc, monitor |-> monitor]

Percent(luminance) == (luminance * 100) \div BrightMax
Raw(percent) == (percent * BrightMax) \div 100
AtMost100(percent) == IF percent > 100 THEN 100 ELSE percent

\* A monitor whose capabilities are not answered, or name no preset, is offered all.
Presets(supported) == IF supported = {} THEN Curated ELSE Curated \cap supported

\* Every query of a present monitor may go unanswered.
Discoveries ==
    {NoDdc} \cup
    IF monitor = None THEN {}
    ELSE [display : {TRUE}, presets : {Presets({}), Presets(Offered)}, preset : {None, monitor.preset},
          brightness : {None, Percent(monitor.luminance)}]

\* Mutant: a failed write leaves the cached monitor alone.
WriteOutcomesKept(cached, written) ==
    (IF monitor = None THEN {} ELSE {[ddc |-> cached, monitor |-> written]})
    \cup {[ddc |-> ddc, monitor |-> m] : m \in {monitor, written}}

\* setvcp: one that fails, or is killed at its deadline, may have reached the
\* monitor; the cache is dropped rather than trusted.
WriteOutcomes(cached, written) ==
    (IF monitor = None THEN {} ELSE {[ddc |-> cached, monitor |-> written]})
    \cup {[ddc |-> NoDdc, monitor |-> m] : m \in {monitor, written}}

Written(field, value) == IF monitor = None THEN None ELSE [monitor EXCEPT ![field] = value]

SetColorPreset(value) ==
    IF value \notin ddc.presets \/ ~ddc.display THEN {Keep}
    ELSE WriteOutcomes([ddc EXCEPT !.preset = value], Written("preset", value))

SetMonitorBrightness(value) ==
    LET percent == AtMost100(value)
    IN  IF ddc.brightness = None \/ ~ddc.display THEN {Keep}
        ELSE WriteOutcomes([ddc EXCEPT !.brightness = percent],
                           Written("luminance", Raw(percent)))

Rediscover == {[ddc |-> d, monitor |-> monitor] : d \in Discoveries}

DdcOutcomes(req) ==
    CASE req.op = "SetColorPreset" -> SetColorPreset(req.value)
      [] req.op = "SetMonitorBrightness" -> SetMonitorBrightness(req.value)
      [] IsRescan(req) -> Rediscover

-----------------------------------------------------------------------------
(* The steps. *)

\* Peripherals::open: one discovery, captured before any client is served.
Init ==
    /\ monitor \in Monitors \cup {None} /\ swapped = FALSE
    /\ ddc \in Discoveries
    /\ gpu \in [mode : GpuModes, pending : {FALSE}]
    /\ snapshot = [ddc |-> ddc, gpu |-> gpu]
    /\ lock = [ddc |-> None, gpu |-> None]
    /\ task = [t \in Tasks |-> Idle]

Queue(t, req) ==
    /\ task[t] = Idle
    /\ task' = [task EXCEPT ![t].step = "queued", ![t].req = req]
    /\ UNCHANGED <<monitor, swapped, ddc, gpu, snapshot, lock>>

\* A client's request reaches its worker.
Ask(c) == \E req \in Requests : Queue(c, req)

\* Every 15 s the loop asks for a discovery, unless the snapshot has a monitor.
RescanTick == ~snapshot.ddc.display /\ Queue(Rescanner, RescanIfMissing)

\* rediscover_if_unavailable: by now a client may have found the monitor.
NothingToDo(req) == req = RescanIfMissing /\ ddc.display

Begin(t) ==
    LET req == task[t].req
    IN  /\ task[t].step = "queued"
        /\ lock[LockOf(req)] = None
        /\ lock' = [lock EXCEPT ![LockOf(req)] = t]
        /\ Step(t, IF NothingToDo(req) THEN "syncing" ELSE "calling")
        /\ UNCHANGED <<monitor, swapped, ddc, gpu, snapshot>>

\* The helper programs of a DDC operation have run.
CallDdc(t) ==
    /\ task[t].step = "calling" /\ ~IsGpu(task[t].req)
    /\ \E o \in DdcOutcomes(task[t].req) : ddc' = o.ddc /\ monitor' = o.monitor
    /\ swapped' = (swapped /\ ~IsRescan(task[t].req))
    /\ Step(t, "syncing")
    /\ UNCHANGED <<gpu, snapshot, lock>>

\* Mutant: a call that lost the monitor is not published.
SyncDdcFound(t) ==
    /\ task[t].step = "syncing"
    /\ snapshot' = [snapshot EXCEPT !.ddc = IF ddc.display THEN ddc ELSE @]
    /\ Return(t)
    /\ UNCHANGED <<monitor, swapped, ddc, gpu>>

\* sync_ddc_snapshot, also after a failed call.
SyncDdc(t) ==
    /\ task[t].step = "syncing"
    /\ snapshot' = [snapshot EXCEPT !.ddc = ddc]
    /\ Return(t)
    /\ UNCHANGED <<monitor, swapped, ddc, gpu>>

GpuFails(t) ==
    /\ task[t].step = "calling" /\ IsGpu(task[t].req)
    /\ Return(t)
    /\ UNCHANGED <<monitor, swapped, ddc, gpu, snapshot>>

GpuSwitches(t) ==
    /\ task[t].step = "calling" /\ IsGpu(task[t].req)
    /\ gpu' = [mode |-> task[t].req.mode, pending |-> TRUE]
    /\ Step(t, "copying")
    /\ UNCHANGED <<monitor, swapped, ddc, snapshot, lock>>

\* Mutant: the GPU lock is released before the snapshot is written.
CopySnapshotUnlocked(t) ==
    /\ task[t].step = "copying"
    /\ task' = [task EXCEPT ![t].step = "writing",
                            ![t].copy = [snapshot EXCEPT !.gpu = gpu]]
    /\ lock' = [lock EXCEPT !.gpu = None]
    /\ UNCHANGED <<monitor, swapped, ddc, gpu, snapshot>>

\* set_gpu_mode reads the whole snapshot, sets the GPU's part...
CopySnapshot(t) ==
    /\ task[t].step = "copying"
    /\ task' = [task EXCEPT ![t].step = "writing",
                            ![t].copy = [snapshot EXCEPT !.gpu = gpu]]
    /\ UNCHANGED <<monitor, swapped, ddc, gpu, snapshot, lock>>

\* ... and writes the whole snapshot back.
WriteSnapshot(t) ==
    /\ task[t].step = "writing"
    /\ snapshot' = task[t].copy
    /\ Return(t)
    /\ UNCHANGED <<monitor, swapped, ddc, gpu>>

\* Somebody plugs in a monitor, pulls it or swaps it.
Plug ==
    /\ monitor' \in (Monitors \cup {None}) \ {monitor}
    /\ swapped' = TRUE
    /\ UNCHANGED <<ddc, gpu, snapshot, lock, task>>

Work(t) ==
    \/ CallDdc(t) \/ SyncDdc(t)
    \/ GpuFails(t) \/ GpuSwitches(t) \/ CopySnapshot(t) \/ WriteSnapshot(t)

Next ==
    \/ RescanTick \/ Plug
    \/ \E c \in Clients : Ask(c)
    \/ \E t \in Tasks : Begin(t) \/ Work(t)

\* tokio's timer ticks, a lock that stays free is taken by who waits for it, and
\* a worker that has its lock comes to an end: helper programs are killed at
\* their deadline.  Nothing is assumed of the order in which workers get a lock.
Fairness ==
    WF_vars(RescanTick) /\ \A t \in Tasks : WF_vars(Begin(t)) /\ WF_vars(Work(t))

Spec == Init /\ [][Next]_vars
FairSpec == Spec /\ Fairness

-----------------------------------------------------------------------------
(* Correctness. *)

\* What clients are told of the GPU is never behind the switch once no switch
\* is under way, whatever the DDC workers write into the same snapshot.
GpuIsPublished == lock.gpu = None => snapshot.gpu = gpu

\* The colour preset the daemon remembers is the one the monitor shows, unless
\* another monitor has been plugged in since discovery: a helper program that
\* failed or timed out leaves no belief behind, whatever it did.
CachedPresetIsShown ==
    ddc.display /\ ddc.preset # None /\ ~swapped /\ monitor # None
        => monitor.preset = ddc.preset

\* No DDC operation is under way, and what clients are told of the monitor is not
\* what the worker knows.
Behind == lock.ddc = None /\ snapshot.ddc # ddc

\* A DDC operation that returns, successful or not, leaves clients the worker's
\* newest knowledge of the monitor (sync_ddc_snapshot), and this is undone in
\* one way only: set_gpu_mode writes back a copy it took before (peripherals.rs 132-135).
OnlyGpuSwitchesLoseUpdates ==
    [][Behind' /\ ~Behind =>
          \E t \in Tasks : WriteSnapshot(t) /\ task[t].copy.ddc # snapshot.ddc]_vars

Retried == ddc.display \/ task[Rescanner].step # "idle"
NoGpuSwitch == \A t \in Tasks : task[t].step \notin {"copying", "writing"}

\* Discovery is retried "when a stale display failed" (server.rs:205): it is,
\* as long as no GPU switch writes the snapshot.
RetriedWithoutGpuSwitch == ([]NoGpuSwitch) => (~ddc.display ~> Retried)

\* The same without the condition: set_gpu_mode may write back a snapshot taken
\* before the display failed, and the loop believes it for good.
FailedDisplayIsRetried == ~ddc.display ~> Retried
=============================================================================
