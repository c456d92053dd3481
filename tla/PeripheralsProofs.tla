------------------------- MODULE PeripheralsProofs -------------------------
(***************************************************************************)
(* The safety of the peripheral workers for any number of connections, any *)
(* monitors and any requests.                                              *)
(*                                                                         *)
(* GpuIsPublished is not inductive: it has to be known who may be between  *)
(* the switch and the snapshot's update.  The worker there is the one that *)
(* holds the GPU lock, the copy it is about to write back carries the      *)
(* switch's present state, and only such a worker can explain a snapshot   *)
(* that is behind.                                                         *)
(***************************************************************************)
EXTENDS Peripherals, TLAPS

DdcType ==
    [display : BOOLEAN, presets : SUBSET Nat,
     preset : Nat \cup {None}, brightness : Nat \cup {None}]
GpuType == [mode : GpuModes, pending : BOOLEAN]
SnapshotType == [ddc : DdcType, gpu : GpuType]
TaskType ==
    [step : {"idle", "queued", "calling", "syncing", "copying", "writing"},
     req : Request \cup {RescanIfMissing, None},
     copy : SnapshotType \cup {None}]

Types ==
    /\ monitor \in MonitorType \cup {None} /\ swapped \in BOOLEAN
    /\ ddc \in DdcType /\ gpu \in GpuType /\ snapshot \in SnapshotType
    /\ lock \in [ddc : Tasks \cup {None}, gpu : Tasks \cup {None}]
    /\ task \in [Tasks -> TaskType]

Holds(t) == task[t].step \in {"calling", "syncing", "copying", "writing"}
Publishes(t) == task[t].step \in {"copying", "writing"}

Ownership ==
    \A t \in Tasks :
        /\ task[t].step # "idle" => task[t].req \in Request \cup {RescanIfMissing}
        /\ Holds(t) => lock[LockOf(task[t].req)] = t
        /\ Publishes(t) => IsGpu(task[t].req)
        /\ task[t].step = "syncing" => ~IsGpu(task[t].req)
        /\ task[t].step = "writing" => task[t].copy \in SnapshotType /\ task[t].copy.gpu = gpu

Explained == snapshot.gpu = gpu \/ \E t \in Tasks : Publishes(t)

IInv == Types /\ Ownership /\ Explained /\ CachedPresetIsShown

-----------------------------------------------------------------------------
(* What the DDC worker's calls may leave. *)

LEMMA DiscoveriesLemma ==
    ASSUME Types, NEW d \in Discoveries
    PROVE  /\ d \in DdcType
           /\ d.display /\ d.preset # None => monitor # None /\ monitor.preset = d.preset
<1>1. CASE d = NoDdc
  BY <1>1 DEF NoDdc, DdcType
<1>2. CASE d # NoDdc
  <2>1. monitor # None /\ monitor \in MonitorType
    BY <1>2 DEF Discoveries, Types
  <2>2. monitor.luminance \in Nat /\ monitor.preset \in Nat
    BY <2>1 DEF MonitorType
  <2>3. Percent(monitor.luminance) \in Nat
    <3>1. monitor.luminance * 100 \in Nat
      BY <2>2
    <3> QED
      BY <3>1, MonitorsAssumption DEF Percent
  <2>4. d \in [display : {TRUE}, presets : {Presets({}), Presets(Offered)},
               preset : {None, monitor.preset},
               brightness : {None, Percent(monitor.luminance)}]
    BY <1>2, <2>1 DEF Discoveries
  <2>5. Presets({}) \in SUBSET Nat /\ Presets(Offered) \in SUBSET Nat
    BY MonitorsAssumption DEF Presets
  <2> QED
    BY <2>1, <2>2, <2>3, <2>4, <2>5 DEF DdcType
<1> QED
  BY <1>1, <1>2

LEMMA WrittenLemma ==
    ASSUME Types, NEW field \in {"preset", "luminance"}, NEW value \in Nat
    PROVE  Written(field, value) \in MonitorType \cup {None}
<1> QED
  BY DEF Types, Written, MonitorType

\* A successful write leaves what was cached for it; any other leaves no cache.
LEMMA WriteLemma ==
    ASSUME Types, NEW cached \in DdcType, NEW written \in MonitorType \cup {None},
           NEW o \in WriteOutcomes(cached, written)
    PROVE  /\ o.ddc \in DdcType /\ o.monitor \in MonitorType \cup {None}
           /\ \/ monitor # None /\ o.ddc = cached /\ o.monitor = written
              \/ ~o.ddc.display
<1>1. NoDdc \in DdcType /\ ~NoDdc.display
  BY DEF NoDdc, DdcType
<1>2. CASE monitor # None /\ o = [ddc |-> cached, monitor |-> written]
  BY <1>2
<1>3. ASSUME NEW m \in {monitor, written}, o = [ddc |-> NoDdc, monitor |-> m]
      PROVE  /\ o.ddc \in DdcType /\ o.monitor \in MonitorType \cup {None}
             /\ ~o.ddc.display
  BY <1>1, <1>3 DEF Types
<1>4. \/ monitor # None /\ o = [ddc |-> cached, monitor |-> written]
      \/ \E m \in {monitor, written} : o = [ddc |-> NoDdc, monitor |-> m]
  BY DEF WriteOutcomes
<1> QED
  BY <1>2, <1>3, <1>4

LEMMA DdcOutcomesLemma ==
    ASSUME Types, CachedPresetIsShown, NEW req \in Request \cup {RescanIfMissing},
           ~IsGpu(req), NEW o \in DdcOutcomes(req)
    PROVE  /\ o.ddc \in DdcType /\ o.monitor \in MonitorType \cup {None}
           /\ /\ o.ddc.display /\ o.ddc.preset # None
              /\ ~swapped \/ IsRescan(req)
              /\ o.monitor # None
              => o.monitor.preset = o.ddc.preset
<1> DEFINE Shown(d, m) ==
        d.display /\ d.preset # None /\ (~swapped \/ IsRescan(req)) /\ m # None
            => m.preset = d.preset
<1>1. CASE req.op = "SetColorPreset"
  <2>1. ~IsRescan(req) /\ o \in SetColorPreset(req.value) /\ req.value \in Nat
    BY <1>1 DEF DdcOutcomes, IsRescan, Request, RescanIfMissing
  <2>2. CASE o = Keep
    BY <2>1, <2>2 DEF Keep, Types, CachedPresetIsShown
  <2>3. CASE o # Keep
    <3> DEFINE cached == [ddc EXCEPT !.preset = req.value]
               written == Written("preset", req.value)
    <3>1. o \in WriteOutcomes(cached, written)
      BY <2>1, <2>3 DEF SetColorPreset
    <3>2. cached \in DdcType /\ cached.preset = req.value
      BY <2>1 DEF Types, DdcType
    <3>3. written \in MonitorType \cup {None}
      BY <2>1, WrittenLemma
    <3>4. monitor # None => written.preset = req.value
      BY <2>1 DEF Written, Types, MonitorType
    <3> HIDE DEF cached, written
    <3> QED
      BY <3>1, <3>2, <3>3, <3>4, WriteLemma
  <2> QED
    BY <2>2, <2>3
<1>2. CASE req.op = "SetMonitorBrightness"
  <2> DEFINE percent == AtMost100(req.value)
  <2>1. ~IsRescan(req) /\ o \in SetMonitorBrightness(req.value) /\ req.value \in Nat
    BY <1>2 DEF DdcOutcomes, IsRescan, Request, RescanIfMissing
  <2>2. CASE o = Keep
    BY <2>1, <2>2 DEF Keep, Types, CachedPresetIsShown
  <2>3. CASE o # Keep
    <3> DEFINE cached == [ddc EXCEPT !.brightness = percent]
               written == Written("luminance", Raw(percent))
    <3>1. o \in WriteOutcomes(cached, written) /\ ddc.display
      BY <2>1, <2>3 DEF SetMonitorBrightness
    <3>2. percent \in Nat
      BY <2>1 DEF AtMost100
    <3>3. Raw(percent) \in Nat
      <4>1. percent * BrightMax \in Nat
        BY <3>2, MonitorsAssumption
      <4> QED
        BY <4>1 DEF Raw
    <3>4. cached \in DdcType /\ cached.display = ddc.display /\ cached.preset = ddc.preset
      BY <3>2 DEF Types, DdcType
    <3>5. written \in MonitorType \cup {None}
      BY <3>3, WrittenLemma
    <3>6. monitor # None => written.preset = monitor.preset
      BY DEF Written, Types, MonitorType
    <3> HIDE DEF cached, written, percent
    <3> QED
      BY <2>1, <3>1, <3>4, <3>5, <3>6, WriteLemma DEF CachedPresetIsShown
  <2> QED
    BY <2>2, <2>3
<1>3. CASE IsRescan(req)
  <2>1. req.op # "SetColorPreset" /\ req.op # "SetMonitorBrightness"
    BY <1>3 DEF IsRescan
  <2>2. o \in Rediscover
    BY <1>3, <2>1 DEF DdcOutcomes
  <2>3. PICK d \in Discoveries : o = [ddc |-> d, monitor |-> monitor]
    BY <2>2 DEF Rediscover
  <2> QED
    BY <2>3, DiscoveriesLemma DEF Types
<1>4. req.op = "SetColorPreset" \/ req.op = "SetMonitorBrightness" \/ IsRescan(req)
  BY DEF IsGpu, IsRescan, Request, RescanIfMissing
<1> QED
  BY <1>1, <1>2, <1>3, <1>4

-----------------------------------------------------------------------------
(* The steps. *)

LEMMA InitIInv == Init => IInv
<1> SUFFICES ASSUME Init PROVE IInv
  OBVIOUS
<1>1. monitor \in MonitorType \cup {None} /\ swapped = FALSE
  BY MonitorsAssumption DEF Init
<1>2. ddc \in DdcType /\ CachedPresetIsShown
  <2>1. CASE ddc = NoDdc
    BY <2>1 DEF NoDdc, DdcType, CachedPresetIsShown
  <2>2. CASE monitor # None /\ ddc \in [display : {TRUE}, presets : {Presets({}), Presets(Offered)},
               preset : {None, monitor.preset},
               brightness : {None, Percent(monitor.luminance)}]
    <3>1. monitor.luminance * 100 \in Nat /\ monitor.preset \in Nat
      BY <1>1, <2>2 DEF MonitorType
    <3>2. Percent(monitor.luminance) \in Nat
      BY <3>1, MonitorsAssumption DEF Percent
    <3>3. Presets({}) \in SUBSET Nat /\ Presets(Offered) \in SUBSET Nat
      BY MonitorsAssumption DEF Presets
    <3> QED
      BY <2>2, <3>1, <3>2, <3>3 DEF DdcType, CachedPresetIsShown
  <2> QED
    BY <2>1, <2>2 DEF Init, Discoveries
<1>3. Types
  BY <1>1, <1>2 DEF Init, Types, GpuType, SnapshotType, TaskType, Idle, Tasks
<1>4. Ownership
  BY DEF Init, Ownership, Idle, Holds, Publishes
<1>5. Explained
  BY DEF Init, Explained
<1> QED
  BY <1>2, <1>3, <1>4, <1>5 DEF IInv

LEMMA QueueLemma ==
    ASSUME IInv, NEW t \in Tasks, NEW req \in Request \cup {RescanIfMissing}, Queue(t, req)
    PROVE  IInv'
<1> USE DEF IInv
<1> DEFINE asked == [task[t] EXCEPT !.step = "queued", !.req = req]
<1>a. task \in [Tasks -> TaskType]
  BY DEF Types
<1>b. task' = [task EXCEPT ![t] = asked]
  BY <1>a DEF Queue, TaskType
<1>c. asked \in TaskType /\ asked.step = "queued" /\ asked.req = req
  BY <1>a DEF TaskType
<1>1. /\ task[t].step = "idle"
      /\ \A u \in Tasks \ {t} : task'[u] = task[u]
      /\ task'[t].step = "queued" /\ task'[t].req = req /\ task' \in [Tasks -> TaskType]
  <2>1. task[t].step = "idle"
    BY DEF Queue, Idle
  <2> HIDE DEF asked
  <2> QED
    BY <1>a, <1>b, <1>c, <2>1
<1>2. Types'
  BY <1>1 DEF Queue, Types
<1>3. Ownership'
  BY <1>1 DEF Queue, Ownership, Holds, Publishes
<1>4. Explained'
  BY <1>1 DEF Queue, Explained, Publishes
<1> QED
  BY <1>2, <1>3, <1>4 DEF Queue, CachedPresetIsShown

LEMMA LockOfLemma ==
    ASSUME NEW req
    PROVE  /\ LockOf(req) \in {"ddc", "gpu"}
           /\ LockOf(req) = "gpu" <=> IsGpu(req)
<1> QED
  BY DEF LockOf

LEMMA TaskIsNotNone == \A t \in Tasks : t # None
<1> QED
  BY TasksAssumption DEF Tasks

\* A worker that returns leaves the others as they were, and its lock free.
LEMMA ReturnLemma ==
    ASSUME IInv, NEW t \in Tasks, Holds(t), Return(t)
    PROVE  /\ task' \in [Tasks -> TaskType]
           /\ lock' \in [ddc : Tasks \cup {None}, gpu : Tasks \cup {None}]
           /\ task'[t] = Idle
           /\ \A u \in Tasks \ {t} :
                 task'[u] = task[u]
                 /\ (Holds(u) => lock'[LockOf(task[u].req)] = u)
<1> USE DEF IInv
<1>1. /\ task' \in [Tasks -> TaskType] /\ task'[t] = Idle
      /\ \A u \in Tasks \ {t} : task'[u] = task[u]
  BY DEF Return, Types, TaskType, Idle
<1>2. lock' \in [ddc : Tasks \cup {None}, gpu : Tasks \cup {None}]
  BY LockOfLemma DEF Return, Types
<1>3. ASSUME NEW u \in Tasks \ {t}, Holds(u)
      PROVE  lock'[LockOf(task[u].req)] = u
  <2>1. lock[LockOf(task[u].req)] = u /\ lock[LockOf(task[t].req)] = t
    BY <1>3 DEF Ownership
  <2> QED
    BY <2>1, LockOfLemma DEF Return, Types
<1> QED
  BY <1>1, <1>2, <1>3

LEMMA BeginLemma ==
    ASSUME IInv, NEW t \in Tasks, Begin(t)
    PROVE  IInv'
<1> USE DEF IInv
<1> DEFINE req == task[t].req
<1>1. req \in Request \cup {RescanIfMissing} /\ task[t].step = "queued"
  BY DEF Begin, Ownership
<1>2. NothingToDo(req) => ~IsGpu(req)
  BY DEF NothingToDo, IsGpu, RescanIfMissing
<1>3. /\ task' \in [Tasks -> TaskType]
      /\ \A u \in Tasks \ {t} : task'[u] = task[u]
      /\ task'[t].req = req
      /\ task'[t].step = IF NothingToDo(req) THEN "syncing" ELSE "calling"
  BY DEF Begin, Step, Types, TaskType
<1>4. /\ lock' \in [ddc : Tasks \cup {None}, gpu : Tasks \cup {None}]
      /\ lock'[LockOf(req)] = t
      /\ \A k \in {"ddc", "gpu"} : lock[k] # None => lock'[k] = lock[k]
  BY LockOfLemma DEF Begin, Types
<1>5. Types'
  BY <1>3, <1>4 DEF Begin, Types
<1>6. ASSUME NEW u \in Tasks
      PROVE  /\ task'[u].step # "idle" => task'[u].req \in Request \cup {RescanIfMissing}
             /\ Holds(u)' => lock'[LockOf(task'[u].req)] = u
             /\ Publishes(u)' => IsGpu(task'[u].req)
             /\ task'[u].step = "syncing" => ~IsGpu(task'[u].req)
             /\ task'[u].step = "writing" =>
                    task'[u].copy \in SnapshotType /\ task'[u].copy.gpu = gpu
  <2>1. CASE u = t
    BY <1>1, <1>2, <1>3, <1>4, <2>1 DEF Holds, Publishes
  <2>2. CASE u # t
    <3>1. task'[u] = task[u]
      BY <1>3, <2>2
    <3>2. Holds(u) => lock'[LockOf(task[u].req)] = u
      BY <1>4, LockOfLemma, TaskIsNotNone DEF Ownership
    <3> QED
      BY <3>1, <3>2 DEF Ownership, Holds, Publishes
  <2> QED
    BY <2>1, <2>2
<1>7. Ownership'
  BY <1>6 DEF Begin, Ownership
<1>8. Explained'
  BY <1>1, <1>3 DEF Begin, Explained, Publishes
<1> QED
  BY <1>5, <1>7, <1>8 DEF Begin, CachedPresetIsShown

LEMMA CallDdcLemma ==
    ASSUME IInv, NEW t \in Tasks, CallDdc(t)
    PROVE  IInv'
<1> USE DEF IInv
<1> DEFINE req == task[t].req
<1>1. req \in Request \cup {RescanIfMissing} /\ ~IsGpu(req) /\ task[t].step = "calling"
  BY DEF CallDdc, Ownership
<1>2. PICK o \in DdcOutcomes(req) : ddc' = o.ddc /\ monitor' = o.monitor
  BY DEF CallDdc
<1>3. /\ ddc' \in DdcType /\ monitor' \in MonitorType \cup {None}
      /\ ddc'.display /\ ddc'.preset # None /\ (~swapped \/ IsRescan(req)) /\ monitor' # None
         => monitor'.preset = ddc'.preset
  BY <1>1, <1>2, DdcOutcomesLemma
<1>4. swapped' \in BOOLEAN /\ (~swapped' => ~swapped \/ IsRescan(req))
  BY DEF CallDdc, Types
<1>5. /\ task' \in [Tasks -> TaskType]
      /\ \A u \in Tasks \ {t} : task'[u] = task[u]
      /\ task'[t].req = req /\ task'[t].step = "syncing"
  BY DEF CallDdc, Step, Types, TaskType
<1>6. Types'
  BY <1>3, <1>4, <1>5 DEF CallDdc, Types
<1>7. Ownership'
  BY <1>1, <1>5 DEF CallDdc, Ownership, Holds, Publishes
<1>8. Explained'
  BY <1>1, <1>5 DEF CallDdc, Explained, Publishes
<1>9. CachedPresetIsShown'
  BY <1>3, <1>4 DEF CachedPresetIsShown
<1> QED
  BY <1>6, <1>7, <1>8, <1>9

\* What a worker's return leaves to be shown: the ownership of the others.
LEMMA ReturnOwnership ==
    ASSUME IInv, NEW t \in Tasks, Holds(t), Return(t), UNCHANGED gpu
    PROVE  Ownership'
<1> USE DEF IInv
<1>1. /\ task'[t] = Idle
      /\ \A u \in Tasks \ {t} :
            task'[u] = task[u] /\ (Holds(u) => lock'[LockOf(task[u].req)] = u)
  BY ReturnLemma
<1>2. ASSUME NEW u \in Tasks
      PROVE  /\ task'[u].step # "idle" => task'[u].req \in Request \cup {RescanIfMissing}
             /\ Holds(u)' => lock'[LockOf(task'[u].req)] = u
             /\ Publishes(u)' => IsGpu(task'[u].req)
             /\ task'[u].step = "syncing" => ~IsGpu(task'[u].req)
             /\ task'[u].step = "writing" =>
                    task'[u].copy \in SnapshotType /\ task'[u].copy.gpu = gpu'
  <2>1. CASE u = t
    BY <1>1, <2>1 DEF Idle, Holds, Publishes
  <2>2. CASE u # t
    BY <1>1, <2>2 DEF Ownership, Holds, Publishes
  <2> QED
    BY <2>1, <2>2
<1> QED
  BY <1>2 DEF Ownership

LEMMA SyncDdcLemma ==
    ASSUME IInv, NEW t \in Tasks, SyncDdc(t)
    PROVE  IInv'
<1> USE DEF IInv
<1>1. task[t].step = "syncing" /\ Holds(t) /\ Return(t)
  BY DEF SyncDdc, Holds
<1>2. snapshot' \in SnapshotType /\ snapshot'.gpu = snapshot.gpu
  BY DEF SyncDdc, Types, SnapshotType
<1>3. Types'
  BY <1>1, <1>2, ReturnLemma DEF SyncDdc, Types
<1>4. Ownership'
  BY <1>1, ReturnOwnership DEF SyncDdc
<1>5. Explained'
  BY <1>1, <1>2, ReturnLemma DEF SyncDdc, Explained, Publishes
<1> QED
  BY <1>3, <1>4, <1>5 DEF SyncDdc, CachedPresetIsShown

LEMMA GpuFailsLemma ==
    ASSUME IInv, NEW t \in Tasks, GpuFails(t)
    PROVE  IInv'
<1> USE DEF IInv
<1>1. task[t].step = "calling" /\ Holds(t) /\ Return(t)
  BY DEF GpuFails, Holds
<1>2. Types'
  BY <1>1, ReturnLemma DEF GpuFails, Types
<1>3. Ownership'
  BY <1>1, ReturnOwnership DEF GpuFails
<1>4. Explained'
  BY <1>1, ReturnLemma DEF GpuFails, Explained, Publishes
<1> QED
  BY <1>2, <1>3, <1>4 DEF GpuFails, CachedPresetIsShown

\* Two workers that hold the GPU lock are one.
LEMMA OnePublisher ==
    ASSUME IInv, NEW t \in Tasks, NEW u \in Tasks,
           Holds(t), IsGpu(task[t].req), Publishes(u)
    PROVE  u = t
<1>1. IsGpu(task[u].req) /\ Holds(u)
  BY DEF IInv, Ownership, Publishes, Holds
<1>2. LockOf(task[t].req) = "gpu" /\ LockOf(task[u].req) = "gpu"
  BY <1>1 DEF LockOf
<1> QED
  BY <1>1, <1>2 DEF IInv, Ownership

LEMMA GpuSwitchesLemma ==
    ASSUME IInv, NEW t \in Tasks, GpuSwitches(t)
    PROVE  IInv'
<1> USE DEF IInv
<1>1. /\ task[t].step = "calling" /\ IsGpu(task[t].req) /\ Holds(t)
      /\ task[t].req \in Request
  BY DEF GpuSwitches, Holds, Ownership, IsGpu, RescanIfMissing
<1>2. gpu' \in GpuType
  BY <1>1 DEF GpuSwitches, GpuType, IsGpu, Request
<1>3. /\ task' \in [Tasks -> TaskType]
      /\ \A u \in Tasks \ {t} : task'[u] = task[u]
      /\ task'[t].req = task[t].req /\ task'[t].step = "copying"
  BY DEF GpuSwitches, Step, Types, TaskType
<1>4. Types'
  BY <1>2, <1>3 DEF GpuSwitches, Types
<1>5. \A u \in Tasks \ {t} : ~Publishes(u)
  BY <1>1, OnePublisher
<1>6. Ownership'
  BY <1>1, <1>3, <1>5 DEF GpuSwitches, Ownership, Holds, Publishes
<1>7. Explained'
  BY <1>3 DEF Explained, Publishes
<1> QED
  BY <1>4, <1>6, <1>7 DEF GpuSwitches, CachedPresetIsShown

LEMMA CopySnapshotLemma ==
    ASSUME IInv, NEW t \in Tasks, CopySnapshot(t)
    PROVE  IInv'
<1> USE DEF IInv
<1> DEFINE copied == [snapshot EXCEPT !.gpu = gpu]
           written == [task[t] EXCEPT !.step = "writing", !.copy = copied]
<1>1. task[t].step = "copying" /\ Publishes(t) /\ Holds(t) /\ IsGpu(task[t].req)
  BY DEF CopySnapshot, Publishes, Holds, Ownership
<1>2. copied \in SnapshotType /\ copied.gpu = gpu
  BY DEF Types, SnapshotType
<1>3. task \in [Tasks -> TaskType]
  BY DEF Types
<1>4. task' = [task EXCEPT ![t] = written]
  BY <1>3 DEF CopySnapshot, TaskType
<1>5. /\ written \in TaskType /\ written.step = "writing"
      /\ written.req = task[t].req /\ written.copy = copied
  <2> HIDE DEF copied
  <2> QED
    BY <1>2, <1>3 DEF TaskType
<1>6. /\ task' \in [Tasks -> TaskType]
      /\ \A u \in Tasks \ {t} : task'[u] = task[u]
      /\ task'[t] = written
  <2> HIDE DEF written
  <2> QED
    BY <1>3, <1>4, <1>5
<1> HIDE DEF copied, written
<1>7. Types'
  BY <1>6 DEF CopySnapshot, Types
<1>8. Ownership'
  <2>1. ASSUME NEW u \in Tasks
        PROVE  /\ task'[u].step # "idle" => task'[u].req \in Request \cup {RescanIfMissing}
               /\ Holds(u)' => lock[LockOf(task'[u].req)] = u
               /\ Publishes(u)' => IsGpu(task'[u].req)
               /\ task'[u].step = "syncing" => ~IsGpu(task'[u].req)
               /\ task'[u].step = "writing" =>
                      task'[u].copy \in SnapshotType /\ task'[u].copy.gpu = gpu
    <3>1. CASE u = t
      BY <1>1, <1>2, <1>5, <1>6, <3>1 DEF Ownership, Holds, Publishes
    <3>2. CASE u # t
      BY <1>6, <3>2 DEF Ownership, Holds, Publishes
    <3> QED
      BY <3>1, <3>2
  <2> QED
    BY <2>1 DEF CopySnapshot, Ownership
<1>9. Explained'
  BY <1>5, <1>6 DEF Explained, Publishes
<1> QED
  BY <1>7, <1>8, <1>9 DEF CopySnapshot, CachedPresetIsShown

LEMMA WriteSnapshotLemma ==
    ASSUME IInv, NEW t \in Tasks, WriteSnapshot(t)
    PROVE  IInv'
<1> USE DEF IInv
<1>1. task[t].step = "writing" /\ Holds(t) /\ Return(t)
  BY DEF WriteSnapshot, Holds
<1>2. snapshot' \in SnapshotType /\ snapshot'.gpu = gpu
  BY <1>1 DEF WriteSnapshot, Ownership
<1>3. Types'
  BY <1>1, <1>2, ReturnLemma DEF WriteSnapshot, Types
<1>4. Ownership'
  BY <1>1, ReturnOwnership DEF WriteSnapshot
<1>5. Explained'
  BY <1>2 DEF WriteSnapshot, Explained
<1> QED
  BY <1>3, <1>4, <1>5 DEF WriteSnapshot, CachedPresetIsShown

LEMMA PlugLemma ==
    ASSUME IInv, Plug
    PROVE  IInv'
<1> USE DEF IInv
<1>1. Types'
  BY MonitorsAssumption DEF Plug, Types
<1>2. Ownership' /\ Explained'
  BY DEF Plug, Ownership, Explained, Holds, Publishes
<1> QED
  BY <1>1, <1>2 DEF Plug, CachedPresetIsShown

LEMMA NextIInv == IInv /\ [Next]_vars => IInv'
<1> SUFFICES ASSUME IInv, [Next]_vars PROVE IInv'
  OBVIOUS
<1>1. CASE RescanTick
  BY <1>1, QueueLemma DEF RescanTick, Tasks
<1>2. CASE Plug
  BY <1>2, PlugLemma
<1>3. ASSUME NEW c \in Clients, Ask(c) PROVE IInv'
  BY <1>3, QueueLemma, RequestsAssumption DEF Ask, Tasks
<1>4. ASSUME NEW t \in Tasks, Begin(t) \/ Work(t) PROVE IInv'
  BY <1>4, BeginLemma, CallDdcLemma, SyncDdcLemma, GpuFailsLemma, GpuSwitchesLemma,
     CopySnapshotLemma, WriteSnapshotLemma DEF Work
<1>5. CASE UNCHANGED vars
  <2>1. Types'
    BY <1>5 DEF vars, IInv, Types
  <2>2. Ownership' /\ Explained'
    BY <1>5 DEF vars, IInv, Ownership, Explained, Holds, Publishes
  <2> QED
    BY <1>5, <2>1, <2>2 DEF vars, IInv, CachedPresetIsShown
<1> QED
  BY <1>1, <1>2, <1>3, <1>4, <1>5 DEF Next

-----------------------------------------------------------------------------
(* The theorems. *)

\* A snapshot that is behind the switch is explained by a worker that holds the
\* GPU lock, so a free lock means the snapshot is up to date.
LEMMA IInvImplies == IInv => GpuIsPublished
<1> SUFFICES ASSUME IInv, lock.gpu = None PROVE snapshot.gpu = gpu
  BY DEF GpuIsPublished
<1>1. ASSUME NEW t \in Tasks, Publishes(t) PROVE FALSE
  <2>1. IsGpu(task[t].req) /\ Holds(t)
    BY <1>1 DEF IInv, Ownership, Publishes, Holds
  <2>2. lock.gpu = t
    BY <2>1 DEF IInv, Ownership, LockOf
  <2> QED
    BY <2>2, TaskIsNotNone
<1> QED
  BY <1>1 DEF IInv, Explained

\* set_gpu_mode publishes what it did (peripherals.rs): however many clients
\* switch the GPU and drive the monitor at once, no worker that returns leaves
\* an older GPU state in the snapshot.
THEOREM SwitchIsPublished == Spec => []GpuIsPublished
<1>1. Init => IInv
  BY InitIInv
<1>2. IInv /\ [Next]_vars => IInv'
  BY NextIInv
<1>3. IInv => GpuIsPublished
  BY IInvImplies
<1> QED
  BY <1>1, <1>2, <1>3, PTL DEF Spec

\* The DDC worker's cache never shows a colour preset the monitor does not have
\* (ddc.rs), whichever writes fail or are killed halfway, as long as the
\* monitor is the one that was discovered.
THEOREM CacheIsTrue == Spec => []CachedPresetIsShown
<1>1. Init => IInv
  BY InitIInv
<1>2. IInv /\ [Next]_vars => IInv'
  BY NextIInv
<1>3. IInv => CachedPresetIsShown
  BY DEF IInv
<1> QED
  BY <1>1, <1>2, <1>3, PTL DEF Spec

\* Each step but a GPU switch's last keeps a published monitor published.
LEMMA UpdatesStay ==
    ASSUME IInv, [Next]_vars, Behind', ~Behind
    PROVE  \E t \in Tasks : WriteSnapshot(t) /\ task[t].copy.ddc # snapshot.ddc
<1> USE DEF IInv
<1>1. ASSUME UNCHANGED <<ddc, snapshot, lock>> PROVE FALSE
  BY <1>1 DEF Behind
<1>2. ASSUME NEW t \in Tasks, NEW req, Queue(t, req) PROVE FALSE
  BY <1>1, <1>2 DEF Queue
<1>3. ASSUME NEW t \in Tasks, Begin(t) PROVE FALSE
  <2>1. lock'.ddc = None => lock.ddc = None
    BY <1>3, TaskIsNotNone, LockOfLemma DEF Begin, Ownership, Types
  <2> QED
    BY <1>3, <2>1 DEF Begin, Behind
<1>4. ASSUME NEW t \in Tasks, CallDdc(t) PROVE FALSE
  <2>1. lock.ddc = t
    BY <1>4 DEF CallDdc, Ownership, Holds, LockOf
  <2> QED
    BY <1>4, <2>1, TaskIsNotNone DEF CallDdc, Behind
<1>5. ASSUME NEW t \in Tasks, SyncDdc(t) PROVE FALSE
  <2>1. snapshot'.ddc = ddc'
    BY <1>5 DEF SyncDdc, Types, SnapshotType
  <2> QED
    BY <2>1 DEF Behind
<1>6. ASSUME NEW t \in Tasks, GpuFails(t) \/ WriteSnapshot(t)
      PROVE  lock'.ddc = lock.ddc /\ ddc' = ddc
  <2>1. IsGpu(task[t].req) /\ Return(t) /\ ddc' = ddc
    BY <1>6 DEF GpuFails, WriteSnapshot, Ownership, Publishes
  <2> QED
    BY <2>1 DEF Return, LockOf, Types
<1>7. ASSUME NEW t \in Tasks, GpuFails(t) PROVE FALSE
  BY <1>6, <1>7 DEF GpuFails, Behind
<1>8. ASSUME NEW t \in Tasks, GpuSwitches(t) \/ CopySnapshot(t) PROVE FALSE
  BY <1>1, <1>8 DEF GpuSwitches, CopySnapshot
<1>9. ASSUME NEW t \in Tasks, WriteSnapshot(t) PROVE task[t].copy.ddc # snapshot.ddc
  BY <1>6, <1>9 DEF WriteSnapshot, Behind
<1>10. CASE Plug \/ UNCHANGED vars
  BY <1>1, <1>10 DEF Plug, vars
<1> QED
  BY <1>2, <1>3, <1>4, <1>5, <1>7, <1>8, <1>9, <1>10 DEF Next, Ask, RescanTick, Work, Tasks

\* What a DDC operation learnt reaches the clients and stays with them, however
\* many clients work at once, until the next one: but for a GPU switch that writes
\* back an older copy (peripherals.rs 132-135).
THEOREM UpdatesAreLostOnlyToSwitches == Spec => OnlyGpuSwitchesLoseUpdates
<1>1. Init => IInv
  BY InitIInv
<1>2. IInv /\ [Next]_vars => IInv'
  BY NextIInv
<1>3. IInv /\ [Next]_vars =>
        [Behind' /\ ~Behind =>
            \E t \in Tasks : WriteSnapshot(t) /\ task[t].copy.ddc # snapshot.ddc]_vars
  BY UpdatesStay
<1> QED
  BY <1>1, <1>2, <1>3, PTL DEF Spec, OnlyGpuSwitchesLoseUpdates
=============================================================================
