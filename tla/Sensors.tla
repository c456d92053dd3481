------------------------------ MODULE Sensors ------------------------------
(***************************************************************************)
(* Where the daemon's readings come from (sensors.rs, runtime_pm.rs): the   *)
(* CPU temperature file that a driver may move, a discrete GPU that should  *)
(* be left asleep, and an energy counter that wraps.  The three share       *)
(* nothing; each has variables and steps of its own.                        *)
(***************************************************************************)
EXTENDS Integers

CONSTANTS
    SensorFiles,      \* paths the CPU sensor may have
    RediscoverAfter,  \* CPU_REDISCOVER_AFTER_FAILURES (5)
    SuspendDelay,     \* how long the kernel lets an unused GPU stay awake
    MaxEnergy         \* max_energy_range_uj

NoFile == "none"

ASSUME SensorsAssumption ==
    /\ NoFile \notin SensorFiles
    /\ RediscoverAfter \in Nat \ {0}
    /\ SuspendDelay \in Nat \ {0}
    /\ MaxEnergy \in Nat \ {0}

VARIABLES
    chip,       \* where the CPU sensor is now
    other,      \* where another chip has a temperature of its own
    file,       \* cpu_temp_file
    failures,   \* cpu_temp_failures
    missed      \* readings missed in a row while a sensor could be read
cpuVars == <<chip, other, file, failures, missed>>

VARIABLES
    control,    \* the kernel's runtime power management of the GPU: "auto" or "on"
    legible,    \* can runtime_usage be read
    status,     \* "active" or "suspended"
    users,      \* is another program using the GPU
    countdown,  \* until the kernel suspends an unused GPU
    nvml,       \* NvmlState
    snapshot,   \* what the daemon has read of this sample
    step        \* the next file it reads
gpuVars == <<control, legible, status, users, countdown, nvml, snapshot, step>>

VARIABLES
    counter,    \* energy_uj
    last,       \* the previous sample, or -1
    drawn,      \* what was really drawn since then
    delta       \* what the daemon took it for, or -1
energyVars == <<counter, last, drawn, delta>>

-----------------------------------------------------------------------------
(* The CPU temperature.                                                     *)

\* Two chips never share a file.
Places == {p \in (SensorFiles \cup {NoFile}) \X (SensorFiles \cup {NoFile}) :
              p[1] = p[2] => p[1] = NoFile}

CpuInit ==
    /\ \E p \in Places : chip = p[1] /\ other = p[2]
    /\ file = chip
    /\ failures = 0 /\ missed = 0

\* Drivers are loaded, unloaded, or come back under other numbers.
MoveChips ==
    /\ \E p \in Places \ {<<chip, other>>} : chip' = p[1] /\ other' = p[2]
    /\ missed' = 0
    /\ UNCHANGED <<file, failures>>

\* The daemon keeps a path and no name: a file that is another chip's by now is
\* read like the CPU's.  A file may be there and still hold nonsense.
Readable(f, sane) == f # NoFile /\ (f = other \/ (f = chip /\ sane))

\* A sample without a reading although the CPU's sensor could be read.
CountMissed(found, sane) ==
    missed' = IF sane /\ chip # NoFile /\ ~Readable(found, sane)
              THEN IF missed < RediscoverAfter THEN missed + 1 ELSE missed
              ELSE 0

\* Mutant: only a missing file is looked for again.
ReadCpuFromOldFile(sane) ==
    LET found == IF file = NoFile THEN chip ELSE file
    IN  /\ file' = found /\ failures' = 0
        /\ CountMissed(found, sane)
        /\ UNCHANGED <<chip, other>>

\* Sensors::cpu_temperature; find_cpu_temp goes by the chip's name.
ReadCpu(sane) ==
    LET tired == failures + 1 >= RediscoverAfter
    IN  /\ CASE Readable(file, sane) -> failures' = 0 /\ UNCHANGED file
             [] ~Readable(file, sane) /\ ~tired -> failures' = failures + 1 /\ UNCHANGED file
             [] OTHER -> file' = chip /\ failures' = 0
        /\ CountMissed(file', sane)
        /\ UNCHANGED <<chip, other>>

CpuNext == MoveChips \/ \E sane \in BOOLEAN : ReadCpu(sane)

-----------------------------------------------------------------------------
(* The discrete GPU.                                                        *)

Unread == [control |-> "", status |-> "", users |-> FALSE]

GpuInit ==
    /\ control \in {"auto", "on"} /\ legible \in BOOLEAN
    /\ status = "active" /\ users = FALSE /\ countdown = SuspendDelay
    /\ nvml = "untried" /\ snapshot = Unread /\ step = "control"

\* Programs come and go; one that comes wakes the GPU.
UseGpu ==
    /\ users' = ~users
    /\ status' = "active" /\ countdown' = SuspendDelay
    /\ UNCHANGED <<control, legible, nvml, snapshot, step>>

SetControl ==
    /\ control' \in {"auto", "on"} \ {control}
    /\ status' = IF control' = "on" THEN "active" ELSE status
    /\ countdown' = SuspendDelay
    /\ UNCHANGED <<legible, users, nvml, snapshot, step>>

Unused == control = "auto" /\ ~users /\ status = "active"

Age ==
    /\ Unused /\ countdown > 0
    /\ countdown' = countdown - 1
    /\ UNCHANGED <<control, legible, status, users, nvml, snapshot, step>>

AutoSuspend ==
    /\ Unused /\ countdown = 0
    /\ status' = "suspended"
    /\ UNCHANGED <<control, legible, users, countdown, nvml, snapshot, step>>

\* RuntimePmSnapshot::read takes three files one after the other.
ReadPm ==
    /\ CASE step = "control" -> step' = "status" /\ snapshot' = [Unread EXCEPT !.control = control]
         [] step = "status" -> step' = "usage" /\ snapshot' = [snapshot EXCEPT !.status = status]
         [] step = "usage" -> step' = "decide" /\ snapshot' = [snapshot EXCEPT !.users = users]
         [] step = "decide" -> FALSE
    /\ UNCHANGED <<control, legible, status, users, countdown, nvml>>

\* Mutant: an active device is queried whoever keeps it active.
ShouldQueryActive == snapshot.control # "auto" \/ snapshot.status = "active"

\* should_query_gpu: an unreadable usage count permits the query.
ShouldQuery ==
    \/ snapshot.control # "auto"
    \/ snapshot.status = "active" /\ (snapshot.users \/ ~legible)

\* gpu_reading: NVML is initialised once, when a query is first permitted.  An
\* initialisation or a query uses the GPU for a moment.
Query ==
    /\ step = "decide" /\ ShouldQuery
    /\ \/ nvml = "untried" /\ nvml' \in {"ready", "unavailable"}
       \/ nvml # "untried" /\ UNCHANGED nvml
    /\ IF nvml = "unavailable" THEN UNCHANGED <<status, countdown>>
       ELSE status' = "active" /\ countdown' = SuspendDelay
    /\ step' = "control" /\ snapshot' = Unread
    /\ UNCHANGED <<control, legible, users>>

SkipQuery ==
    /\ step = "decide" /\ ~ShouldQuery
    /\ step' = "control" /\ snapshot' = Unread
    /\ UNCHANGED <<control, legible, status, users, countdown, nvml>>

GpuRead == ReadPm \/ Query \/ SkipQuery
GpuNext == UseGpu \/ SetControl \/ Age \/ AutoSuspend \/ GpuRead

-----------------------------------------------------------------------------
(* Energy.                                                                  *)

EnergyInit == counter \in 0..MaxEnergy /\ last = -1 /\ drawn = 0 /\ delta = -1

\* Between two samples the counter wraps at most once.
Draw ==
    /\ drawn < MaxEnergy
    /\ drawn' = drawn + 1
    /\ counter' = IF counter = MaxEnergy THEN 0 ELSE counter + 1
    /\ UNCHANGED <<last, delta>>

\* Mutant: a counter that wrapped is taken for one that stood still.
EnergyBetweenSaturating(prev, uj) == IF uj >= prev THEN uj - prev ELSE 0

EnergyBetween(prev, uj) == IF uj >= prev THEN uj - prev ELSE MaxEnergy - prev + uj

\* Rapl::read_watts.  A sample may fail to read; the next one then covers both.
Sample ==
    /\ delta' = IF last = -1 THEN -1 ELSE EnergyBetween(last, counter)
    /\ last' = counter
    /\ drawn' = 0
    /\ UNCHANGED counter

EnergyNext == Draw \/ Sample

-----------------------------------------------------------------------------
(* Properties.                                                              *)

\* While the CPU's sensor can be read, the daemon is without a reading for a
\* bounded number of samples only, wherever drivers have moved the sensor
\* (sensors.rs 155-185).  That the reading is the CPU's own is not promised: a
\* cached path that another chip has taken over is read without another look.
CpuSensorIsFoundAgain == missed < RediscoverAfter

\* Once nobody uses a GPU the kernel manages, it goes to sleep and stays so:
\* sampling once a second neither keeps it awake nor wakes it
\* (runtime_pm.rs 28-44, sensors.rs 38-41).
GpuFallsAsleep ==
    <>[](control = "auto" /\ legible /\ ~users) => <>[](status = "suspended")

\* A sample reports what was drawn since the previous one, wrapped or not; a
\* wrap costs the one unit by which max_energy_range_uj is short of a turn
\* (sensors.rs 83-103).
EnergyIsTrue ==
    [][drawn' = 0 /\ last # -1 => delta' = drawn - IF counter < last THEN 1 ELSE 0]_energyVars
=============================================================================
