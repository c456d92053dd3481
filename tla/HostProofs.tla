----------------------------- MODULE HostProofs -----------------------------
(***************************************************************************)
(* Proofs about two components that talk to the operating system: the       *)
(* bounded run of a helper program, for any tree of processes and any       *)
(* amount of output, and the sensors, for any files and counters.           *)
(***************************************************************************)
EXTENDS HelperProcess, Sensors, TLAPS

-----------------------------------------------------------------------------
(* A run of a helper: the inductive invariant.                              *)

HelperType ==
    /\ member \in [Members -> {"unborn", "inside", "outside", "gone"}]
    /\ doomed \in SUBSET Members /\ hangs \in SUBSET Members
    /\ holds \in [Streams -> SUBSET Members]
    /\ want \in [Streams -> Nat] /\ pipe \in [Streams -> Nat] /\ taken \in [Streams -> Nat]
    /\ lost \in [Streams -> BOOLEAN]
    /\ reader \in [Streams -> {"reading", "sent", "received"}]
    /\ reaped \in BOOLEAN /\ reused \in BOOLEAN /\ hit \in BOOLEAN /\ late \in BOOLEAN
    /\ parent \in {"poll", "kill", "reap"} \cup Outcomes

\* A stream whose reader has ended is empty, and nobody can write to it.
Drained(s) == pipe[s] = 0 /\ holds[s] = {}
StreamInv == \A s \in Streams : reader[s] # "reading" => Drained(s)

\* Until the parent has killed the group or has both results, the leader is not
\* reaped, so that its PID is nobody else's.
PidInv ==
    /\ reused => reaped
    /\ reaped => member[Leader] = "gone"
    /\ parent \in {"poll", "kill"} => ~reaped
    /\ ~hit

\* A process that is born after the group was killed is not in it.
Condemned == \A m \in Members : member[m] = "inside" => m \in doomed
GroupInv ==
    /\ parent \in {"reap", "timed out"} => Condemned
    /\ parent = "timed out" => reaped

ResultInv ==
    parent \in {"ok", "truncated"} =>
        /\ member[Leader] = "gone"
        /\ \A s \in Streams : reader[s] # "reading"
        /\ parent = "ok" => \A s \in Streams : ~lost[s]

HelperInv == HelperType /\ StreamInv /\ PidInv /\ GroupInv /\ ResultInv

LEMMA HelperBegins == HelperInit => HelperInv
<1> SUFFICES ASSUME HelperInit PROVE HelperInv
  OBVIOUS
<1> USE DEF HelperInit
<1>1. HelperType
  <2>1. Leader \in Members
    BY DEF Members
  <2>2. want \in [Streams -> Nat] /\ hangs \in SUBSET Members
    BY HelperAssumption
  <2>3. member \in [Members -> {"unborn", "inside", "outside", "gone"}]
    OBVIOUS
  <2>4. holds \in [Streams -> SUBSET Members] /\ lost \in [Streams -> BOOLEAN]
    BY <2>1
  <2> QED
    BY <2>2, <2>3, <2>4 DEF HelperType
<1>2. StreamInv /\ PidInv /\ GroupInv /\ ResultInv
  BY DEF StreamInv, PidInv, GroupInv, ResultInv
<1> QED
  BY <1>1, <1>2 DEF HelperInv

\* Steps of the helper's processes that leave the streams' readers and the
\* parent alone; nobody starts anew to hold a stream that nobody holds.
LEMMA ProcessesKeep ==
    ASSUME HelperInv, HelperType',
           UNCHANGED <<lost, reader, pidVars, parent>>,
           \A s \in Streams : Drained(s) => Drained(s)',
           member[Leader] = "gone" => member'[Leader] = "gone",
           doomed' = doomed,
           Condemned => Condemned'
    PROVE  HelperInv'
<1> USE DEF HelperInv, pidVars
<1>1. StreamInv'
  BY DEF StreamInv
<1>2. PidInv' /\ GroupInv' /\ ResultInv'
  BY DEF PidInv, GroupInv, ResultInv
<1> QED
  BY <1>1, <1>2

LEMMA WriteKeeps ==
    ASSUME HelperInv, NEW s \in Streams, Write(s)
    PROVE  HelperInv'
<1>1. /\ Leader \in holds[s] /\ want[s] > 0
      /\ want' = [want EXCEPT ![s] = @ - 1] /\ pipe' = [pipe EXCEPT ![s] = @ + 1]
      /\ UNCHANGED <<member, doomed, hangs, holds, taken, lost, reader, pidVars, late, parent>>
  BY DEF Write
<1>2. HelperType'
  BY <1>1 DEF HelperInv, HelperType, pidVars
<1>3. \A x \in Streams : Drained(x) => Drained(x)'
  BY <1>1 DEF HelperInv, HelperType, Drained
<1>4. Condemned => Condemned'
  BY <1>1 DEF Condemned
<1> QED
  BY <1>1, <1>2, <1>3, <1>4, ProcessesKeep

LEMMA ForkKeeps ==
    ASSUME HelperInv, NEW m \in Members, NEW d \in Descendants, Fork(m, d)
    PROVE  HelperInv'
<1>1. /\ Free(m) /\ member[d] = "unborn" /\ member' = [member EXCEPT ![d] = member[m]]
      /\ holds' = [s \in Streams |-> IF m \in holds[s] THEN holds[s] \cup {d} ELSE holds[s]]
      /\ UNCHANGED <<doomed, hangs, want, streamVars, pidVars, late, parent>>
  BY DEF Fork
<1>2. d \in Members /\ d # Leader /\ Leader \in Members
  BY HelperAssumption DEF Members
<1>3. HelperType'
  BY <1>1, <1>2 DEF HelperInv, HelperType, pidVars, streamVars
<1>4. \A s \in Streams : Drained(s) => Drained(s)'
  BY <1>1 DEF Drained, streamVars
<1>5. Condemned => Condemned'
  BY <1>1, <1>2 DEF HelperInv, HelperType, Condemned, Free
<1>6. member'[Leader] = member[Leader]
  BY <1>1, <1>2 DEF HelperInv, HelperType
<1> QED
  BY <1>1, <1>3, <1>4, <1>5, <1>6, ProcessesKeep DEF streamVars

LEMMA LeaveGroupKeeps ==
    ASSUME HelperInv, NEW d \in Members, LeaveGroup(d)
    PROVE  HelperInv'
<1>1. /\ d # Leader /\ member' = [member EXCEPT ![d] = "outside"]
      /\ UNCHANGED <<doomed, hangs, holds, want, streamVars, pidVars, late, parent>>
  BY DEF LeaveGroup
<1>2. HelperType' /\ member'[Leader] = member[Leader]
  BY <1>1 DEF HelperInv, HelperType, pidVars, streamVars, Members
<1>3. \A s \in Streams : Drained(s) => Drained(s)'
  BY <1>1 DEF Drained, streamVars
<1>4. Condemned => Condemned'
  BY <1>1 DEF HelperInv, HelperType, Condemned
<1> QED
  BY <1>1, <1>2, <1>3, <1>4, ProcessesKeep DEF streamVars

LEMMA CloseKeeps ==
    ASSUME HelperInv, NEW m \in Members, NEW s \in Streams, Close(m, s)
    PROVE  HelperInv'
<1>1. /\ holds' = [holds EXCEPT ![s] = @ \ {m}]
      /\ UNCHANGED <<member, doomed, hangs, want, streamVars, pidVars, late, parent>>
  BY DEF Close
<1>2. HelperType'
  BY <1>1 DEF HelperInv, HelperType, pidVars, streamVars
<1>3. \A x \in Streams : Drained(x) => Drained(x)'
  BY <1>1 DEF HelperInv, HelperType, Drained, streamVars
<1>4. Condemned => Condemned'
  BY <1>1 DEF Condemned
<1> QED
  BY <1>1, <1>2, <1>3, <1>4, ProcessesKeep DEF streamVars

LEMMA EndKeeps ==
    ASSUME HelperInv, NEW m \in Members, End(m)
    PROVE  HelperInv'
<1>1. /\ member' = [member EXCEPT ![m] = "gone"]
      /\ holds' = [s \in Streams |-> holds[s] \ {m}]
      /\ UNCHANGED <<doomed, hangs, want, streamVars, pidVars, late, parent>>
  BY DEF End
<1>2. HelperType' /\ (member[Leader] = "gone" => member'[Leader] = "gone")
  BY <1>1 DEF HelperInv, HelperType, pidVars, streamVars, Members
<1>3. \A s \in Streams : Drained(s) => Drained(s)'
  BY <1>1 DEF Drained, streamVars
<1>4. Condemned => Condemned'
  BY <1>1 DEF HelperInv, HelperType, Condemned
<1> QED
  BY <1>1, <1>2, <1>3, <1>4, ProcessesKeep DEF streamVars

LEMMA ReadersKeep ==
    ASSUME HelperInv, NEW s \in Streams, Drain(s) \/ EndOfFile(s)
    PROVE  HelperInv'
<1>1. reader[s] = "reading" /\ UNCHANGED <<childVars, pidVars, late, parent>>
  BY DEF Drain, EndOfFile
<1>2. HelperType'
  <2>1. CASE Drain(s)
    <3> DEFINE kept == IF taken[s] + pipe[s] > OutputLimit THEN OutputLimit ELSE taken[s] + pipe[s]
               drops == lost[s] \/ kept < taken[s] + pipe[s]
    <3>1. /\ pipe' = [pipe EXCEPT ![s] = 0] /\ taken' = [taken EXCEPT ![s] = kept]
          /\ lost' = [lost EXCEPT ![s] = drops] /\ reader' = reader
      BY <2>1 DEF Drain
    <3>2. kept \in Nat /\ drops \in BOOLEAN
      BY HelperAssumption DEF HelperInv, HelperType
    <3> HIDE DEF kept, drops
    <3> QED
      BY <1>1, <3>1, <3>2 DEF HelperInv, HelperType, childVars, pidVars
  <2>2. CASE EndOfFile(s)
    BY <1>1, <2>2 DEF EndOfFile, HelperInv, HelperType, childVars, pidVars
  <2> QED
    BY <2>1, <2>2
<1>3. StreamInv'
  <2>1. CASE Drain(s)
    BY <1>1, <2>1 DEF Drain, HelperInv, HelperType, StreamInv, Drained, childVars
  <2>2. CASE EndOfFile(s)
    BY <1>1, <2>2 DEF EndOfFile, HelperInv, HelperType, StreamInv, Drained, childVars
  <2> QED
    BY <2>1, <2>2
<1>4. PidInv' /\ GroupInv'
  BY <1>1 DEF HelperInv, PidInv, GroupInv, Condemned, childVars, pidVars
<1>5. ResultInv'
  BY <1>1 DEF HelperInv, ResultInv
<1> QED
  BY <1>2, <1>3, <1>4, <1>5 DEF HelperInv

LEMMA ReusePidKeeps ==
    ASSUME HelperInv, ReusePid
    PROVE  HelperInv'
<1>1. reaped /\ reused' = TRUE /\ UNCHANGED <<childVars, streamVars, reaped, hit, late, parent>>
  BY DEF ReusePid
<1> QED
  BY <1>1 DEF HelperInv, HelperType, StreamInv, PidInv, GroupInv, ResultInv, Drained, Condemned,
              childVars, streamVars

LEMMA PollKeeps ==
    ASSUME HelperInv, Poll
    PROVE  HelperInv'
<1> DEFINE both == \A s \in Streams : reader[s] # "reading"
<1>1. /\ parent = "poll" /\ ~reaped
      /\ reader' = [s \in Streams |-> IF reader[s] = "sent" THEN "received" ELSE reader[s]]
      /\ UNCHANGED <<childVars, pipe, taken, lost, reused, hit, late>>
  BY DEF Poll, HelperInv, PidInv
<1>2. reaped' = (both /\ member[Leader] = "gone")
  BY <1>1 DEF Poll, MayReap
<1>3. \A s \in Streams : reader'[s] \in {"reading", "sent", "received"}
                         /\ (reader'[s] = "reading" <=> reader[s] = "reading")
  BY <1>1 DEF HelperInv, HelperType
<1>4. \/ reaped' /\ parent' = "ok" /\ \A s \in Streams : ~lost[s]
      \/ reaped' /\ parent' = "truncated"
      \/ ~reaped' /\ parent' \in {"poll", "kill"}
  <2>1. CASE both /\ member[Leader] = "gone"
    <3>1. reaped' = TRUE /\ parent' = IF \E s \in Streams : lost[s] THEN "truncated" ELSE "ok"
      BY <1>2, <2>1 DEF Poll
    <3> QED
      BY <3>1
  <2>2. CASE ~(both /\ member[Leader] = "gone")
    <3>1. reaped' = FALSE /\ parent' = IF late THEN "kill" ELSE "poll"
      BY <1>2, <2>2 DEF Poll
    <3> QED
      BY <3>1
  <2> QED
    BY <2>1, <2>2
<1>5. HelperType'
  BY <1>1, <1>2, <1>4 DEF HelperInv, HelperType, childVars, Outcomes
<1>6. StreamInv'
  BY <1>1, <1>3 DEF HelperInv, StreamInv, Drained, childVars
<1>7. PidInv'
  BY <1>1, <1>2, <1>4 DEF HelperInv, PidInv, childVars
<1>8. GroupInv'
  BY <1>4 DEF GroupInv
<1>9. ResultInv'
  BY <1>1, <1>2, <1>3, <1>4 DEF ResultInv, childVars
<1> QED
  BY <1>5, <1>6, <1>7, <1>8, <1>9 DEF HelperInv

LEMMA KillKeeps ==
    ASSUME HelperInv, Kill
    PROVE  HelperInv'
<1>1. /\ parent = "kill" /\ parent' = "reap" /\ ~reaped /\ ~reused
      /\ UNCHANGED <<member, hangs, holds, want, streamVars, reaped, reused, late>>
  BY DEF Kill, HelperInv, PidInv
<1>2. doomed' = doomed \cup {m \in Members : member[m] = "inside"} /\ hit' = hit
  BY <1>1 DEF Kill
<1>3. HelperType'
  BY <1>1, <1>2 DEF HelperInv, HelperType, streamVars
<1>4. StreamInv' /\ ResultInv' /\ PidInv'
  BY <1>1, <1>2 DEF HelperInv, StreamInv, ResultInv, PidInv, Drained, streamVars
<1>5. GroupInv'
  BY <1>1, <1>2 DEF GroupInv, Condemned
<1> QED
  BY <1>3, <1>4, <1>5 DEF HelperInv

LEMMA ReapKeeps ==
    ASSUME HelperInv, Reap
    PROVE  HelperInv'
<1>1. /\ parent = "reap" /\ parent' = "timed out" /\ reaped' = TRUE
      /\ reaped \/ member[Leader] = "gone"
      /\ UNCHANGED <<childVars, streamVars, reused, hit, late>>
  BY DEF Reap
<1>2. member[Leader] = "gone"
  BY <1>1 DEF HelperInv, PidInv
<1> QED
  BY <1>1, <1>2 DEF HelperInv, HelperType, StreamInv, PidInv, GroupInv, ResultInv, Drained,
                    Condemned, childVars, streamVars, Outcomes

LEMMA HelperStep ==
    ASSUME HelperInv, [HelperNext]_helperVars
    PROVE  HelperInv'
<1>1. CASE \E s \in Streams : Write(s) \/ Drain(s) \/ EndOfFile(s)
  BY <1>1, WriteKeeps, ReadersKeep
<1>2. CASE \E m \in Members : End(m) \/ LeaveGroup(m)
  BY <1>2, EndKeeps, LeaveGroupKeeps
<1>3. CASE \E m \in Members, d \in Descendants : Fork(m, d)
  BY <1>3, ForkKeeps
<1>4. CASE \E m \in Members, s \in Streams : Close(m, s)
  BY <1>4, CloseKeeps
<1>5. CASE ReusePid
  BY <1>5, ReusePidKeeps
<1>6. CASE Parent
  BY <1>6, PollKeeps, KillKeeps, ReapKeeps DEF Parent
<1>7. CASE Expire
  BY <1>7 DEF Expire, HelperInv, HelperType, StreamInv, PidInv, GroupInv, ResultInv, Drained,
              Condemned, childVars, streamVars, pidVars
<1>8. CASE UNCHANGED helperVars
  BY <1>8 DEF helperVars, HelperInv, HelperType, StreamInv, PidInv, GroupInv, ResultInv, Drained,
              Condemned, childVars, streamVars, pidVars
<1> QED
  BY <1>1, <1>2, <1>3, <1>4, <1>5, <1>6, <1>7, <1>8 DEF HelperNext, Returned

\* Type correctness and the invariant of a run of a helper (process.rs 42-130).
THEOREM HelperIsInvariant == HelperSpec => []HelperInv
<1> QED
  BY HelperBegins, HelperStep, PTL DEF HelperSpec

\* A result that is returned as complete is: everything the helper and its
\* descendants wrote was read, and nobody can write any more (process.rs 77-99).
THEOREM OkIsComplete == HelperSpec => []OkMeansComplete
<1>1. HelperInv => OkMeansComplete
  BY DEF HelperInv, ResultInv, StreamInv, Drained, OkMeansComplete
<1> QED
  BY <1>1, HelperIsInvariant, PTL

\* However many processes the helper starts and whenever the kernel reuses a
\* PID, a timeout kills the helper's group and never another one
\* (process.rs 84-111).
THEOREM TimeoutKillsTheGroup == HelperSpec => []KillReachesTheGroup
<1>1. HelperInv => KillReachesTheGroup
  BY DEF HelperInv, PidInv, GroupInv, Condemned, KillReachesTheGroup
<1> QED
  BY <1>1, HelperIsInvariant, PTL

-----------------------------------------------------------------------------
(* The sensors: each shares nothing with the others.                        *)

CpuSpec == CpuInit /\ [][CpuNext]_cpuVars
EnergySpec == EnergyInit /\ [][EnergyNext]_energyVars

\* No more readings of a sensor that could be read are missed than failures
\* are counted.
CpuInv ==
    /\ failures \in 0 .. RediscoverAfter - 1
    /\ missed \in 0 .. failures

\* Wherever drivers move the sensor and whenever, fewer than RediscoverAfter
\* samples in a row are without a reading while it can be read (sensors.rs
\* 155-185).
THEOREM CpuSensorIsAlwaysFound == CpuSpec => []CpuSensorIsFoundAgain
<1>1. CpuInit => CpuInv
  BY SensorsAssumption DEF CpuInit, CpuInv
<1>2. ASSUME CpuInv, [CpuNext]_cpuVars PROVE CpuInv'
  <2>1. CASE MoveChips
    BY <1>2, <2>1, SensorsAssumption DEF MoveChips, CpuInv
  <2>2. ASSUME NEW sane \in BOOLEAN, ReadCpu(sane) PROVE CpuInv'
    <3>1. missed' = IF sane /\ chip # NoFile /\ ~Readable(file', sane)
                    THEN IF missed < RediscoverAfter THEN missed + 1 ELSE missed ELSE 0
      BY <2>2 DEF ReadCpu, CountMissed
    <3>2. CASE Readable(file, sane)
      BY <1>2, <2>2, <3>1, <3>2, SensorsAssumption DEF ReadCpu, CpuInv
    <3>3. CASE ~Readable(file, sane) /\ failures + 1 < RediscoverAfter
      <4>1. failures' = failures + 1 /\ file' = file
        BY <1>2, <2>2, <3>3, SensorsAssumption DEF ReadCpu, CpuInv
      <4> QED
        BY <1>2, <3>1, <3>3, <4>1, SensorsAssumption DEF CpuInv
    <3>4. CASE ~Readable(file, sane) /\ ~(failures + 1 < RediscoverAfter)
      <4>1. failures' = 0 /\ file' = chip
        BY <1>2, <2>2, <3>4, SensorsAssumption DEF ReadCpu, CpuInv
      <4>2. sane /\ chip # NoFile => Readable(file', sane)
        BY <4>1 DEF Readable
      <4> QED
        BY <3>1, <4>1, <4>2, SensorsAssumption DEF CpuInv
    <3> QED
      BY <3>2, <3>3, <3>4
  <2>3. CASE UNCHANGED cpuVars
    BY <1>2, <2>3 DEF cpuVars, CpuInv
  <2> QED
    BY <1>2, <2>1, <2>2, <2>3 DEF CpuNext
<1>3. CpuInv => CpuSensorIsFoundAgain
  BY SensorsAssumption DEF CpuInv, CpuSensorIsFoundAgain
<1> QED
  BY <1>1, <1>2, <1>3, PTL DEF CpuSpec

\* The counter is where the previous sample and what was drawn since put it; a
\* turn of it is MaxEnergy + 1 units.
EnergyInv ==
    /\ counter \in 0..MaxEnergy /\ drawn \in 0..MaxEnergy /\ last \in -1..MaxEnergy
    /\ last # -1 => counter = IF last + drawn <= MaxEnergy THEN last + drawn
                              ELSE last + drawn - MaxEnergy - 1

LEMMA EnergyStep ==
    ASSUME EnergyInv, [EnergyNext]_energyVars
    PROVE  EnergyInv'
<1>1. CASE Draw
  <2>1. /\ drawn < MaxEnergy /\ drawn' = drawn + 1 /\ last' = last
        /\ counter' = IF counter = MaxEnergy THEN 0 ELSE counter + 1
    BY <1>1 DEF Draw
  <2> QED
    BY <2>1, SensorsAssumption DEF EnergyInv
<1>2. CASE Sample
  BY <1>2, SensorsAssumption DEF Sample, EnergyInv
<1>3. CASE UNCHANGED energyVars
  BY <1>3 DEF energyVars, EnergyInv
<1> QED
  BY <1>1, <1>2, <1>3 DEF EnergyNext

\* For every size of the counter, a sample is what was really drawn, short of
\* one unit when the counter wrapped (sensors.rs 83-103).
THEOREM EnergyIsAlwaysTrue == EnergySpec => EnergyIsTrue
<1>1. EnergyInit => EnergyInv
  BY SensorsAssumption DEF EnergyInit, EnergyInv
<1>2. ASSUME EnergyInv, [EnergyNext]_energyVars
      PROVE  [drawn' = 0 /\ last # -1 =>
                  delta' = drawn - IF counter < last THEN 1 ELSE 0]_energyVars
  <2>1. CASE Draw
    BY <1>2, <2>1, SensorsAssumption DEF Draw, EnergyInv
  <2>2. CASE Sample
    BY <1>2, <2>2, SensorsAssumption DEF Sample, EnergyBetween, EnergyInv
  <2> QED
    BY <1>2, <2>1, <2>2 DEF EnergyNext
<1> QED
  BY <1>1, <1>2, EnergyStep, PTL DEF EnergySpec, EnergyIsTrue
=============================================================================
