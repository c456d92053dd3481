--------------------------- MODULE HelperProcess ---------------------------
(***************************************************************************)
(* One bounded run of a helper program (process.rs): the polling parent,    *)
(* its two reader threads, and a helper that writes more than a pipe holds, *)
(* whose descendants inherit its pipes, outlive it, or leave its group.     *)
(* Left out: errors of read and of try_wait, which a pipe and an unreaped   *)
(* child do not give, and a reader that panics.                             *)
(***************************************************************************)
EXTENDS Naturals, FiniteSets

CONSTANTS
    Descendants,  \* processes the helper may start
    PipeSize,     \* what a pipe holds before a writer blocks
    OutputLimit,  \* MAX_HELPER_OUTPUT_BYTES
    MostOutput    \* bound on what a helper writes to one stream

Leader == "leader"
Members == Descendants \cup {Leader}
Streams == {"stdout", "stderr"}

ASSUME HelperAssumption ==
    /\ Leader \notin Descendants
    /\ PipeSize \in Nat \ {0}
    /\ OutputLimit \in Nat
    /\ MostOutput \in Nat

VARIABLES
    member,    \* Members: "unborn", "inside" or "outside" the group, or "gone"
    doomed,    \* Members a SIGKILL is pending for
    hangs,     \* Members that never end by themselves
    holds,     \* per stream: Members holding the write end
    want,      \* per stream: what the helper still has to write
    pipe,      \* per stream: what the pipe holds
    taken,     \* per stream: what the reader kept
    lost,      \* per stream: did the reader drop bytes
    reader,    \* per stream: "reading", "sent" its result, "received"
    reaped,    \* has the parent waited for the leader
    reused,    \* does the leader's PID name an unrelated group
    hit,       \* did the parent signal such a group
    late,      \* has the deadline passed
    parent     \* where output_with_timeout is

childVars == <<member, doomed, hangs, holds, want>>
streamVars == <<pipe, taken, lost, reader>>
pidVars == <<reaped, reused, hit>>
helperVars == <<childVars, streamVars, pidVars, late, parent>>

Outcomes == {"ok", "truncated", "timed out"}
Alive(m) == member[m] \in {"inside", "outside"}

\* spawn: the leader runs in a process group of its own.
HelperInit ==
    /\ member = [m \in Members |-> IF m = Leader THEN "inside" ELSE "unborn"]
    /\ doomed = {}
    /\ hangs \in SUBSET Members
    /\ holds = [s \in Streams |-> {Leader}]
    /\ want \in [Streams -> 0..MostOutput]
    /\ pipe = [s \in Streams |-> 0]
    /\ taken = [s \in Streams |-> 0]
    /\ lost = [s \in Streams |-> FALSE]
    /\ reader = [s \in Streams |-> "reading"]
    /\ reaped = FALSE /\ reused = FALSE /\ hit = FALSE /\ late = FALSE
    /\ parent = "poll"

-----------------------------------------------------------------------------
(* The helper.                                                              *)

Free(m) == Alive(m) /\ m \notin doomed

\* A writer blocks while the pipe is full.
Write(s) ==
    /\ Free(Leader) /\ Leader \in holds[s]
    /\ want[s] > 0 /\ pipe[s] < PipeSize
    /\ want' = [want EXCEPT ![s] = @ - 1]
    /\ pipe' = [pipe EXCEPT ![s] = @ + 1]
    /\ UNCHANGED <<member, doomed, hangs, holds, taken, lost, reader, pidVars, late, parent>>

\* A child inherits the group and the pipes of the process that starts it.
Fork(m, d) ==
    /\ Free(m) /\ member[d] = "unborn"
    /\ member' = [member EXCEPT ![d] = member[m]]
    /\ holds' = [s \in Streams |-> IF m \in holds[s] THEN holds[s] \cup {d} ELSE holds[s]]
    /\ UNCHANGED <<doomed, hangs, want, streamVars, pidVars, late, parent>>

\* setsid: the leader of a group cannot leave it.
LeaveGroup(d) ==
    /\ d # Leader /\ Free(d)
    /\ member' = [member EXCEPT ![d] = "outside"]
    /\ UNCHANGED <<doomed, hangs, holds, want, streamVars, pidVars, late, parent>>

\* A member may let go of a stream and carry on.
Close(m, s) ==
    /\ Free(m) /\ m \in holds[s]
    /\ m = Leader => want[s] = 0
    /\ holds' = [holds EXCEPT ![s] = @ \ {m}]
    /\ UNCHANGED <<member, doomed, hangs, want, streamVars, pidVars, late, parent>>

\* A program ends once it has written its output; a killed one at once.
End(m) ==
    /\ Alive(m)
    /\ m \in doomed \/ m # Leader \/ \A s \in Streams : want[s] = 0
    /\ member' = [member EXCEPT ![m] = "gone"]
    /\ holds' = [s \in Streams |-> holds[s] \ {m}]
    /\ UNCHANGED <<doomed, hangs, want, streamVars, pidVars, late, parent>>

\* The kernel reuses a PID that is reaped and names no group any more.
ReusePid ==
    /\ reaped /\ ~reused
    /\ \A m \in Members : member[m] # "inside"
    /\ reused' = TRUE
    /\ UNCHANGED <<childVars, streamVars, reaped, hit, late, parent>>

-----------------------------------------------------------------------------
(* The reader threads: everything is drained, OutputLimit of it kept.       *)

\* Mutant: a reader stops once it kept all it may.
DrainUpToTheLimit(s) ==
    /\ reader[s] = "reading" /\ pipe[s] > 0 /\ taken[s] < OutputLimit
    /\ pipe' = [pipe EXCEPT ![s] = @ - 1]
    /\ taken' = [taken EXCEPT ![s] = @ + 1]
    /\ UNCHANGED <<childVars, lost, reader, pidVars, late, parent>>

Drain(s) ==
    LET kept == IF taken[s] + pipe[s] > OutputLimit THEN OutputLimit ELSE taken[s] + pipe[s]
    IN  /\ reader[s] = "reading" /\ pipe[s] > 0
        /\ pipe' = [pipe EXCEPT ![s] = 0]
        /\ taken' = [taken EXCEPT ![s] = kept]
        /\ lost' = [lost EXCEPT ![s] = @ \/ kept < taken[s] + pipe[s]]
        /\ UNCHANGED <<childVars, reader, pidVars, late, parent>>

\* Mutant: a reader ends when the leader has let go of the pipe.
EndOfLeader(s) ==
    /\ reader[s] = "reading" /\ pipe[s] = 0 /\ Leader \notin holds[s]
    /\ reader' = [reader EXCEPT ![s] = "sent"]
    /\ UNCHANGED <<childVars, pipe, taken, lost, pidVars, late, parent>>

EndOfFile(s) ==
    /\ reader[s] = "reading" /\ pipe[s] = 0 /\ holds[s] = {}
    /\ reader' = [reader EXCEPT ![s] = "sent"]
    /\ UNCHANGED <<childVars, pipe, taken, lost, pidVars, late, parent>>

-----------------------------------------------------------------------------
(* The parent: one pass of its loop per step.                               *)

\* Mutant: the leader is reaped as soon as it has ended.
ReapEarly == ~reaped /\ member[Leader] = "gone"

\* try_wait comes after both results, so that until then the leader's PID
\* keeps naming the helper's group.
MayReap == ~reaped /\ (\A s \in Streams : reader[s] # "reading") /\ member[Leader] = "gone"

Poll ==
    LET received == \A s \in Streams : reader[s] # "reading"
    IN  /\ parent = "poll"
        /\ reader' = [s \in Streams |-> IF reader[s] = "sent" THEN "received" ELSE reader[s]]
        /\ reaped' = (reaped \/ MayReap)
        /\ parent' = CASE reaped' /\ received ->
                              IF \E s \in Streams : lost[s] THEN "truncated" ELSE "ok"
                       [] ~(reaped' /\ received) /\ late -> "kill"
                       [] OTHER -> "poll"
        /\ UNCHANGED <<childVars, pipe, taken, lost, reused, hit, late>>

\* kill(-pid) reaches whatever group the PID names by now.
Kill ==
    /\ parent = "kill"
    /\ IF reused
       THEN hit' = TRUE /\ UNCHANGED doomed
       ELSE /\ doomed' = doomed \cup {m \in Members : member[m] = "inside"}
            /\ UNCHANGED hit
    /\ parent' = "reap"
    /\ UNCHANGED <<member, hangs, holds, want, streamVars, reaped, reused, late>>

\* Child::wait; the reader threads are not joined.
Reap ==
    /\ parent = "reap"
    /\ reaped \/ member[Leader] = "gone"
    /\ reaped' = TRUE
    /\ parent' = "timed out"
    /\ UNCHANGED <<childVars, streamVars, reused, hit, late>>

Expire ==
    /\ ~late /\ parent = "poll"
    /\ late' = TRUE
    /\ UNCHANGED <<childVars, streamVars, pidVars, parent>>

Returned == parent \in Outcomes /\ UNCHANGED helperVars

Parent == Poll \/ Kill \/ Reap

HelperNext ==
    \/ \E s \in Streams : Write(s) \/ Drain(s) \/ EndOfFile(s)
    \/ \E m \in Members : End(m) \/ LeaveGroup(m)
    \/ \E m \in Members, d \in Descendants : Fork(m, d)
    \/ \E m \in Members, s \in Streams : Close(m, s)
    \/ ReusePid \/ Parent \/ Expire \/ Returned

\* The parent and the readers run; a process that does not hang finishes; the
\* clock is needed only by helpers that hang, so that a run in which nothing
\* hangs must end without its help.
HelperFairness ==
    /\ WF_helperVars(Parent)
    /\ \A s \in Streams :
        WF_helperVars(Write(s)) /\ WF_helperVars(Drain(s)) /\ WF_helperVars(EndOfFile(s))
    /\ \A m \in Members : WF_helperVars((m \notin hangs \/ m \in doomed) /\ End(m))
    /\ WF_helperVars(hangs # {} /\ Expire)

HelperSpec == HelperInit /\ [][HelperNext]_helperVars /\ HelperFairness

-----------------------------------------------------------------------------
(* Properties.                                                              *)

\* A result is complete: every byte the helper wrote was read, nobody can write
\* more, and the helper has ended.
OkMeansComplete ==
    parent = "ok" =>
        /\ member[Leader] = "gone"
        /\ \A s \in Streams : holds[s] = {} /\ pipe[s] = 0 /\ ~lost[s]

\* A timeout kills the helper's group, all of it and nothing else: the leader
\* is reaped last, so that its PID names no stranger's group when it is
\* signalled (process.rs 84-86, 100-105), and no zombie after that.
KillReachesTheGroup ==
    /\ ~hit
    /\ parent = "timed out" => reaped /\ \A m \in Members : member[m] = "inside" => m \in doomed

\* Every call returns: by the helper's own end when nothing hangs, however much
\* it writes (process.rs 40-42), and otherwise by the deadline, even if a
\* process outside the group keeps the pipes open.
HelperReturns == <>(parent \in Outcomes)
=============================================================================
