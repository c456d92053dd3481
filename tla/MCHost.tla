------------------------------- MODULE MCHost -------------------------------
(***************************************************************************)
(* Two components that talk to the operating system, checked in one run:    *)
(* "focus" says which of them moves, the other one rests.                   *)
(***************************************************************************)
EXTENDS MCLifecycle, HelperProcess

VARIABLE focus

LifecycleRests ==
    /\ pc = [p \in Process |-> "off"]
    /\ args = [p \in Process |-> RealTcp]
    /\ guard = [p \in Process |-> None]
    /\ worker = [p \in Process |-> FALSE]
    /\ lock = [l \in Locks |-> None]
    /\ dir = [path \in Paths |-> None]

HelperRests ==
    /\ member = [m \in Members |-> IF m = Leader THEN "gone" ELSE "unborn"]
    /\ doomed = {} /\ hangs = {}
    /\ holds = [s \in Streams |-> {}]
    /\ want = [s \in Streams |-> 0] /\ pipe = want /\ taken = want
    /\ lost = [s \in Streams |-> FALSE]
    /\ reader = [s \in Streams |-> "received"]
    /\ reaped = TRUE /\ reused = FALSE /\ hit = FALSE /\ late = FALSE
    /\ parent = "ok"

HostInit ==
    \/ focus = "lifecycle" /\ Init /\ HelperRests
    \/ focus = "helper" /\ LifecycleRests /\ HelperInit

HostNext ==
    \/ focus = "lifecycle" /\ Next /\ UNCHANGED <<helperVars, focus>>
    \/ focus = "helper" /\ HelperNext /\ UNCHANGED <<vars, focus>>

HostSpec ==
    /\ HostInit /\ [][HostNext]_<<vars, helperVars, focus>>
    /\ Fairness /\ HelperFairness
=============================================================================
