----------------------------- MODULE Lifecycle -----------------------------
(***************************************************************************)
(* Starting and stopping fangd processes (main.rs): the instance lock, the  *)
(* socket path, the listener bound there, and who may touch the embedded    *)
(* controller.  Every system call on the lock or on the path is a step of   *)
(* its own, so that processes and crashes interleave between any two.       *)
(***************************************************************************)
EXTENDS Naturals, FiniteSets

CONSTANTS
    Process,      \* identities of processes; one that ended may be launched anew
    Paths,        \* socket paths command lines name
    Invocations,  \* the command lines used
    None

Hardware == "hardware"       \* HARDWARE_LOCK, the lock file of every real daemon

ASSUME LifecycleAssumption ==
    /\ None \notin Process
    /\ Hardware \notin Paths
    /\ Invocations \subseteq [mock : BOOLEAN, restore_auto : BOOLEAN,
                              tcp : {"none", "loopback", "remote"}, socket : Paths]

VARIABLES
    pc,      \* where each process is in main
    args,    \* its command line
    guard,   \* whose inode its UnixSocketGuard recorded
    worker,  \* is one of its connection handlers inside the core
    lock,    \* the holder of each lock file
    dir      \* what each socket path names

vars == <<pc, args, guard, worker, lock, dir>>

-----------------------------------------------------------------------------
(* Command lines.                                                           *)

\* TCP is for simulated hardware on this machine only.
ValidTcp(a) == a.tcp = "none" \/ (a.mock /\ a.tcp = "loopback")

\* TCP daemons and simulated restores take neither lock nor socket.
UsesSocket(a) == a.tcp = "none" /\ ~(a.mock /\ a.restore_auto)

\* Mutant: real daemons lock their socket path, as simulated ones do.
LockOfPath(a) == a.socket

LockOf(a) == IF a.mock THEN a.socket ELSE Hardware

Locks == {Hardware} \cup Paths

\* Two command lines for one path exclude each other only if they also take
\* the same lock: a simulated and a real daemon do not.
OneLockPerPath ==
    \A a, b \in Invocations :
        UsesSocket(a) /\ UsesSocket(b) /\ a.socket = b.socket => LockOf(a) = LockOf(b)

-----------------------------------------------------------------------------
(* A path names nothing, a file, or a socket inode.  The inode is known by  *)
(* the process that bound it, and is left over once that process is gone.   *)

Left == [kind |-> "socket", owner |-> None, access |-> "root"]
File == [kind |-> "file", owner |-> None, access |-> "root"]
Bound(p) == [kind |-> "socket", owner |-> p, access |-> "root"]

Entries == [kind : {"socket", "file"}, owner : Process \cup {None}, access : {"root", "group"}]

ASSUME PathsAssumption == None \notin Entries

\* The order of main: startup, service, and the drop of the guard.
Binding == {"bind", "probe", "inspect", "unlink", "rebind", "refuse"}
Settling == {"listen", "identify", "discard", "grant"}
Serving == {"open", "run", "restore"}
Dropping == {"drop", "erase", "release"}
Draining == {"drain", "shutdown"}
Stopped == {"off", "refused"}
Pc == Stopped \cup {"lock"} \cup Draining \cup Binding \cup Settling \cup Serving \cup Dropping

\* A listener answers once listen(2) follows bind(2).
Listening(p) == pc[p] \in {"identify", "discard", "grant", "drain"} \cup Serving \cup Dropping

Path(p) == args[p].socket
Live(e) == e.owner # None /\ Listening(e.owner)

TypeOK ==
    /\ pc \in [Process -> Pc]
    /\ args \in [Process -> Invocations]
    /\ guard \in [Process -> Process \cup {None}]
    /\ worker \in [Process -> BOOLEAN]
    /\ lock \in [Locks -> Process \cup {None}]
    /\ dir \in [Paths -> Entries \cup {None}]

Goto(p, label) == pc' = [pc EXCEPT ![p] = label]

\* The kernel closes what a process that ends still holds.
Unlocked(p) == [l \in Locks |-> IF lock[l] = p THEN None ELSE lock[l]]
Orphaned(p) ==
    [path \in Paths |->
        IF dir[path] # None /\ dir[path].owner = p
        THEN [dir[path] EXCEPT !.owner = None] ELSE dir[path]]

Ends(p, label) ==
    /\ Goto(p, label)
    /\ lock' = Unlocked(p)
    /\ dir' = Orphaned(p)
    /\ guard' = [guard EXCEPT ![p] = None]
    /\ worker' = [worker EXCEPT ![p] = FALSE]
    /\ UNCHANGED args

Moves(p, label) == Goto(p, label) /\ UNCHANGED <<args, guard, worker, lock, dir>>

-----------------------------------------------------------------------------
(* Startup.                                                                 *)

Init ==
    /\ pc = [p \in Process |-> "off"]
    /\ args \in {[p \in Process |-> a] : a \in Invocations}
    /\ guard = [p \in Process |-> None]
    /\ worker = [p \in Process |-> FALSE]
    /\ lock = [l \in Locks |-> None]
    /\ dir \in [Paths -> {None, Left, File}]

Launch(p, a) ==
    /\ pc[p] \in Stopped
    /\ ValidTcp(a)
    /\ args' = [args EXCEPT ![p] = a]
    /\ Goto(p, IF UsesSocket(a) THEN "lock" ELSE "open")
    /\ UNCHANGED <<guard, worker, lock, dir>>

\* Mutant: a held lock file is taken over.
AcquireAnyway(p) ==
    /\ pc[p] = "lock"
    /\ lock' = [lock EXCEPT ![LockOf(args[p])] = p]
    /\ Goto(p, "bind")
    /\ UNCHANGED <<args, guard, worker, dir>>

\* InstanceLock::acquire never waits.
Acquire(p) ==
    LET l == LockOf(args[p])
    IN  /\ pc[p] = "lock"
        /\ IF lock[l] = None
           THEN /\ lock' = [lock EXCEPT ![l] = p]
                /\ Goto(p, "bind")
                /\ UNCHANGED <<args, guard, worker, dir>>
           ELSE Ends(p, "refused")

BindTo(p, otherwise) ==
    IF dir[Path(p)] = None
    THEN /\ dir' = [dir EXCEPT ![Path(p)] = Bound(p)]
         /\ Goto(p, "listen")
         /\ UNCHANGED <<args, guard, worker, lock>>
    ELSE otherwise

\* Mutant: a path in use refuses the start, as bind(2) does.
BindOnce(p) == pc[p] = "bind" /\ BindTo(p, Ends(p, "refused"))

Bind(p) == pc[p] = "bind" /\ BindTo(p, Moves(p, "probe"))
Rebind(p) == pc[p] = "rebind" /\ BindTo(p, Ends(p, "refused"))

Listen(p) == pc[p] = "listen" /\ Moves(p, "identify")

\* connect(2): refused by a leftover socket, by one not listening yet, and by
\* a file that is no socket.
Probe(p) ==
    LET e == dir[Path(p)]
    IN  /\ pc[p] = "probe"
        /\ CASE e = None -> Moves(p, "rebind")
             [] e # None /\ Live(e) -> Ends(p, "refused")
             [] OTHER -> Moves(p, "inspect")

\* Mutant: whatever refuses a connection is removed.
InspectNothing(p) ==
    /\ pc[p] = "inspect"
    /\ Moves(p, IF dir[Path(p)] # None THEN "unlink" ELSE "rebind")

Inspect(p) ==
    /\ pc[p] = "inspect"
    /\ IF dir[Path(p)] # None /\ dir[Path(p)].kind = "socket"
       THEN Moves(p, "unlink")
       ELSE Ends(p, "refused")

\* remove_file removes whatever the path names by now.
Unlink(p) ==
    /\ pc[p] = "unlink"
    /\ IF dir[Path(p)] = None
       THEN Ends(p, "refused")
       ELSE /\ dir' = [dir EXCEPT ![Path(p)] = None]
            /\ Goto(p, "rebind")
            /\ UNCHANGED <<args, guard, worker, lock>>

\* The guard records the inode found at the path.  If that cannot be read, as
\* when the path is gone, whatever it names by then is removed and the start fails.
Identify(p) ==
    /\ pc[p] = "identify"
    /\ \/ Moves(p, "discard")
       \/ /\ dir[Path(p)] # None
          /\ guard' = [guard EXCEPT ![p] = dir[Path(p)].owner]
          /\ Goto(p, "grant")
          /\ UNCHANGED <<args, worker, lock, dir>>

Discard(p) ==
    /\ pc[p] = "discard"
    /\ dir' = [dir EXCEPT ![Path(p)] = None]
    /\ Goto(p, "refuse")
    /\ UNCHANGED <<args, guard, worker, lock>>

Refuse(p) == pc[p] = "refuse" /\ Ends(p, "refused")

\* grant_socket_access: a missing group leaves the socket to root.
Grant(p) ==
    /\ pc[p] = "grant"
    /\ Goto(p, "open")
    /\ \/ UNCHANGED dir
       \/ /\ dir[Path(p)] # None
          /\ dir' = [dir EXCEPT ![Path(p)].access = "group"]
    /\ UNCHANGED <<args, guard, worker, lock>>

-----------------------------------------------------------------------------
(* Service and shutdown.                                                    *)

\* --restore-auto sends its EC commands and returns; a daemon serves.
Open(p) ==
    /\ pc[p] = "open"
    /\ Moves(p, IF args[p].restore_auto THEN "drop" ELSE "run")

\* Mutant: handlers are admitted until the process has ended.
HandlingUntilTheEnd == {"run", "restore", "drain", "shutdown"} \cup Dropping

\* Handlers run on the runtime's worker threads, also while main returns.
Handling == {"run", "restore", "drain"} \cup Dropping

Handle(p) ==
    /\ pc[p] \in Handling
    /\ ~args[p].restore_auto
    /\ ~worker[p]
    /\ worker' = [worker EXCEPT ![p] = TRUE]
    /\ UNCHANGED <<pc, args, guard, lock, dir>>

Handled(p) ==
    /\ worker[p]
    /\ worker' = [worker EXCEPT ![p] = FALSE]
    /\ UNCHANGED <<pc, args, guard, lock, dir>>

Signal(p) == pc[p] = "run" /\ Moves(p, "restore")

\* restore_auto_before_exit gives up when the core stays busy.
Restore(p) == pc[p] = "restore" /\ Moves(p, "drop")

\* UnixSocketGuard::drop: look at the path, remove it, then drop the lock.
Drop(p) ==
    LET e == dir[Path(p)]
    IN  /\ pc[p] = "drop"
        /\ Moves(p, CASE ~UsesSocket(args[p]) -> "drain"
                      [] UsesSocket(args[p]) /\ e # None
                            /\ e.kind = "socket" /\ e.owner = guard[p] -> "erase"
                      [] OTHER -> "release")

Erase(p) ==
    /\ pc[p] = "erase"
    /\ dir' = [dir EXCEPT ![Path(p)] = None]
    /\ Goto(p, "release")
    /\ UNCHANGED <<args, guard, worker, lock>>

Release(p) ==
    /\ pc[p] = "release"
    /\ lock' = Unlocked(p)
    /\ Goto(p, "drain")
    /\ UNCHANGED <<args, guard, worker, dir>>

\* Dropping the runtime admits no further handler and waits for the one it
\* cannot interrupt.
CloseRuntime(p) == pc[p] = "drain" /\ Moves(p, "shutdown")
Exit(p) == pc[p] = "shutdown" /\ ~worker[p] /\ Ends(p, "off")

Crash(p) == pc[p] \notin Stopped /\ Ends(p, "off")

\* Another program may use the path while it is free.
PutFile(path) ==
    /\ dir[path] = None
    /\ dir' = [dir EXCEPT ![path] = File]
    /\ UNCHANGED <<pc, args, guard, worker, lock>>

Startup(p) ==
    Acquire(p) \/ Bind(p) \/ Rebind(p) \/ Listen(p) \/ Probe(p) \/ Inspect(p)
        \/ Unlink(p) \/ Identify(p) \/ Discard(p) \/ Refuse(p) \/ Grant(p) \/ Open(p)

Shutdown(p) == Restore(p) \/ Drop(p) \/ Erase(p) \/ Release(p)
        \/ CloseRuntime(p) \/ Exit(p)

Next ==
    \/ \E p \in Process :
        \/ \E a \in Invocations : Launch(p, a)
        \/ Startup(p)
        \/ Shutdown(p)
        \/ Handle(p) \/ Handled(p) \/ Signal(p) \/ Crash(p)
    \/ \E path \in Paths : PutFile(path)

Spec == Init /\ [][Next]_vars

\* A process that is starting or returning from main keeps executing, and a
\* handler leaves the core: every EC exchange is bounded.
Fairness ==
    \A p \in Process : WF_vars(Startup(p)) /\ WF_vars(Shutdown(p)) /\ WF_vars(Handled(p))

FairSpec == Spec /\ Fairness

-----------------------------------------------------------------------------
(* Properties.                                                              *)

\* Does p send EC commands: it opened the backend, or a handler is at work.
Drives(p) == ~args[p].mock /\ (pc[p] \in Serving \/ worker[p])

\* Two processes never drive the EC at once (main.rs 287-290), except that the
\* last handler of a daemon that has already dropped its lock may still be
\* finishing while a successor starts.
HardwareIsExclusive ==
    \A p, q \in Process :
        p # q /\ Drives(p) /\ Drives(q) => pc[p] \in Draining \/ pc[q] \in Draining

\* A daemon that accepts clients is the one its path leads to, and its guard
\* knows it: nobody replaced its socket between bind, identify and service
\* (main.rs 247-270).
ServingIsReachable ==
    \A p \in Process :
        pc[p] \in {"run", "restore"} /\ UsesSocket(args[p]) =>
            /\ dir[Path(p)] # None
            /\ dir[Path(p)].owner = p
            /\ guard[p] = p

\* Starting and stopping never remove a listener whose process still answers,
\* nor a file that is no socket (main.rs 174-175, 156-157): a socket disappears
\* while its owner lives only by the owner's own step.
OnlyStaleSocketsAreRemoved ==
    [][\A path \in Paths :
        LET e == dir[path]
        IN  e # None /\ dir'[path] = None =>
                /\ e.kind = "socket"
                /\ e.owner # None => pc'[e.owner] # pc[e.owner]]_vars

\* The comment on bind_unix_socket (main.rs 174-175): "Bind without ever deleting
\* a live listener or a non-socket filesystem entry."
LiveListenersAreNeverDeleted ==
    [][\A path \in Paths :
        LET e == dir[path]
        IN  e # None /\ Live(e) /\ dir'[path] = None => pc'[e.owner] # pc[e.owner]]_vars

\* A start is refused only for a reason the operator can see: the lock is held
\* by a process still alive, the path is taken by a file or by another process,
\* or the inode of the new socket cannot be read.  A socket left by a crash never
\* is such a reason (main.rs 213-244).
RefusalHasCause ==
    [][\A p \in Process :
        pc'[p] = "refused" /\ pc[p] # "refused" =>
            \/ pc[p] = "refuse"
            \/ lock[LockOf(args[p])] \notin {None, p}
            \/ /\ dir[Path(p)] # None
               /\ dir[Path(p)].kind = "file" \/ dir[Path(p)].owner \notin {None, p}]_vars

\* A daemon told to stop ends, whatever its handlers are doing (main.rs
\* 380-384, 415-428).
SignalledDaemonsEnd == \A p \in Process : pc[p] = "restore" ~> pc[p] \in Stopped
=============================================================================
