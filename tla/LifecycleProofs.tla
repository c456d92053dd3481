-------------------------- MODULE LifecycleProofs --------------------------
(***************************************************************************)
(* Proofs about the starting and stopping of fangd, for any number of       *)
(* processes, paths and command lines.                                      *)
(***************************************************************************)
EXTENDS Lifecycle, TLAPS

Holding == Binding \cup Settling \cup Serving \cup Dropping

-----------------------------------------------------------------------------
(* The kinds of the variables.                                              *)

LEMMA LockIsKnown ==
    ASSUME NEW a \in Invocations
    PROVE  LockOf(a) \in Locks /\ a.socket \in Paths
BY LifecycleAssumption DEF LockOf, Locks

LEMMA InitType == Init => TypeOK
<1> USE LifecycleAssumption
<1>1. Left \in Entries /\ File \in Entries
  BY DEF Left, File, Entries
<1> QED
  BY <1>1 DEF Init, TypeOK, Pc, Stopped

LEMMA EndsKeepsType ==
    ASSUME TypeOK, NEW p \in Process, NEW label \in Pc, Ends(p, label)
    PROVE  TypeOK'
<1>1. Unlocked(p) \in [Locks -> Process \cup {None}]
  BY DEF TypeOK, Unlocked
<1>2. Orphaned(p) \in [Paths -> Entries \cup {None}]
  <2>1. ASSUME NEW e \in Entries PROVE [e EXCEPT !.owner = None] \in Entries
    BY <2>1 DEF Entries
  <2> QED
    BY <2>1 DEF TypeOK, Orphaned
<1> QED
  BY <1>1, <1>2 DEF Ends, Goto, TypeOK

LEMMA MovesKeepsType ==
    ASSUME TypeOK, NEW p \in Process, NEW label \in Pc, Moves(p, label)
    PROVE  TypeOK'
BY DEF Moves, Goto, TypeOK

LEMMA LabelsAreKnown ==
    {"off", "refused", "lock", "bind", "probe", "inspect", "unlink", "rebind", "listen", "identify",
     "discard", "refuse", "grant", "open", "run", "restore", "drop", "erase", "release", "drain",
     "shutdown"} \subseteq Pc
BY DEF Pc, Stopped, Draining, Binding, Settling, Serving, Dropping

LEMMA BindToKeepsType ==
    ASSUME TypeOK, NEW p \in Process, NEW otherwise, BindTo(p, otherwise), otherwise => TypeOK'
    PROVE  TypeOK'
<1>1. Bound(p) \in Entries
  BY DEF Bound, Entries
<1>2. Path(p) \in Paths
  BY LockIsKnown DEF TypeOK, Path
<1> QED
  BY <1>1, <1>2, LabelsAreKnown DEF BindTo, Goto, TypeOK

LEMMA StartupKeepsType ==
    ASSUME TypeOK, NEW p \in Process, Startup(p)
    PROVE  TypeOK'
<1> USE LabelsAreKnown
<1>1. CASE Acquire(p)
  <2>1. LockOf(args[p]) \in Locks
    BY LockIsKnown DEF TypeOK
  <2> QED
    BY <1>1, <2>1, EndsKeepsType DEF Acquire, Goto, TypeOK
<1>2. CASE Bind(p)
  BY <1>2, BindToKeepsType, MovesKeepsType DEF Bind
<1>3. CASE Rebind(p)
  BY <1>3, BindToKeepsType, EndsKeepsType DEF Rebind
<1>4. CASE Listen(p)
  BY <1>4, MovesKeepsType DEF Listen
<1>5. CASE Probe(p)
  BY <1>5, MovesKeepsType, EndsKeepsType DEF Probe
<1>6. CASE Inspect(p)
  BY <1>6, MovesKeepsType, EndsKeepsType DEF Inspect
<1>7. CASE Unlink(p)
  BY <1>7, EndsKeepsType DEF Unlink, Goto, TypeOK
<1>8. CASE Identify(p)
  <2>1. Path(p) \in Paths
    BY LockIsKnown DEF TypeOK, Path
  <2>2. dir[Path(p)] # None => dir[Path(p)].owner \in Process \cup {None}
    BY <2>1 DEF TypeOK, Entries
  <2> QED
    BY <1>8, <2>2, MovesKeepsType DEF Identify, Goto, TypeOK
<1>11. CASE Discard(p)
  BY <1>11 DEF Discard, Goto, TypeOK
<1>12. CASE Refuse(p)
  BY <1>12, EndsKeepsType DEF Refuse
<1>9. CASE Grant(p)
  <2>1. Path(p) \in Paths
    BY LockIsKnown DEF TypeOK, Path
  <2>2. dir[Path(p)] # None => [dir[Path(p)] EXCEPT !.access = "group"] \in Entries
    BY <2>1 DEF TypeOK, Entries
  <2> QED
    BY <1>9, <2>1, <2>2 DEF Grant, Goto, TypeOK
<1>10. CASE Open(p)
  BY <1>10, MovesKeepsType DEF Open
<1> QED
  BY <1>1, <1>2, <1>3, <1>4, <1>5, <1>6, <1>7, <1>8, <1>9, <1>10, <1>11, <1>12 DEF Startup

LEMMA ShutdownKeepsType ==
    ASSUME TypeOK, NEW p \in Process, Shutdown(p)
    PROVE  TypeOK'
<1> USE LabelsAreKnown
<1>1. CASE Restore(p)
  BY <1>1, MovesKeepsType DEF Restore
<1>2. CASE Drop(p)
  <2>1. PICK label \in {"drain", "erase", "release"} : Moves(p, label)
    BY <1>2, Zenon DEF Drop
  <2> QED
    BY <2>1, MovesKeepsType
<1>3. CASE Erase(p)
  BY <1>3 DEF Erase, Goto, TypeOK
<1>4. CASE Release(p)
  BY <1>4 DEF Release, Unlocked, Goto, TypeOK
<1>5. CASE CloseRuntime(p)
  BY <1>5, MovesKeepsType DEF CloseRuntime
<1>6. CASE Exit(p)
  BY <1>6, EndsKeepsType DEF Exit
<1> QED
  BY <1>1, <1>2, <1>3, <1>4, <1>5, <1>6 DEF Shutdown

LEMMA NextKeepsType == TypeOK /\ [Next]_vars => TypeOK'
<1> SUFFICES ASSUME TypeOK, [Next]_vars PROVE TypeOK'
  OBVIOUS
<1> USE LabelsAreKnown
<1>1. CASE UNCHANGED vars
  BY <1>1 DEF vars, TypeOK
<1>2. ASSUME NEW p \in Process, NEW a \in Invocations, Launch(p, a) PROVE TypeOK'
  BY <1>2 DEF Launch, Goto, TypeOK
<1>3. ASSUME NEW p \in Process, Startup(p) PROVE TypeOK'
  BY <1>3, StartupKeepsType
<1>4. ASSUME NEW p \in Process, Shutdown(p) PROVE TypeOK'
  BY <1>4, ShutdownKeepsType
<1>5. ASSUME NEW p \in Process, Handle(p) \/ Handled(p) PROVE TypeOK'
  BY <1>5 DEF Handle, Handled, TypeOK
<1>6. ASSUME NEW p \in Process, Signal(p) PROVE TypeOK'
  BY <1>6, MovesKeepsType DEF Signal
<1>7. ASSUME NEW p \in Process, Crash(p) PROVE TypeOK'
  BY <1>7, EndsKeepsType DEF Crash
<1>8. ASSUME NEW path \in Paths, PutFile(path) PROVE TypeOK'
  <2>1. File \in Entries
    BY LifecycleAssumption DEF File, Entries
  <2> QED
    BY <1>8, <2>1 DEF PutFile, TypeOK
<1> QED
  BY <1>1, <1>2, <1>3, <1>4, <1>5, <1>6, <1>7, <1>8 DEF Next

\* Every variable of main holds a value of its kind: a lock has at most one
\* holder, a guard records a process or none.
THEOREM LifecycleTypeCorrect == Spec => []TypeOK
BY InitType, NextKeepsType, PTL DEF Spec

-----------------------------------------------------------------------------
(* Who holds the locks.                                                     *)

HoldersHaveTheirLock ==
    \A p \in Process :
        pc[p] \in Holding /\ UsesSocket(args[p]) => lock[LockOf(args[p])] = p

LocksHaveHolders ==
    \A p \in Process : \A l \in Locks :
        lock[l] = p => pc[p] \in Holding /\ UsesSocket(args[p]) /\ l = LockOf(args[p])

CommandLinesAreValid == \A p \in Process : pc[p] \notin Stopped => ValidTcp(args[p])

HandlersAreAdmitted ==
    \A p \in Process : worker[p] => pc[p] \in Handling \cup {"shutdown"}

\* These labels come before the backend is opened: only a socket leads there.
Preparing == {"lock"} \cup Binding \cup Settling \cup {"erase", "release"}

OnlySocketsArePrepared ==
    \A p \in Process : pc[p] \in Preparing => UsesSocket(args[p])

LockInv ==
    /\ TypeOK
    /\ HoldersHaveTheirLock
    /\ LocksHaveHolders
    /\ CommandLinesAreValid
    /\ HandlersAreAdmitted
    /\ OnlySocketsArePrepared

\* From one label to another between taking the lock and releasing it.
HoldsOn(p, label) ==
    /\ pc[p] \in Holding /\ label \in Holding
    /\ pc[p] \in Handling => label \in Handling
    /\ label \in Preparing => UsesSocket(args[p])
    /\ Goto(p, label) /\ UNCHANGED <<args, worker, lock>>

LEMMA LabelSets ==
    /\ Holding \cap Stopped = {} /\ Holding \cap Draining = {} /\ Stopped \cap Draining = {}
    /\ "lock" \notin Holding \cup Stopped
    /\ Stopped \cap Preparing = {} /\ Stopped \cap (Handling \cup {"shutdown"}) = {}
    /\ Draining \cap Preparing = {}
    /\ (Holding \cup Draining \cup {"lock"}) \subseteq Pc
    /\ Draining \subseteq Handling \cup {"shutdown"}
BY DEF Holding, Binding, Settling, Serving, Dropping, Stopped, Draining, Preparing, Handling, Pc

LEMMA InitLocks == Init => LockInv
<1> SUFFICES ASSUME Init PROVE LockInv
  OBVIOUS
<1>1. TypeOK
  BY InitType
<1>2. \A p \in Process : pc[p] \in Stopped /\ pc[p] \notin Holding /\ ~worker[p] /\ pc[p] \notin Preparing
  BY LabelSets DEF Init, Stopped
<1>3. \A l \in Locks : lock[l] \notin Process
  BY LifecycleAssumption DEF Init
<1> QED
  BY <1>1, <1>2, <1>3 DEF LockInv, HoldersHaveTheirLock, LocksHaveHolders, CommandLinesAreValid,
     HandlersAreAdmitted, OnlySocketsArePrepared

LEMMA HoldingOnKeepsLocks ==
    ASSUME LockInv, TypeOK', NEW p \in Process, NEW label, HoldsOn(p, label)
    PROVE  LockInv'
<1> USE LabelSets
<1>1. pc' = [pc EXCEPT ![p] = label] /\ pc \in [Process -> Pc] /\ pc[p] \notin Stopped
  BY DEF HoldsOn, Goto, LockInv, TypeOK
<1>2. HoldersHaveTheirLock' /\ LocksHaveHolders'
  BY <1>1 DEF HoldsOn, LockInv, HoldersHaveTheirLock, LocksHaveHolders
<1>3. CommandLinesAreValid'
  BY <1>1 DEF HoldsOn, LockInv, CommandLinesAreValid
<1>4. HandlersAreAdmitted'
  <2>1. "shutdown" \notin Holding
    BY DEF Draining
  <2> QED
    BY <1>1, <2>1 DEF HoldsOn, LockInv, HandlersAreAdmitted
<1>5. OnlySocketsArePrepared'
  BY <1>1 DEF HoldsOn, LockInv, OnlySocketsArePrepared
<1> QED
  BY <1>2, <1>3, <1>4, <1>5 DEF LockInv

LEMMA EndingKeepsLocks ==
    ASSUME LockInv, TypeOK', NEW p \in Process, NEW label \in Stopped, Ends(p, label)
    PROVE  LockInv'
<1> USE LabelSets
<1>1. /\ pc' = [pc EXCEPT ![p] = label] /\ pc \in [Process -> Pc]
      /\ args' = args /\ worker' = [worker EXCEPT ![p] = FALSE] /\ worker \in [Process -> BOOLEAN]
  BY DEF Ends, Goto, LockInv, TypeOK
<1>2. \A l \in Locks : lock'[l] = IF lock[l] = p THEN None ELSE lock[l]
  BY DEF Ends, Unlocked
<1>3. \A q \in Process : LockOf(args[q]) \in Locks
  BY LockIsKnown DEF LockInv, TypeOK
<1>4. HoldersHaveTheirLock'
  BY <1>1, <1>2, <1>3 DEF LockInv, HoldersHaveTheirLock
<1>5. LocksHaveHolders'
  BY <1>1, <1>2, LifecycleAssumption DEF LockInv, LocksHaveHolders
<1>6. CommandLinesAreValid' /\ HandlersAreAdmitted' /\ OnlySocketsArePrepared'
  BY <1>1 DEF LockInv, CommandLinesAreValid, HandlersAreAdmitted, OnlySocketsArePrepared
<1> QED
  BY <1>4, <1>5, <1>6 DEF LockInv

LEMMA StartupKeepsLocks ==
    ASSUME LockInv, NEW p \in Process, Startup(p)
    PROVE  LockInv'
<1> DEFINE Labels == {"bind", "probe", "inspect", "unlink", "rebind", "listen", "identify", "discard",
                      "refuse", "grant", "open"}
<1>1. TypeOK'
  BY StartupKeepsType DEF LockInv
<1>2. /\ Labels \subseteq Holding /\ Labels \cap Handling = {}
      /\ Labels \ {"open"} \subseteq Preparing /\ "open" \notin Preparing
  BY DEF Holding, Binding, Settling, Serving, Dropping, Handling, Preparing
<1>3. ASSUME NEW label \in Labels \cup {"run", "drop"}, pc[p] \in Labels, Goto(p, label),
             label \in Preparing => pc[p] # "open", UNCHANGED <<args, worker, lock>>
      PROVE  LockInv'
  <2>1. label \in Holding
    BY <1>2 DEF Holding, Serving, Dropping
  <2>2. label \in Preparing => UsesSocket(args[p])
    BY <1>2, <1>3 DEF LockInv, OnlySocketsArePrepared
  <2> QED
    BY <1>1, <1>2, <1>3, <2>1, <2>2, HoldingOnKeepsLocks DEF HoldsOn
<1>4. ASSUME Ends(p, "refused") PROVE LockInv'
  BY <1>1, <1>4, EndingKeepsLocks DEF Stopped
<1>5. ASSUME pc[p] \in Labels \ {"open"}, BindTo(p, Moves(p, "probe")) \/ BindTo(p, Ends(p, "refused"))
      PROVE  LockInv'
  BY <1>3, <1>4, <1>5 DEF BindTo, Moves
<1>6. CASE Acquire(p)
  <2>1. CASE Ends(p, "refused")
    BY <2>1, <1>4
  <2>2. CASE ~Ends(p, "refused")
    <3> DEFINE l == LockOf(args[p])
    <3>1. /\ lock[l] = None /\ lock' = [lock EXCEPT ![l] = p] /\ pc[p] = "lock"
          /\ pc' = [pc EXCEPT ![p] = "bind"] /\ UNCHANGED <<args, worker>>
      BY <1>6, <2>2 DEF Acquire, Goto
    <3>2. l \in Locks /\ pc \in [Process -> Pc] /\ lock \in [Locks -> Process \cup {None}]
      BY LockIsKnown DEF LockInv, TypeOK
    <3>3. UsesSocket(args[p]) /\ ValidTcp(args[p]) /\ ~worker[p]
      BY <3>1, LabelSets DEF LockInv, OnlySocketsArePrepared, CommandLinesAreValid, HandlersAreAdmitted,
         Preparing, Handling, Dropping
    <3>4. HoldersHaveTheirLock'
      BY <3>1, <3>2, LifecycleAssumption DEF LockInv, HoldersHaveTheirLock
    <3>5. LocksHaveHolders'
      BY <3>1, <3>2, <3>3, <1>2, LabelSets DEF LockInv, LocksHaveHolders
    <3>6. CommandLinesAreValid' /\ HandlersAreAdmitted' /\ OnlySocketsArePrepared'
      BY <3>1, <3>2, <3>3 DEF LockInv, CommandLinesAreValid, HandlersAreAdmitted, OnlySocketsArePrepared
    <3> QED
      BY <1>1, <3>4, <3>5, <3>6 DEF LockInv
  <2> QED
    BY <2>1, <2>2
<1>7. CASE Bind(p) \/ Rebind(p)
  BY <1>7, <1>5 DEF Bind, Rebind
<1>8. CASE Listen(p)
  BY <1>8, <1>3 DEF Listen, Moves
<1>9. CASE Probe(p)
  <2>1. pc[p] = "probe" /\ (Ends(p, "refused") \/ Moves(p, "rebind") \/ Moves(p, "inspect"))
    BY <1>9, Zenon DEF Probe
  <2> QED
    BY <2>1, <1>3, <1>4 DEF Moves
<1>10. CASE Inspect(p)
  BY <1>10, <1>3, <1>4 DEF Inspect, Moves
<1>11. CASE Unlink(p)
  BY <1>11, <1>3, <1>4 DEF Unlink
<1>12. CASE Identify(p)
  BY <1>12, <1>3 DEF Identify, Moves
<1>15. CASE Discard(p)
  BY <1>15, <1>3 DEF Discard
<1>16. CASE Refuse(p)
  BY <1>16, <1>4 DEF Refuse
<1>13. CASE Grant(p)
  BY <1>13, <1>3, <1>2 DEF Grant
<1>14. CASE Open(p)
  BY <1>14, <1>3 DEF Open, Moves, Preparing, Binding, Settling
<1> QED
  BY <1>6, <1>7, <1>8, <1>9, <1>10, <1>11, <1>12, <1>13, <1>14, <1>15, <1>16 DEF Startup

LEMMA ShutdownKeepsLocks ==
    ASSUME LockInv, NEW p \in Process, Shutdown(p)
    PROVE  LockInv'
<1>1. TypeOK'
  BY ShutdownKeepsType DEF LockInv
<1>2. CASE Restore(p)
  <2>1. HoldsOn(p, "drop")
    BY <1>2 DEF Restore, Moves, HoldsOn, Holding, Serving, Dropping, Handling, Preparing, Binding, Settling
  <2> QED
    BY <1>1, <2>1, HoldingOnKeepsLocks
<1>3. CASE Drop(p) /\ UsesSocket(args[p])
  <2>1. PICK label \in {"erase", "release"} : pc[p] = "drop" /\ Moves(p, label)
    BY <1>3, Zenon DEF Drop
  <2>2. HoldsOn(p, label)
    BY <2>1, <1>3 DEF Moves, HoldsOn, Holding, Dropping, Handling
  <2> QED
    BY <1>1, <2>2, HoldingOnKeepsLocks
<1>4. CASE Drop(p) /\ ~UsesSocket(args[p])
  <2>1. pc[p] = "drop" /\ pc' = [pc EXCEPT ![p] = "drain"] /\ UNCHANGED <<args, worker, lock>>
    BY <1>4, Zenon DEF Drop, Moves, Goto
  <2>2. pc \in [Process -> Pc] /\ "drain" \in Handling /\ "drain" \in Draining /\ "drop" \notin Stopped
    BY DEF LockInv, TypeOK, Handling, Draining, Stopped
  <2>3. HoldersHaveTheirLock' /\ LocksHaveHolders'
    BY <2>1, <2>2, <1>4, LabelSets DEF LockInv, HoldersHaveTheirLock, LocksHaveHolders
  <2>4. CommandLinesAreValid' /\ HandlersAreAdmitted' /\ OnlySocketsArePrepared'
    BY <2>1, <2>2, LabelSets DEF LockInv, CommandLinesAreValid, HandlersAreAdmitted, OnlySocketsArePrepared
  <2> QED
    BY <1>1, <2>3, <2>4 DEF LockInv
<1>5. CASE Erase(p)
  <2>1. HoldsOn(p, "release")
    BY <1>5 DEF Erase, HoldsOn, Holding, Dropping, Handling, Preparing, LockInv, OnlySocketsArePrepared
  <2> QED
    BY <1>1, <2>1, HoldingOnKeepsLocks
<1>6. CASE Release(p)
  <2>1. /\ pc[p] = "release" /\ pc' = [pc EXCEPT ![p] = "drain"] /\ UNCHANGED <<args, worker>>
        /\ \A l \in Locks : lock'[l] = IF lock[l] = p THEN None ELSE lock[l]
    BY <1>6 DEF Release, Goto, Unlocked
  <2>2. pc \in [Process -> Pc] /\ "drain" \in Handling /\ "drain" \in Draining /\ "release" \notin Stopped
    BY DEF LockInv, TypeOK, Handling, Draining, Stopped
  <2>3. \A q \in Process : LockOf(args[q]) \in Locks
    BY LockIsKnown DEF LockInv, TypeOK
  <2>4. HoldersHaveTheirLock' /\ LocksHaveHolders'
    BY <2>1, <2>2, <2>3, LabelSets, LifecycleAssumption DEF LockInv, HoldersHaveTheirLock, LocksHaveHolders
  <2>5. CommandLinesAreValid' /\ HandlersAreAdmitted' /\ OnlySocketsArePrepared'
    BY <2>1, <2>2, LabelSets DEF LockInv, CommandLinesAreValid, HandlersAreAdmitted, OnlySocketsArePrepared
  <2> QED
    BY <1>1, <2>4, <2>5 DEF LockInv
<1>7. CASE CloseRuntime(p)
  <2>1. pc[p] = "drain" /\ pc' = [pc EXCEPT ![p] = "shutdown"] /\ UNCHANGED <<args, worker, lock>>
    BY <1>7 DEF CloseRuntime, Moves, Goto
  <2>2. pc \in [Process -> Pc] /\ "drain" \in Draining /\ "shutdown" \in Draining
    BY DEF LockInv, TypeOK, Draining
  <2> QED
    BY <1>1, <2>1, <2>2, LabelSets DEF LockInv, HoldersHaveTheirLock, LocksHaveHolders,
       CommandLinesAreValid, HandlersAreAdmitted, OnlySocketsArePrepared
<1>8. CASE Exit(p)
  BY <1>1, <1>8, EndingKeepsLocks DEF Exit, Stopped
<1> QED
  BY <1>2, <1>3, <1>4, <1>5, <1>6, <1>7, <1>8 DEF Shutdown

LEMMA NextKeepsLocks == LockInv /\ [Next]_vars => LockInv'
<1> SUFFICES ASSUME LockInv, [Next]_vars PROVE LockInv'
  OBVIOUS
<1>1. TypeOK'
  BY NextKeepsType DEF LockInv
<1> USE DEF HoldersHaveTheirLock, LocksHaveHolders, CommandLinesAreValid, HandlersAreAdmitted,
            OnlySocketsArePrepared
<1>2. CASE UNCHANGED vars
  BY <1>1, <1>2 DEF vars, LockInv
<1>3. ASSUME NEW p \in Process, NEW a \in Invocations, Launch(p, a) PROVE LockInv'
  <2> DEFINE label == IF UsesSocket(a) THEN "lock" ELSE "open"
  <2>1. /\ pc[p] \in Stopped /\ ValidTcp(a) /\ pc' = [pc EXCEPT ![p] = label]
        /\ args' = [args EXCEPT ![p] = a] /\ UNCHANGED <<worker, lock>>
        /\ pc \in [Process -> Pc] /\ args \in [Process -> Invocations]
    BY <1>3 DEF Launch, Goto, LockInv, TypeOK
  <2>2. "open" \notin Preparing /\ "lock" \notin Holding
    BY LabelSets DEF Preparing, Binding, Settling
  <2>3. ~worker[p] /\ \A l \in Locks : lock[l] # p
    BY <2>1, LabelSets DEF LockInv
  <2> QED
    BY <1>1, <2>1, <2>2, <2>3 DEF LockInv
<1>4. ASSUME NEW p \in Process, Startup(p) PROVE LockInv'
  BY <1>4, StartupKeepsLocks
<1>5. ASSUME NEW p \in Process, Shutdown(p) PROVE LockInv'
  BY <1>5, ShutdownKeepsLocks
<1>6. ASSUME NEW p \in Process, Handle(p) \/ Handled(p) PROVE LockInv'
  BY <1>1, <1>6 DEF Handle, Handled, LockInv, TypeOK
<1>7. ASSUME NEW p \in Process, Signal(p) PROVE LockInv'
  <2>1. HoldsOn(p, "restore")
    BY <1>7 DEF Signal, Moves, HoldsOn, Holding, Serving, Handling, Preparing, Binding, Settling
  <2> QED
    BY <1>1, <2>1, HoldingOnKeepsLocks
<1>8. ASSUME NEW p \in Process, Crash(p) PROVE LockInv'
  BY <1>1, <1>8, EndingKeepsLocks DEF Crash, Stopped
<1>9. ASSUME NEW path \in Paths, PutFile(path) PROVE LockInv'
  BY <1>1, <1>9 DEF PutFile, LockInv
<1> QED
  BY <1>2, <1>3, <1>4, <1>5, <1>6, <1>7, <1>8, <1>9 DEF Next

\* At rest or draining aside, whoever drives the EC holds its lock.
LEMMA DriversHoldTheLock ==
    ASSUME LockInv, NEW p \in Process, Drives(p), pc[p] \notin Draining
    PROVE  lock[Hardware] = p
<1>1. pc[p] \in Holding /\ pc[p] \notin Stopped
  BY LabelSets DEF Drives, LockInv, HandlersAreAdmitted, Handling, Holding, Serving, Draining, Dropping
<1>2. UsesSocket(args[p]) /\ LockOf(args[p]) = Hardware
  BY <1>1 DEF Drives, LockInv, CommandLinesAreValid, ValidTcp, UsesSocket, LockOf
<1> QED
  BY <1>1, <1>2 DEF LockInv, HoldersHaveTheirLock

LEMMA LockInvHolds == Spec => []LockInv
BY InitLocks, NextKeepsLocks, PTL DEF Spec

\* Two processes never drive the EC at once, the last handler of one that already
\* dropped its lock apart (main.rs 287-302), for any processes, paths and command
\* lines, whatever crashes when.
THEOREM OneProcessDrives == Spec => []HardwareIsExclusive
<1>1. LockInv => HardwareIsExclusive
  BY DriversHoldTheLock DEF HardwareIsExclusive
<1> QED
  BY <1>1, LockInvHolds, PTL

-----------------------------------------------------------------------------
(* What the paths name.                                                     *)

Owning == Settling \cup Serving \cup {"drop", "erase"}

\* A socket whose process lives is the one that process listens on.
SocketsHaveOwners ==
    \A path \in Paths : \A p \in Process :
        dir[path] # None /\ dir[path].owner = p =>
            /\ pc[p] \in Owning /\ UsesSocket(args[p]) /\ Path(p) = path
            /\ dir[path].kind = "socket"

\* Nobody replaced the socket a process bound.
OwnersHaveSockets ==
    \A p \in Process :
        pc[p] \in Owning /\ UsesSocket(args[p]) =>
            dir[Path(p)] # None /\ dir[Path(p)].owner = p

\* What a starting process has seen of its path still stands.
FindingsStand ==
    \A p \in Process :
        /\ pc[p] = "inspect" => dir[Path(p)] # None
        /\ pc[p] = "unlink" => dir[Path(p)] # None /\ dir[Path(p)].kind = "socket"
        /\ pc[p] = "rebind" /\ dir[Path(p)] # None => dir[Path(p)].kind = "file"

GuardsAreRight ==
    \A p \in Process :
        pc[p] \in {"grant", "drop"} \cup Serving /\ UsesSocket(args[p]) => guard[p] = p

SocketInv ==
    /\ LockInv
    /\ SocketsHaveOwners
    /\ OwnersHaveSockets
    /\ FindingsStand
    /\ GuardsAreRight

\* Between the lock and its release a process has its path to itself.
LEMMA OnePathOneProcess ==
    ASSUME OneLockPerPath, LockInv, NEW p \in Process, NEW q \in Process,
           pc[p] \in Holding, pc[q] \in Holding, UsesSocket(args[p]), UsesSocket(args[q]),
           Path(p) = Path(q)
    PROVE  p = q
<1>1. args[p] \in Invocations /\ args[q] \in Invocations
  BY DEF LockInv, TypeOK
<1>2. LockOf(args[p]) = LockOf(args[q])
  BY <1>1 DEF OneLockPerPath, Path
<1> QED
  BY <1>2 DEF LockInv, HoldersHaveTheirLock

\* So nobody who lives owns the path a process prepares.
LEMMA BindersAreAlone ==
    ASSUME OneLockPerPath, SocketInv, NEW p \in Process, pc[p] \in Binding, dir[Path(p)] # None
    PROVE  dir[Path(p)].owner = None
<1>1. Path(p) \in Paths /\ UsesSocket(args[p]) /\ pc[p] \in Holding /\ pc[p] \notin Owning
  BY LockIsKnown DEF SocketInv, LockInv, TypeOK, Path, OnlySocketsArePrepared, Preparing, Holding,
     Owning, Binding, Settling, Serving
<1>2. dir[Path(p)].owner \in Process \cup {None}
  BY <1>1 DEF SocketInv, LockInv, TypeOK, Entries
<1>3. ASSUME NEW q \in Process, dir[Path(p)].owner = q PROVE FALSE
  <2>1. pc[q] \in Owning /\ UsesSocket(args[q]) /\ Path(q) = Path(p)
    BY <1>1, <1>3 DEF SocketInv, SocketsHaveOwners
  <2>2. pc[q] \in Holding
    BY <2>1 DEF Owning, Holding, Dropping
  <2> QED
    BY <1>1, <2>1, <2>2, OnePathOneProcess DEF SocketInv
<1> QED
  BY <1>2, <1>3

LEMMA InitSockets == Init => SocketInv
<1> SUFFICES ASSUME Init PROVE SocketInv
  OBVIOUS
<1>1. LockInv
  BY InitLocks
<1>2. \A p \in Process : pc[p] = "off"
  BY DEF Init
<1>3. \A path \in Paths : dir[path] # None => dir[path].owner \notin Process
  BY LifecycleAssumption DEF Init, Left, File
<1> QED
  BY <1>1, <1>2, <1>3 DEF SocketInv, SocketsHaveOwners, OwnersHaveSockets, FindingsStand, GuardsAreRight,
     Owning, Settling, Serving

\* A step to another label that leaves paths alone: what the label promises
\* has to be so.
LEMMA MovingKeepsSockets ==
    ASSUME SocketInv, LockInv', NEW p \in Process, NEW label, Goto(p, label), UNCHANGED <<args, dir>>,
           \A q \in Process \ {p} : guard'[q] = guard[q],
           UsesSocket(args[p]) => (label \in Owning <=> pc[p] \in Owning),
           label = "inspect" => dir[Path(p)] # None,
           label = "unlink" => dir[Path(p)] # None /\ dir[Path(p)].kind = "socket",
           label = "rebind" => dir[Path(p)] = None,
           label \in {"grant", "drop"} \cup Serving /\ UsesSocket(args[p]) => guard'[p] = p
    PROVE  SocketInv'
<1>1. pc' = [pc EXCEPT ![p] = label] /\ pc \in [Process -> Pc] /\ args' = args /\ dir' = dir
  BY DEF Goto, SocketInv, LockInv, TypeOK
<1>2. \A q \in Process : Path(q)' = Path(q)
  BY <1>1 DEF Path
<1>3. SocketsHaveOwners'
  BY <1>1, <1>2 DEF SocketInv, SocketsHaveOwners
<1>4. OwnersHaveSockets'
  BY <1>1, <1>2 DEF SocketInv, OwnersHaveSockets
<1>5. FindingsStand'
  BY <1>1, <1>2 DEF SocketInv, FindingsStand
<1>6. GuardsAreRight'
  BY <1>1 DEF SocketInv, GuardsAreRight
<1> QED
  BY <1>3, <1>4, <1>5, <1>6 DEF SocketInv

LEMMA EndingKeepsSockets ==
    ASSUME SocketInv, LockInv', NEW p \in Process, NEW label \in Stopped, Ends(p, label)
    PROVE  SocketInv'
<1>1. /\ pc' = [pc EXCEPT ![p] = label] /\ pc \in [Process -> Pc] /\ args' = args
      /\ guard' = [guard EXCEPT ![p] = None] /\ guard \in [Process -> Process \cup {None}]
  BY DEF Ends, Goto, SocketInv, LockInv, TypeOK
<1>2. \A q \in Process : Path(q)' = Path(q) /\ Path(q) \in Paths
  BY <1>1, LockIsKnown DEF Path, SocketInv, LockInv, TypeOK
<1>3. label \notin Owning \cup {"inspect", "unlink", "rebind", "grant", "drop"} \cup Serving
  BY DEF Stopped, Owning, Settling, Serving
<1>4. \A path \in Paths :
        /\ dir[path] = None => dir'[path] = None
        /\ dir[path] # None => /\ dir'[path] # None /\ dir'[path].kind = dir[path].kind
                               /\ dir'[path].owner = IF dir[path].owner = p THEN None ELSE dir[path].owner
  <2> TAKE path \in Paths
  <2>1. dir'[path] = IF dir[path] # None /\ dir[path].owner = p
                     THEN [dir[path] EXCEPT !.owner = None] ELSE dir[path]
    BY DEF Ends, Orphaned
  <2>2. dir[path] \in Entries \cup {None} /\ dir'[path] \in Entries \cup {None}
    BY DEF SocketInv, LockInv, TypeOK
  <2>3. dir[path] # None /\ dir[path].owner = p => dir'[path] # None
    <3>1. dir[path] \in Entries => [dir[path] EXCEPT !.owner = None] \in Entries
      BY DEF Entries
    <3> QED
      BY <2>1, <2>2, <3>1, PathsAssumption
  <2> QED
    BY <2>1, <2>2, <2>3 DEF Entries
<1>5. SocketsHaveOwners'
  BY <1>1, <1>2, <1>4, LifecycleAssumption DEF SocketInv, SocketsHaveOwners
<1>6. OwnersHaveSockets'
  BY <1>1, <1>2, <1>3, <1>4 DEF SocketInv, OwnersHaveSockets
<1>7. FindingsStand'
  BY <1>1, <1>2, <1>3, <1>4 DEF SocketInv, FindingsStand
<1>8. GuardsAreRight'
  BY <1>1, <1>3 DEF SocketInv, GuardsAreRight
<1> QED
  BY <1>5, <1>6, <1>7, <1>8 DEF SocketInv

LEMMA BindingKeepsSockets ==
    ASSUME OneLockPerPath, SocketInv, LockInv', NEW p \in Process, pc[p] \in {"bind", "rebind"},
           dir[Path(p)] = None, dir' = [dir EXCEPT ![Path(p)] = Bound(p)], Goto(p, "listen"),
           UNCHANGED <<args, guard>>
    PROVE  SocketInv'
<1>1. /\ pc' = [pc EXCEPT ![p] = "listen"] /\ pc \in [Process -> Pc] /\ args' = args /\ guard' = guard
      /\ dir \in [Paths -> Entries \cup {None}] /\ dir' \in [Paths -> Entries \cup {None}]
  BY DEF Goto, SocketInv, LockInv, TypeOK
<1>2. \A q \in Process : Path(q)' = Path(q) /\ Path(q) \in Paths
  BY <1>1, LockIsKnown DEF Path, SocketInv, LockInv, TypeOK
<1>3. UsesSocket(args[p]) /\ pc[p] \in Holding /\ pc[p] \notin Owning
  BY DEF SocketInv, LockInv, OnlySocketsArePrepared, Preparing, Holding, Binding, Owning, Settling, Serving
<1>4. Bound(p).owner = p /\ Bound(p).kind = "socket"
  BY DEF Bound
<1>5. "listen" \in Owning /\ "listen" \notin {"grant", "drop"} \cup Serving
  BY DEF Owning, Settling, Serving
<1>6. Bound(p) # None
  BY PathsAssumption DEF Bound, Entries
<1>7. SocketsHaveOwners'
  BY <1>1, <1>2, <1>3, <1>4, <1>5 DEF SocketInv, SocketsHaveOwners
<1>8. OwnersHaveSockets'
  BY <1>1, <1>2, <1>3, <1>4, <1>6 DEF SocketInv, OwnersHaveSockets
<1>9. FindingsStand'
  <2>1. ASSUME NEW q \in Process, q # p, pc[q] = "rebind" PROVE Path(q) # Path(p)
    <3>1. UsesSocket(args[q]) /\ pc[q] \in Holding
      BY <2>1 DEF SocketInv, LockInv, OnlySocketsArePrepared, Preparing, Holding, Binding
    <3> QED
      BY <1>3, <2>1, <3>1, OnePathOneProcess DEF SocketInv
  <2> QED
    BY <1>1, <1>2, <2>1 DEF SocketInv, FindingsStand
<1>10. GuardsAreRight'
  BY <1>1, <1>5 DEF SocketInv, GuardsAreRight
<1> QED
  BY <1>7, <1>8, <1>9, <1>10 DEF SocketInv

\* Unlink removes what nobody owns, Erase and Discard what their process owns.
LEMMA RemovingKeepsSockets ==
    ASSUME OneLockPerPath, SocketInv, LockInv', NEW p \in Process, NEW label \in {"rebind", "release", "refuse"},
           label = "rebind" => pc[p] = "unlink",
           label = "release" => pc[p] = "erase",
           label = "refuse" => pc[p] = "discard",
           dir' = [dir EXCEPT ![Path(p)] = None], Goto(p, label), UNCHANGED <<args, guard>>
    PROVE  SocketInv'
<1>1. /\ pc' = [pc EXCEPT ![p] = label] /\ pc \in [Process -> Pc] /\ args' = args /\ guard' = guard
      /\ dir \in [Paths -> Entries \cup {None}]
  BY DEF Goto, SocketInv, LockInv, TypeOK
<1>2. \A q \in Process : Path(q)' = Path(q) /\ Path(q) \in Paths
  BY <1>1, LockIsKnown DEF Path, SocketInv, LockInv, TypeOK
<1>3. UsesSocket(args[p]) /\ pc[p] \in Holding
  BY DEF SocketInv, LockInv, OnlySocketsArePrepared, Preparing, Holding, Binding, Settling, Dropping
<1>4. label \notin Owning \cup {"inspect", "unlink", "grant", "drop"} \cup Serving
  BY DEF Owning, Settling, Serving
<1>5. dir[Path(p)] # None => dir[Path(p)].owner \in {p, None}
  <2>1. pc[p] = "unlink" => pc[p] \in Binding
    BY DEF Binding
  <2>2. pc[p] \in {"erase", "discard"} => pc[p] \in Owning
    BY DEF Owning, Settling
  <2> QED
    BY <1>3, <2>1, <2>2, BindersAreAlone DEF SocketInv, OwnersHaveSockets
<1>6. ASSUME NEW q \in Process, q # p, pc[q] \in Owning \cup Binding, UsesSocket(args[q])
      PROVE  Path(q) # Path(p)
  <2>1. pc[q] \in Holding
    BY <1>6 DEF Owning, Holding, Dropping
  <2> QED
    BY <1>3, <1>6, <2>1, OnePathOneProcess DEF SocketInv
<1>7. \A q \in Process : pc[q] \in Binding => UsesSocket(args[q])
  BY DEF SocketInv, LockInv, OnlySocketsArePrepared, Preparing
<1>8. SocketsHaveOwners'
  <2>1. pc[p] = "unlink" => pc[p] \notin Owning
    BY DEF Owning, Settling, Serving
  <2> QED
    BY <1>1, <1>2, <2>1 DEF SocketInv, SocketsHaveOwners
<1>9. OwnersHaveSockets'
  BY <1>1, <1>2, <1>4, <1>6 DEF SocketInv, OwnersHaveSockets
<1>10. FindingsStand'
  BY <1>1, <1>2, <1>4, <1>6, <1>7 DEF SocketInv, FindingsStand, Binding
<1>11. GuardsAreRight'
  BY <1>1, <1>4 DEF SocketInv, GuardsAreRight
<1> QED
  BY <1>8, <1>9, <1>10, <1>11 DEF SocketInv

LEMMA StartupKeepsSockets ==
    ASSUME OneLockPerPath, SocketInv, LockInv', NEW p \in Process, Startup(p)
    PROVE  SocketInv'
<1> DEFINE Early == {"lock", "bind", "probe", "inspect", "unlink", "rebind", "refuse"}
<1>1. /\ Early \cap Owning = {} /\ {"listen", "identify", "discard", "grant", "open", "run", "drop"} \subseteq Owning
      /\ Early \cap ({"grant", "drop"} \cup Serving) = {}
  BY DEF Owning, Settling, Serving
<1>2. ASSUME Ends(p, "refused") PROVE SocketInv'
  BY <1>2, EndingKeepsSockets DEF Stopped
<1>3. ASSUME pc[p] \in {"bind", "rebind"},
             BindTo(p, Moves(p, "probe")) \/ BindTo(p, Ends(p, "refused"))
      PROVE  SocketInv'
  <2>1. CASE dir[Path(p)] = None
    BY <1>3, <2>1, BindingKeepsSockets DEF BindTo
  <2>2. CASE dir[Path(p)] # None /\ Moves(p, "probe")
    BY <1>1, <1>3, <2>2, MovingKeepsSockets DEF Moves
  <2> QED
    BY <1>2, <1>3, <2>1, <2>2 DEF BindTo
<1>4. CASE Acquire(p)
  <2>1. CASE ~Ends(p, "refused")
    BY <1>1, <1>4, <2>1, MovingKeepsSockets DEF Acquire
  <2> QED
    BY <1>2, <2>1
<1>5. CASE Bind(p) \/ Rebind(p)
  BY <1>3, <1>5 DEF Bind, Rebind
<1>6. CASE Listen(p)
  BY <1>1, <1>6, MovingKeepsSockets DEF Listen, Moves, Serving
<1>7. CASE Probe(p)
  <2>1. CASE dir[Path(p)] = None /\ Moves(p, "rebind")
    BY <1>1, <1>7, <2>1, MovingKeepsSockets DEF Probe, Moves
  <2>2. CASE dir[Path(p)] # None /\ Moves(p, "inspect")
    BY <1>1, <1>7, <2>2, MovingKeepsSockets DEF Probe, Moves
  <2>3. \/ dir[Path(p)] = None /\ Moves(p, "rebind")
        \/ dir[Path(p)] # None /\ Moves(p, "inspect")
        \/ Ends(p, "refused")
    BY <1>7, Zenon DEF Probe
  <2> QED
    BY <1>2, <2>1, <2>2, <2>3
<1>8. CASE Inspect(p)
  <2>1. CASE Moves(p, "unlink") /\ dir[Path(p)] # None /\ dir[Path(p)].kind = "socket"
    BY <1>1, <1>8, <2>1, MovingKeepsSockets DEF Inspect, Moves
  <2> QED
    BY <1>2, <1>8, <2>1 DEF Inspect
<1>9. CASE Unlink(p)
  <2>1. CASE dir[Path(p)] # None
    BY <1>9, <2>1, RemovingKeepsSockets DEF Unlink
  <2> QED
    BY <1>2, <1>9, <2>1 DEF Unlink
<1>10. CASE Identify(p)
  <2>1. CASE Moves(p, "discard")
    BY <1>1, <1>10, <2>1, MovingKeepsSockets DEF Identify, Moves, Serving
  <2>2. CASE ~Moves(p, "discard")
    <3>1. UsesSocket(args[p]) => dir[Path(p)].owner = p
      BY <1>1, <1>10 DEF Identify, SocketInv, OwnersHaveSockets
    <3>2. guard \in [Process -> Process \cup {None}]
      BY DEF SocketInv, LockInv, TypeOK
    <3> QED
      BY <1>1, <1>10, <2>2, <3>1, <3>2, MovingKeepsSockets DEF Identify, Serving
  <2> QED
    BY <2>1, <2>2
<1>13. CASE Discard(p)
  BY <1>13, RemovingKeepsSockets DEF Discard
<1>14. CASE Refuse(p)
  BY <1>2, <1>14 DEF Refuse
<1>11. CASE Grant(p)
  <2>1. UsesSocket(args[p]) => guard[p] = p
    BY <1>11 DEF Grant, SocketInv, GuardsAreRight
  <2>2. CASE UNCHANGED dir
    BY <1>1, <1>11, <2>1, <2>2, MovingKeepsSockets DEF Grant
  <2>3. CASE dir[Path(p)] # None /\ dir' = [dir EXCEPT ![Path(p)].access = "group"]
    <3>1. /\ pc' = [pc EXCEPT ![p] = "open"] /\ pc \in [Process -> Pc] /\ args' = args /\ guard' = guard
          /\ dir \in [Paths -> Entries \cup {None}] /\ dir' \in [Paths -> Entries \cup {None}] /\ pc[p] = "grant"
      BY <1>11 DEF Grant, Goto, SocketInv, LockInv, TypeOK
    <3>2. \A q \in Process : Path(q)' = Path(q) /\ Path(q) \in Paths
      BY <3>1, LockIsKnown DEF Path, SocketInv, LockInv, TypeOK
    <3>3. \A path \in Paths :
            /\ dir'[path] = None <=> dir[path] = None
            /\ dir[path] # None => dir'[path].kind = dir[path].kind /\ dir'[path].owner = dir[path].owner
      <4>1. dir[Path(p)] \in Entries /\ [dir[Path(p)] EXCEPT !.access = "group"] \in Entries
        BY <2>3, <3>1, <3>2 DEF Entries
      <4>2. dir' = [dir EXCEPT ![Path(p)] = [dir[Path(p)] EXCEPT !.access = "group"]]
        BY <2>3
      <4> QED
        BY <3>1, <3>2, <2>3, <4>1, <4>2, PathsAssumption DEF Entries
    <3>4. SocketsHaveOwners'
      BY <1>1, <3>1, <3>2, <3>3 DEF SocketInv, SocketsHaveOwners
    <3>5. OwnersHaveSockets'
      BY <1>1, <3>1, <3>2, <3>3 DEF SocketInv, OwnersHaveSockets
    <3>6. FindingsStand'
      BY <3>1, <3>2, <3>3 DEF SocketInv, FindingsStand
    <3>7. GuardsAreRight'
      BY <2>1, <3>1 DEF SocketInv, GuardsAreRight
    <3> QED
      BY <3>4, <3>5, <3>6, <3>7 DEF SocketInv
  <2> QED
    BY <1>11, <2>2, <2>3 DEF Grant
<1>12. CASE Open(p)
  <2>1. UsesSocket(args[p]) => guard[p] = p
    BY <1>12 DEF Open, SocketInv, GuardsAreRight, Serving
  <2> QED
    BY <1>1, <1>12, <2>1, MovingKeepsSockets DEF Open, Moves
<1> QED
  BY <1>4, <1>5, <1>6, <1>7, <1>8, <1>9, <1>10, <1>11, <1>12, <1>13, <1>14 DEF Startup

LEMMA DropErasesItsOwn ==
    ASSUME SocketInv, NEW p \in Process, Drop(p), UsesSocket(args[p])
    PROVE  Moves(p, "erase")
<1>1. pc[p] = "drop" /\ Path(p) \in Paths
  BY LockIsKnown DEF Drop, Path, SocketInv, LockInv, TypeOK
<1>2. dir[Path(p)] # None /\ dir[Path(p)].owner = p /\ guard[p] = p
  BY <1>1 DEF SocketInv, OwnersHaveSockets, GuardsAreRight, Owning
<1>3. dir[Path(p)].kind = "socket"
  BY <1>1, <1>2 DEF SocketInv, SocketsHaveOwners
<1> QED
  BY <1>2, <1>3, Zenon DEF Drop

LEMMA ShutdownKeepsSockets ==
    ASSUME OneLockPerPath, SocketInv, LockInv', NEW p \in Process, Shutdown(p)
    PROVE  SocketInv'
<1>1. /\ {"restore", "drop", "erase"} \subseteq Owning
      /\ {"release", "drain", "shutdown"} \cap (Owning \cup {"grant", "drop"} \cup Serving) = {}
  BY DEF Owning, Settling, Serving
<1>2. CASE Restore(p)
  <2>1. UsesSocket(args[p]) => guard[p] = p
    BY <1>2 DEF Restore, SocketInv, GuardsAreRight, Serving
  <2> QED
    BY <1>1, <1>2, <2>1, MovingKeepsSockets DEF Restore, Moves
<1>3. CASE Drop(p)
  <2>1. CASE UsesSocket(args[p])
    BY <1>1, <1>3, <2>1, DropErasesItsOwn, MovingKeepsSockets DEF Drop, Moves, Serving
  <2>2. CASE ~UsesSocket(args[p])
    <3>1. Moves(p, "drain")
      BY <1>3, <2>2, Zenon DEF Drop
    <3> QED
      BY <1>1, <2>2, <3>1, MovingKeepsSockets DEF Moves
  <2> QED
    BY <2>1, <2>2
<1>4. CASE Erase(p)
  BY <1>4, RemovingKeepsSockets DEF Erase
<1>5. CASE Release(p)
  BY <1>1, <1>5, MovingKeepsSockets DEF Release
<1>6. CASE CloseRuntime(p)
  BY <1>1, <1>6, MovingKeepsSockets DEF CloseRuntime, Moves
<1>7. CASE Exit(p)
  BY <1>7, EndingKeepsSockets DEF Exit, Stopped
<1> QED
  BY <1>2, <1>3, <1>4, <1>5, <1>6, <1>7 DEF Shutdown

LEMMA NextKeepsSockets == OneLockPerPath /\ SocketInv /\ [Next]_vars => SocketInv'
<1> SUFFICES ASSUME OneLockPerPath, SocketInv, [Next]_vars PROVE SocketInv'
  OBVIOUS
<1>1. LockInv'
  BY NextKeepsLocks DEF SocketInv
<1> USE DEF SocketsHaveOwners, OwnersHaveSockets, FindingsStand, GuardsAreRight
<1>2. CASE UNCHANGED vars
  BY <1>1, <1>2 DEF vars, SocketInv, Path
<1>3. ASSUME NEW p \in Process, NEW a \in Invocations, Launch(p, a) PROVE SocketInv'
  <2> DEFINE label == IF UsesSocket(a) THEN "lock" ELSE "open"
  <2>1. /\ pc[p] \in Stopped /\ pc' = [pc EXCEPT ![p] = label] /\ args' = [args EXCEPT ![p] = a]
        /\ UNCHANGED <<guard, dir>> /\ pc \in [Process -> Pc] /\ args \in [Process -> Invocations]
    BY <1>3 DEF Launch, Goto, SocketInv, LockInv, TypeOK
  <2>2. /\ pc[p] \notin Owning /\ label \notin {"inspect", "unlink", "rebind"}
        /\ label = "lock" => label \notin Owning \cup {"grant", "drop"} \cup Serving
    BY <2>1 DEF Stopped, Owning, Settling, Serving
  <2> QED
    BY <1>1, <2>1, <2>2 DEF SocketInv, Path
<1>4. ASSUME NEW p \in Process, Startup(p) PROVE SocketInv'
  BY <1>1, <1>4, StartupKeepsSockets
<1>5. ASSUME NEW p \in Process, Shutdown(p) PROVE SocketInv'
  BY <1>1, <1>5, ShutdownKeepsSockets
<1>6. ASSUME NEW p \in Process, Handle(p) \/ Handled(p) PROVE SocketInv'
  BY <1>1, <1>6 DEF Handle, Handled, SocketInv, Path
<1>7. ASSUME NEW p \in Process, Signal(p) PROVE SocketInv'
  <2>1. {"run", "restore"} \subseteq Owning \cap Serving
    BY DEF Owning, Serving
  <2> QED
    BY <1>1, <1>7, <2>1, MovingKeepsSockets DEF Signal, Moves, SocketInv
<1>8. ASSUME NEW p \in Process, Crash(p) PROVE SocketInv'
  BY <1>1, <1>8, EndingKeepsSockets DEF Crash, Stopped
<1>9. ASSUME NEW path \in Paths, PutFile(path) PROVE SocketInv'
  <2>1. /\ dir[path] = None /\ dir' = [dir EXCEPT ![path] = File] /\ UNCHANGED <<pc, args, guard>>
        /\ dir \in [Paths -> Entries \cup {None}]
    BY <1>9 DEF PutFile, SocketInv, LockInv, TypeOK
  <2>2. File # None /\ File.kind = "file" /\ File.owner \notin Process
    BY PathsAssumption, LifecycleAssumption DEF File, Entries
  <2>3. \A q \in Process : Path(q)' = Path(q) /\ Path(q) \in Paths
    BY <2>1, LockIsKnown DEF Path, SocketInv, LockInv, TypeOK
  <2> QED
    BY <1>1, <2>1, <2>2, <2>3 DEF SocketInv
<1> QED
  BY <1>2, <1>3, <1>4, <1>5, <1>6, <1>7, <1>8, <1>9 DEF Next

LEMMA SocketInvHolds ==
    ASSUME OneLockPerPath
    PROVE  Spec => []SocketInv
<1>1. Init => SocketInv
  BY InitSockets
<1>2. SocketInv /\ [Next]_vars => SocketInv'
  BY NextKeepsSockets
<1> QED
  BY <1>1, <1>2, PTL DEF Spec

\* While command lines of one path take one lock, a serving daemon is the one its
\* path leads to and its guard knows its inode (main.rs 247-270), whatever other
\* processes start, stop and crash beside it.
THEOREM ServersAreReachable ==
    ASSUME OneLockPerPath
    PROVE  Spec => []ServingIsReachable
<1>1. SocketInv => ServingIsReachable
  BY DEF SocketInv, OwnersHaveSockets, GuardsAreRight, ServingIsReachable, Owning, Serving
<1> QED
  BY <1>1, SocketInvHolds, PTL

LEMMA EndsRemovesNothing ==
    ASSUME TypeOK, NEW p \in Process, NEW label, Ends(p, label), NEW path \in Paths, dir[path] # None
    PROVE  dir'[path] # None
<1>1. dir'[path] = IF dir[path].owner = p THEN [dir[path] EXCEPT !.owner = None] ELSE dir[path]
  BY DEF Ends, Orphaned
<1>2. dir[path] \in Entries /\ [dir[path] EXCEPT !.owner = None] \in Entries
  BY DEF TypeOK, Entries
<1> QED
  BY <1>1, <1>2, PathsAssumption

LEMMA RemovalsAreOwn ==
    ASSUME OneLockPerPath, SocketInv, [Next]_vars, NEW path \in Paths, dir[path] # None, dir'[path] = None
    PROVE  /\ dir[path].kind = "socket"
           /\ dir[path].owner # None => pc'[dir[path].owner] # pc[dir[path].owner]
<1>1. /\ dir \in [Paths -> Entries \cup {None}] /\ dir' \in [Paths -> Entries \cup {None}]
      /\ pc \in [Process -> Pc] /\ \A p \in Process : Path(p) \in Paths
  BY NextKeepsLocks, LockIsKnown DEF SocketInv, LockInv, TypeOK, Path
<1>2. PICK p \in Process : Unlink(p) \/ Erase(p) \/ Discard(p)
  <2>1. CASE UNCHANGED vars
    BY <2>1 DEF vars
  <2>2. ASSUME NEW p \in Process, NEW label, Ends(p, label) PROVE FALSE
    BY <2>2, EndsRemovesNothing DEF SocketInv, LockInv
  <2>3. ASSUME NEW p \in Process, dir' = [dir EXCEPT ![Path(p)] = Bound(p)] PROVE FALSE
    BY <1>1, <2>3, PathsAssumption DEF Bound, Entries
  <2>4. ASSUME NEW p \in Process, Grant(p) PROVE FALSE
    <3>1. dir' = dir \/ dir' = [dir EXCEPT ![Path(p)] = [dir[Path(p)] EXCEPT !.access = "group"]]
      BY <2>4 DEF Grant
    <3>2. dir[path] \in Entries => [dir[path] EXCEPT !.access = "group"] \in Entries
      BY DEF Entries
    <3> QED
      BY <1>1, <3>1, <3>2, PathsAssumption
  <2>5. ASSUME NEW p \in Process, Startup(p), ~Unlink(p), ~Discard(p) PROVE FALSE
    <3>1. CASE Probe(p)
      <4>1. Ends(p, "refused") \/ Moves(p, "rebind") \/ Moves(p, "inspect")
        BY <3>1, Zenon DEF Probe
      <4> QED
        BY <2>2, <4>1 DEF Moves
    <3>2. CASE Acquire(p) \/ Listen(p) \/ Inspect(p) \/ Identify(p) \/ Refuse(p) \/ Open(p)
      BY <2>2, <3>2 DEF Acquire, Listen, Inspect, Identify, Refuse, Open, Moves
    <3>3. ASSUME BindTo(p, Moves(p, "probe")) \/ BindTo(p, Ends(p, "refused")) PROVE FALSE
      BY <2>2, <2>3, <3>3 DEF BindTo, Moves
    <3>4. CASE Bind(p) \/ Rebind(p)
      BY <3>3, <3>4 DEF Bind, Rebind
    <3> QED
      BY <2>4, <2>5, <3>1, <3>2, <3>4 DEF Startup
  <2>6. ASSUME NEW p \in Process, Shutdown(p), ~Erase(p) PROVE FALSE
    <3>1. CASE Drop(p)
      <4>1. UNCHANGED dir
        BY <3>1, Zenon DEF Drop, Moves
      <4> QED
        BY <4>1
    <3>2. CASE ~Drop(p)
      BY <2>2, <2>6, <3>2 DEF Shutdown, Restore, Release, CloseRuntime, Exit, Moves
    <3> QED
      BY <3>1, <3>2
  <2>7. ASSUME NEW p \in Process,
               (\E a \in Invocations : Launch(p, a)) \/ Handle(p) \/ Handled(p) \/ Signal(p) \/ Crash(p)
        PROVE  FALSE
    BY <2>2, <2>7 DEF Launch, Handle, Handled, Signal, Crash, Moves
  <2>8. ASSUME NEW free \in Paths, PutFile(free) PROVE FALSE
    BY <1>1, <2>8, PathsAssumption DEF PutFile, File, Entries
  <2> QED
    BY <2>1, <2>5, <2>6, <2>7, <2>8 DEF Next
<1>3. path = Path(p)
  <2>1. \A label : ~Ends(p, label)
    BY EndsRemovesNothing DEF SocketInv, LockInv
  <2>2. dir' = [dir EXCEPT ![Path(p)] = None]
    BY <1>2, <2>1 DEF Unlink, Erase, Discard
  <2> QED
    BY <1>1, <2>2
<1>4. CASE Unlink(p)
  <2>1. pc[p] = "unlink" /\ pc[p] \in Binding
    BY <1>4 DEF Unlink, Binding
  <2> QED
    BY <1>3, <2>1, BindersAreAlone DEF SocketInv, FindingsStand
<1>5. CASE Erase(p) \/ Discard(p)
  <2>1. pc[p] \in {"erase", "discard"} /\ pc'[p] \in {"release", "refuse"}
    BY <1>1, <1>5 DEF Erase, Discard, Goto
  <2>2. UsesSocket(args[p])
    BY <2>1 DEF SocketInv, LockInv, OnlySocketsArePrepared, Preparing, Settling
  <2>3. dir[path].owner = p
    BY <1>3, <2>1, <2>2 DEF SocketInv, OwnersHaveSockets, Owning, Settling
  <2> QED
    BY <2>1, <2>3 DEF SocketInv, SocketsHaveOwners
<1> QED
  BY <1>2, <1>4, <1>5

\* While command lines of one path take one lock, starting and stopping never
\* remove a file, nor the socket of a process that answers (main.rs 174-175).
THEOREM OnlyStaleSocketsGo ==
    ASSUME OneLockPerPath
    PROVE  Spec => OnlyStaleSocketsAreRemoved
<1>1. SocketInv /\ [Next]_vars =>
        [\A path \in Paths :
            LET e == dir[path]
            IN  e # None /\ dir'[path] = None =>
                    /\ e.kind = "socket"
                    /\ e.owner # None => pc'[e.owner] # pc[e.owner]]_vars
  BY RemovalsAreOwn
<1> QED
  BY <1>1, SocketInvHolds, PTL DEF Spec, OnlyStaleSocketsAreRemoved

\* Why a start is refused at all.
Excused(p) ==
    \/ pc[p] = "refuse"
    \/ lock[LockOf(args[p])] \notin {None, p}
    \/ /\ dir[Path(p)] # None
       /\ dir[Path(p)].kind = "file" \/ dir[Path(p)].owner \notin {None, p}

LEMMA StartsAreExcused ==
    ASSUME OneLockPerPath, SocketInv, NEW p \in Process, Startup(p), pc'[p] = "refused"
    PROVE  Excused(p)
<1>1. /\ pc \in [Process -> Pc] /\ dir \in [Paths -> Entries \cup {None}] /\ Path(p) \in Paths
      /\ LockOf(args[p]) \in Locks
  BY LockIsKnown DEF SocketInv, LockInv, TypeOK, Path
<1>2. ASSUME NEW label, pc' = [pc EXCEPT ![p] = label] PROVE label = "refused"
  BY <1>1, <1>2
<1>3. CASE Acquire(p)
  <2>1. lock[LockOf(args[p])] # None
    BY <1>2, <1>3 DEF Acquire, Goto
  <2>2. lock[LockOf(args[p])] # p
    BY <1>1, <1>3, LabelSets DEF Acquire, SocketInv, LockInv, LocksHaveHolders
  <2> QED
    BY <2>1, <2>2 DEF Excused
<1>4. CASE Rebind(p)
  BY <1>2, <1>4 DEF Rebind, BindTo, Goto, SocketInv, FindingsStand, Excused
<1>5. CASE Probe(p)
  <2>1. pc[p] = "probe" /\ dir[Path(p)] # None /\ Live(dir[Path(p)])
    <3>1. \/ Moves(p, "rebind") \/ Moves(p, "inspect")
          \/ pc[p] = "probe" /\ dir[Path(p)] # None /\ Live(dir[Path(p)])
      BY <1>5, Zenon DEF Probe
    <3> QED
      BY <1>2, <3>1 DEF Moves, Goto
  <2> QED
    BY <2>1, BindersAreAlone DEF Live, Binding
<1>6. CASE Inspect(p)
  <2>1. dir[Path(p)] # None /\ dir[Path(p)].kind # "socket"
    BY <1>2, <1>6 DEF Inspect, Moves, Goto, SocketInv, FindingsStand
  <2> QED
    BY <1>1, <2>1 DEF Excused, Entries
<1>7. CASE Unlink(p)
  BY <1>2, <1>7 DEF Unlink, Goto, SocketInv, FindingsStand
<1>8. CASE Refuse(p)
  BY <1>8 DEF Refuse, Excused
<1>9. CASE Bind(p) \/ Listen(p) \/ Identify(p) \/ Discard(p) \/ Grant(p) \/ Open(p)
  BY <1>2, <1>9 DEF Bind, BindTo, Listen, Identify, Discard, Grant, Open, Moves, Goto
<1> QED
  BY <1>3, <1>4, <1>5, <1>6, <1>7, <1>8, <1>9 DEF Startup

LEMMA RefusalsAreExcused ==
    ASSUME OneLockPerPath, SocketInv, [Next]_vars, NEW p \in Process, pc'[p] = "refused", pc[p] # "refused"
    PROVE  Excused(p)
<1>1. pc \in [Process -> Pc]
  BY DEF SocketInv, LockInv, TypeOK
<1>2. ASSUME NEW q \in Process, NEW label, pc' = [pc EXCEPT ![q] = label] PROVE q = p /\ label = "refused"
  BY <1>1, <1>2
<1>3. ASSUME NEW q \in Process, Startup(q) PROVE q = p
  <2>1. PICK label : Goto(q, label)
    <3>1. CASE Probe(q)
      <4>1. Ends(q, "refused") \/ Moves(q, "rebind") \/ Moves(q, "inspect")
        BY <3>1, Zenon DEF Probe
      <4> QED
        BY <4>1 DEF Ends, Moves
    <3>2. CASE ~Probe(q)
      BY <1>3, <3>2 DEF Startup, Acquire, Bind, Rebind, BindTo, Listen, Inspect, Unlink, Identify, Discard,
         Refuse, Grant, Open, Ends, Moves
    <3> QED
      BY <3>1, <3>2
  <2> QED
    BY <1>2, <2>1 DEF Goto
<1>4. ASSUME NEW q \in Process, Shutdown(q) PROVE FALSE
  <2>1. PICK label : Goto(q, label) /\ label # "refused"
    <3>1. CASE Drop(q)
      <4>1. Moves(q, "drain") \/ Moves(q, "erase") \/ Moves(q, "release")
        BY <3>1, Zenon DEF Drop
      <4> QED
        BY <4>1 DEF Moves
    <3>2. CASE ~Drop(q)
      BY <1>4, <3>2 DEF Shutdown, Restore, Erase, Release, CloseRuntime, Exit, Ends, Moves
    <3> QED
      BY <3>1, <3>2
  <2> QED
    BY <1>2, <2>1 DEF Goto
<1>5. ASSUME NEW q \in Process, NEW a \in Invocations, Launch(q, a) PROVE FALSE
  BY <1>2, <1>5 DEF Launch, Goto
<1>6. ASSUME NEW q \in Process, Handle(q) \/ Handled(q) \/ Signal(q) \/ Crash(q) PROVE FALSE
  BY <1>2, <1>6 DEF Handle, Handled, Signal, Crash, Ends, Moves, Goto
<1>7. ASSUME NEW path \in Paths, PutFile(path) PROVE FALSE
  BY <1>7 DEF PutFile
<1>8. Startup(p)
  BY <1>3, <1>4, <1>5, <1>6, <1>7 DEF Next, vars
<1> QED
  BY <1>8, StartsAreExcused

\* While command lines of one path take one lock, a start is refused only
\* because another process that lives has the lock, because the path is taken by a
\* file or by another process, or because the new socket's inode cannot be read:
\* never for what a crash left (main.rs 213-244).
THEOREM RefusalsHaveCauses ==
    ASSUME OneLockPerPath
    PROVE  Spec => RefusalHasCause
<1>1. SocketInv /\ [Next]_vars =>
        [\A p \in Process :
            pc'[p] = "refused" /\ pc[p] # "refused" =>
                \/ pc[p] = "refuse"
                \/ lock[LockOf(args[p])] \notin {None, p}
                \/ /\ dir[Path(p)] # None
                   /\ dir[Path(p)].kind = "file" \/ dir[Path(p)].owner \notin {None, p}]_vars
  BY RefusalsAreExcused DEF Excused
<1> QED
  BY <1>1, SocketInvHolds, PTL DEF Spec, RefusalHasCause
=============================================================================
