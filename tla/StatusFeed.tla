----------------------------- MODULE StatusFeed -----------------------------
(***************************************************************************)
(* How a change of the daemon's status reaches the page of the app: the     *)
(* handlers and loops that assemble and broadcast it (server.rs), the bus   *)
(* and the forwarder of the app's connection, the app's client that turns   *)
(* lines into events and results (client.rs, main.rs), and the guard of     *)
(* revisions in front of the page's store (bridge-init.js, bridge.js).      *)
(***************************************************************************)
EXTENDS Naturals, Sequences

CONSTANTS
    BusCapacity,   \* of event_bus (64)
    Connections,   \* bound: how often the app connects
    Bounds,        \* what a behaviour may spend: what others do to the core's and
                   \* to the side's part of the status (losses of the EC's handle
                   \* included), telemetry events, commands and loads of the app
    None

ASSUME FeedAssumption ==
    /\ BusCapacity \in Nat \ {0} /\ Connections \in Nat \ {0}
    /\ \A b \in Bounds :
           b \in [connections : 0..Connections, core : Nat, side : Nat,
                  telemetry : Nat, commands : Nat, loads : Nat]

\* Who publishes: a handler per connection of the app, the handler of another
\* client or the rescan loop, and the telemetry loop.
Handlers == 1..Connections
Other == Connections + 1
Loop == Connections + 2
Actors == Handlers \cup {Other, Loop}

VARIABLES
    core, side,   \* what the status is made of: how often each part changed
    handle,       \* the EC's, a part of the core's: "held", "gone", or "lost" since
                  \* the telemetry loop last looked
    job,          \* what each actor is doing
    newest,       \* the newest of each part ever broadcast
    conn,         \* the app's connection; 0 before the first
    online,       \* is it up
    requests,     \* requests on their way to its handler
    bus,          \* events queued for it, or None before it subscribes
    wire,         \* lines on their way to the app
    calls,        \* commands given but not yet queued by the client
    results,      \* answers on their way to whoever asked
    page,         \* "closed", "loading", "asking" or "ready"
    live,         \* does it show the daemon as connected: nothing covers its controls
    store,        \* the status the page shows, or None
    guard,        \* the revision guard's counters for the status
    stale,        \* was the last status sent lost, or overtaken by an older one
    left          \* what may still be spent

daemonVars == <<core, side, handle, job, newest>>
linkVars == <<conn, online, requests, bus, wire>>
pageVars == <<calls, results, page, live, store, guard>>
feedVars == <<daemonVars, linkVars, pageVars, stale, left>>

Telemetry == <<>>      \* an event that is no status
Statuses == Nat \X Nat

\* "to" says who waits for the answer; "seen" and "number" are what the guard
\* captured when it was asked for.
Ask(kind, to, seen, number) == [kind |-> kind, to |-> to, seen |-> seen, number |-> number]
Asks == [kind : {"subscribe", "get", "set", "slow"}, seen : Nat, number : Nat,
         to : {"client", "other", "page", "command", "tray"}]

ASSUME NoneAssumption ==
    None \notin Asks \cup Statuses \cup {Telemetry} \cup Seq(Statuses \cup {Telemetry})

Resting == [at |-> "idle", ask |-> None, side |-> 0, status |-> None, failed |-> FALSE]

Spend(what) == left[what] > 0 /\ left' = [left EXCEPT ![what] = @ - 1]

\* Does status s lack a change that t has?
Older(s, t) == s[1] < t[1] \/ s[2] < t[2]
Joined(s, t) == <<IF s[1] < t[1] THEN t[1] ELSE s[1], IF s[2] < t[2] THEN t[2] ELSE s[2]>>

FeedInit ==
    /\ core = 0 /\ side = 0 /\ handle \in {"held", "gone"}
    /\ job = [a \in Actors |-> Resting]
    /\ newest = <<0, 0>>
    /\ conn = 0 /\ online = FALSE
    /\ requests = << >> /\ bus = None /\ wire = << >>
    /\ calls = {} /\ results = {}
    /\ page = "closed" /\ live = FALSE /\ store = None
    /\ guard = [revision |-> 0, observed |-> 0, confirmed |-> 0, sequence |-> 0]
    /\ stale = FALSE
    /\ left \in Bounds

-----------------------------------------------------------------------------
(* The daemon.  A request is served step by step; the core lock is held for *)
(* one of them.                                                             *)

\* Only the app's answers matter here, and only while it is there to read them.
Answer(a, status) ==
    job' = [job EXCEPT ![a] = IF a = conn /\ online
                              THEN [@ EXCEPT !.at = "reply", !.status = status]
                              ELSE Resting]

\* The commands of peripherals wait for a worker first.
Serve(a, ask) ==
    job' = [job EXCEPT ![a] = [Resting EXCEPT !.ask = ask,
                                !.at = IF ask.kind = "slow" THEN "work" ELSE "read"]]

\* handle_conn takes one request at a time.
TakeRequest ==
    /\ online /\ requests # << >> /\ job[conn].at = "idle"
    /\ requests' = Tail(requests)
    /\ IF Head(requests).kind = "subscribe"
       THEN bus' = << >> /\ stale' = FALSE /\ UNCHANGED job
       ELSE Serve(conn, Head(requests)) /\ UNCHANGED <<bus, stale>>
    /\ UNCHANGED <<core, side, handle, newest, conn, online, wire, pageVars, left>>

\* Another client, or ddc_rescan_loop.
OthersAct ==
    /\ job[Other].at = "idle"
    /\ \/ Spend("core") /\ Serve(Other, Ask("set", "other", 0, 0))
       \/ Spend("side") /\ Serve(Other, Ask("slow", "other", 0, 0))
    /\ UNCHANGED <<core, side, handle, newest, linkVars, pageVars, stale>>

\* A worker changes the monitor or the GPU, or fails; a failure of the monitor
\* is published like a success, of the GPU or of a rescan it is not.
Work(a) ==
    /\ job[a].at = "work"
    /\ \/ /\ \E failed \in BOOLEAN : job' = [job EXCEPT ![a].at = "read", ![a].failed = failed]
          /\ side' \in {side, side + 1}
       \/ Answer(a, None) /\ UNCHANGED side
    /\ UNCHANGED <<core, handle, newest, linkVars, pageVars, stale, left>>

\* The peripherals' snapshot is copied before the core lock is awaited.
ReadSide(a) ==
    /\ job[a].at = "read"
    /\ job' = [job EXCEPT ![a].side = side, ![a].at = "lock"]
    /\ UNCHANGED <<core, side, handle, newest, linkVars, pageVars, stale, left>>

\* Under the core lock the state changes and the status is assembled.  A refused
\* command is not published, though the EC's handle may be lost over it; over one
\* that is accepted too, when the fans are set last.
Assemble(a) ==
    LET kind == job[a].ask.kind
        status == <<core', job[a].side>>
        Send == job' = [job EXCEPT ![a].status = status, ![a].at = "send"]
        Keep == UNCHANGED <<handle, left>>
        Lose == handle = "held" /\ handle' = "lost" /\ Spend("core")
    IN  /\ job[a].at = "lock"
        /\ \/ kind = "set" /\ core' = core + 1 /\ Send /\ (Keep \/ Lose)
           \/ kind = "set" /\ core' = core + 1 /\ Answer(a, None) /\ Lose
           \/ kind = "set" /\ UNCHANGED core /\ Keep /\ Answer(a, None)
           \/ kind = "slow" /\ UNCHANGED core /\ Keep /\ Send
           \/ kind = "get" /\ UNCHANGED core /\ Keep /\ Answer(a, status)
        /\ UNCHANGED <<side, newest, linkVars, pageVars, stale>>

\* telemetry_loop looks for the handle, which may be back, and tells of one lost
\* or found since it last looked; then power_tick tells of a transition it made
\* ("moved"), and may lose the handle over one that fails.  Both parts are
\* assembled under the lock if there is something to tell.
Tick ==
    /\ job[Loop].at = "idle"
    /\ \E seen \in {"held", "gone"}, moved, loses \in BOOLEAN :
         LET told == moved \/ seen # handle
             differs == moved \/ loses \/ (seen = "held") # (handle = "held")
         IN  /\ loses => seen = "held"
             /\ handle' = IF loses THEN "lost" ELSE seen
             /\ core' = IF differs THEN core + 1 ELSE core
             /\ CASE differs -> Spend("core")
                  [] ~differs /\ told -> UNCHANGED left
                  [] ~differs /\ ~told -> Spend("telemetry")
             /\ job' = [job EXCEPT ![Loop] =
                           [Resting EXCEPT !.at = "telemetry",
                                           !.status = IF told THEN <<core', side>> ELSE None]]
    /\ UNCHANGED <<side, newest, linkVars, pageVars, stale>>

\* A receiver that is behind loses its oldest event.
Queued(queue, event) ==
    IF Len(queue) = BusCapacity THEN Append(Tail(queue), event) ELSE Append(queue, event)

LastLost(queue) ==
    /\ Len(queue) = BusCapacity /\ Head(queue) # Telemetry
    /\ \A i \in 2..Len(queue) : queue[i] = Telemetry

Broadcast(event) == bus' = IF bus = None THEN None ELSE Queued(bus, event)

\* Statuses are sent after the lock was released.
SendStatus(a) ==
    LET status == job[a].status
    IN  /\ job[a].at = "send"
        /\ Broadcast(status)
        /\ stale' = Older(status, newest)
        /\ newest' = Joined(newest, status)
        /\ Answer(a, IF job[a].failed THEN None ELSE status)
        /\ UNCHANGED <<core, side, handle, conn, online, requests, wire, pageVars, left>>

\* Telemetry is sent every second and first; it shares the queue.
SendTelemetry ==
    /\ job[Loop].at = "telemetry"
    /\ Broadcast(Telemetry)
    /\ stale' = (stale \/ (bus # None /\ LastLost(bus)))
    /\ job' = [job EXCEPT ![Loop] = IF job[Loop].status = None THEN Resting ELSE [@ EXCEPT !.at = "send"]]
    /\ UNCHANGED <<core, side, handle, newest, conn, online, requests, wire, pageVars, left>>

\* An answer of a handler whose connection is gone is lost.
Reply(a) ==
    /\ job[a].at = "reply"
    /\ job' = [job EXCEPT ![a] = Resting]
    /\ wire' = IF a = conn /\ online
               THEN Append(wire, [ask |-> job[a].ask, status |-> job[a].status]) ELSE wire
    /\ UNCHANGED <<core, side, handle, newest, conn, online, requests, bus, pageVars, stale, left>>

\* forward_events shares the writer with the handler.
Forward ==
    /\ online /\ bus # None /\ bus # << >>
    /\ bus' = Tail(bus)
    /\ wire' = IF Head(bus) = Telemetry THEN wire
               ELSE Append(wire, [ask |-> None, status |-> Head(bus)])
    /\ UNCHANGED <<daemonVars, conn, online, requests, pageVars, stale, left>>

-----------------------------------------------------------------------------
(* The app's client.                                                        *)

\* It subscribes and asks for the status at once.
Connect ==
    /\ ~online /\ Spend("connections")
    /\ conn' = conn + 1 /\ online' = TRUE
    /\ requests' = <<Ask("subscribe", "client", 0, 0), Ask("get", "client", 0, 0)>>
    /\ live' = (page # "closed")
    /\ UNCHANGED <<daemonVars, bus, wire, calls, results, page, store, guard, stale>>

\* A restart, a write that timed out, a sleep: requests in flight fail.
Disconnect ==
    /\ online
    /\ online' = FALSE /\ requests' = << >> /\ bus' = None /\ wire' = << >>
    /\ page' = IF page = "asking" /\ \A r \in results : r.ask.to # "page" THEN "ready" ELSE page
    /\ live' = FALSE
    /\ UNCHANGED <<daemonVars, conn, calls, results, store, guard, stale, left>>

\* publishEventState: an event is always shown, and counted.
Show(status) ==
    IF page = "closed" THEN UNCHANGED <<store, guard>>
    ELSE /\ store' = status
         /\ guard' = [guard EXCEPT !.revision = @ + 1, !.observed = @ + 1]

\* The answer to the tray, or to the client itself, becomes an event of the page.
Emit(status) == Show(status) /\ stale' = (stale \/ Older(status, newest))

\* An answer to anybody else goes to whoever waits for it.
ReadLine ==
    /\ wire # << >>
    /\ wire' = Tail(wire)
    /\ LET line == Head(wire)
       IN  CASE line.ask = None -> Show(line.status) /\ UNCHANGED <<results, stale>>
             [] line.ask # None /\ line.ask.to = "client" -> Emit(line.status) /\ UNCHANGED results
             [] OTHER -> results' = results \cup {line} /\ UNCHANGED <<store, guard, stale>>
    /\ UNCHANGED <<daemonVars, conn, online, requests, bus, calls, page, live, left>>

-----------------------------------------------------------------------------
(* The page.                                                                *)

\* initTauri listens first and then loads a snapshot, under the revision it
\* captured; the user may retry it.
Load ==
    /\ page \in {"closed", "ready"} /\ Spend("loads") /\ page' = "loading"
    /\ calls' = calls \cup {Ask("get", "page", guard.revision, 0)}
    /\ UNCHANGED <<daemonVars, linkVars, results, live, store, guard, stale>>

\* captureCommand: snapshots already asked for are superseded.
Command(kind) ==
    /\ live /\ Spend("commands")
    /\ calls' = calls \cup {Ask(kind, "command", guard.observed, guard.sequence + 1)}
    /\ guard' = [guard EXCEPT !.revision = @ + 1, !.sequence = @ + 1]
    /\ UNCHANGED <<daemonVars, linkVars, results, page, live, store, stale>>

\* The tray gives its commands beside the page.
Tray ==
    /\ Spend("commands")
    /\ calls' = calls \cup {Ask("set", "tray", 0, left.commands)}
    /\ UNCHANGED <<daemonVars, linkVars, results, page, live, store, guard, stale>>

\* Concurrent calls reach the client's queue in any order, and fail offline.
Enqueue(ask) ==
    /\ calls' = calls \ {ask}
    /\ requests' = IF online THEN Append(requests, ask) ELSE requests
    /\ page' = IF ask.to # "page" THEN page ELSE IF online THEN "asking" ELSE "ready"
    /\ UNCHANGED <<daemonVars, conn, online, bus, wire, results, live, store, guard, stale, left>>

\* Mutant: a result is shown whatever was observed since.
AcceptsAnyResult(ask) == ask.number > guard.confirmed

\* publishCommand: not over a status observed since, nor over a later result.
AcceptsResult(ask) == guard.observed = ask.seen /\ ask.number > guard.confirmed

\* publish: a snapshot is shown if nothing happened since it was asked for.
AcceptsSnapshot(ask) == guard.revision = ask.seen

Finish(r) ==
    /\ results' = results \ {r}
    /\ CASE r.status # None /\ r.ask.to = "tray" -> Emit(r.status)
         [] r.status # None /\ r.ask.to = "page" /\ AcceptsSnapshot(r.ask) ->
                Show(r.status) /\ UNCHANGED stale
         [] r.status # None /\ r.ask.to = "command" /\ AcceptsResult(r.ask) ->
                /\ store' = r.status
                /\ guard' = [guard EXCEPT !.revision = @ + 1, !.confirmed = r.ask.number]
                /\ UNCHANGED stale
         [] OTHER -> UNCHANGED <<store, guard, stale>>
    /\ IF r.ask.to = "page" THEN page' = "ready" /\ live' = online ELSE UNCHANGED <<page, live>>
    /\ UNCHANGED <<daemonVars, linkVars, calls, left>>

FeedNext ==
    \/ TakeRequest \/ OthersAct \/ Tick \/ SendTelemetry \/ Forward
    \/ \E a \in Actors : Work(a) \/ ReadSide(a) \/ Assemble(a) \/ SendStatus(a) \/ Reply(a)
    \/ Connect \/ Disconnect \/ ReadLine
    \/ Load \/ Tray \/ \E kind \in {"set", "slow"} : Command(kind)
    \/ \E ask \in calls : Enqueue(ask)
    \/ \E r \in results : Finish(r)

FeedSpec == FeedInit /\ [][FeedNext]_feedVars

-----------------------------------------------------------------------------
(* Properties.                                                              *)

\* Is there nothing left that could still change what the page shows, and was
\* the telemetry loop there since the handle was lost?
Settled ==
    /\ handle # "lost"
    /\ page = "ready" /\ online /\ bus = << >>
    /\ requests = << >> /\ wire = << >> /\ calls = {} /\ results = {}
    /\ \A a \in Actors : job[a].at = "idle"

\* Once everything in flight has arrived the page shows the daemon's status,
\* whatever order commands, snapshots, events and reconnections came in
\* (bridge-init.js 13-55, client.rs 152-166).  Three times the code leaves it
\* behind: until the telemetry loop's next sample when a refused command or a
\* failed transition lost the EC's handle (core.rs 149-151), when the last status
\* sent was lost to lag (server.rs 107-111), and when it was sent, or emitted by
\* the tray or the client, after a newer one.
PageShowsTheStatus == Settled /\ ~stale => store = <<core, side>>
=============================================================================
