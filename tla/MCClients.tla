------------------------------ MODULE MCClients ------------------------------
(***************************************************************************)
(* The app, and the daemon as the app sees it, in one run: "focus" says      *)
(* which part of it moves, the others rest.                                 *)
(***************************************************************************)
EXTENDS StatusFeed, DaemonClient, UiSettings, DisplayMode

CONSTANTS Laptop, Desk

VARIABLE focus

\* What a behaviour of the status feed spends: a change by others and a command;
\* a peripheral's command; both parts changing; a queue full of telemetry; two
\* commands; a reconnection and a second load.
Budget(n, c, s, t, k, l) ==
    [connections |-> n, core |-> c, side |-> s, telemetry |-> t, commands |-> k, loads |-> l]

MCBounds ==
    {Budget(1, 1, 0, 0, 1, 1), Budget(1, 0, 1, 0, 1, 1), Budget(1, 1, 1, 0, 0, 1),
     Budget(1, 1, 0, 2, 0, 1), Budget(1, 0, 0, 0, 2, 1), Budget(2, 0, 0, 0, 1, 2)}

\* The panel has two rates that round to 60, and its highest one in a size of its own.
MCOrder == <<Laptop, Desk>>

Mode(size, refresh) == [size |-> size, refresh |-> refresh]

MCModes ==
    [m \in {Laptop, Desk} |->
        IF m = Laptop
        THEN {Mode("full", 5994), Mode("full", 6000), Mode("full", 24000), Mode("half", 6005)}
        ELSE {Mode("full", 6000), Mode("half", 12000)}]

vars == <<feedVars, clientVars, uiVars, displayVars, focus>>

FeedRests ==
    /\ core = 0 /\ side = 0 /\ handle = "gone" /\ job = << >> /\ newest = << >> /\ conn = 0 /\ online = FALSE
    /\ requests = << >> /\ bus = None /\ wire = << >> /\ calls = {} /\ results = {}
    /\ page = "closed" /\ live = FALSE /\ store = None /\ guard = << >> /\ stale = FALSE
    /\ left = << >>
ClientRests ==
    /\ mutates = << >> /\ at = [c \in Calls |-> "new"] /\ answer = << >> /\ queue = << >>
    /\ version = Unknown /\ daemon = Unknown /\ pending = << >> /\ nextId = 0
    /\ outgoing = << >> /\ incoming = << >> /\ changed = {} /\ connects = 0
UiRests ==
    /\ autostart = FALSE /\ file = Absent /\ memory = Absent /\ step = "idle" /\ next = Absent
    /\ previous = FALSE /\ saves = << >> /\ answers = << >> /\ shown = Default
    /\ confirmed = Default /\ known = FALSE /\ revision = 0 /\ snapshot = Absent
    /\ doubt = FALSE /\ raced = FALSE /\ budget = << >>
DisplayRests ==
    /\ tools = {} /\ layout = << >> /\ serial = 0 /\ offered = << >> /\ change = NoChange
    /\ changes = 0 /\ rates = 0

AppInit ==
    \/ focus = "feed" /\ FeedInit /\ ClientRests /\ UiRests /\ DisplayRests
    \/ focus = "client" /\ FeedRests /\ ClientInit /\ UiRests /\ DisplayRests
    \/ focus = "settings" /\ FeedRests /\ ClientRests /\ UiInit /\ DisplayRests
    \/ focus = "display" /\ FeedRests /\ ClientRests /\ UiRests /\ DisplayInit

AppNext ==
    \/ focus = "feed" /\ FeedNext /\ UNCHANGED <<clientVars, uiVars, displayVars, focus>>
    \/ focus = "client" /\ ClientNext /\ UNCHANGED <<feedVars, uiVars, displayVars, focus>>
    \/ focus = "settings" /\ UiNext /\ UNCHANGED <<feedVars, clientVars, displayVars, focus>>
    \/ focus = "display" /\ DisplayNext /\ UNCHANGED <<feedVars, clientVars, uiVars, focus>>

AppSpec == AppInit /\ [][AppNext]_vars
=============================================================================
