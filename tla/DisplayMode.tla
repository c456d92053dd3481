----------------------------- MODULE DisplayMode -----------------------------
(***************************************************************************)
(* The refresh rate of the main screen (app display.rs).  The layout is     *)
(* read, a mode is chosen from it and applied, by GNOME's DisplayConfig     *)
(* with the layout as a whole, else by a helper program with the names it   *)
(* printed; the desktop, other programs and cables change it in between.    *)
(***************************************************************************)
EXTENDS Naturals, SequencesExt

CONSTANTS
    Order,         \* the monitors, as the desktop lists them
    Modes,         \* the modes of each: a size and a refresh rate in 1/100 Hz
    Off,
    MostChanges,   \* bound: changes of the layout by others
    MostRequests   \* bound: rates the user asks for

Monitors == ToSet(Order)

\* Each monitor lists its modes; one of them is the fastest.
ASSUME DisplayAssumption ==
    /\ MostChanges \in Nat /\ MostRequests \in Nat
    /\ Order \in Seq(Monitors)
    /\ \A m \in Monitors :
           /\ \A mode \in Modes[m] : DOMAIN mode = {"size", "refresh"} /\ mode.refresh \in Nat
           /\ \E best \in Modes[m] : \A mode \in Modes[m] : mode.refresh <= best.refresh

VARIABLES
    tools,     \* which of "mutter", "kscreen" and "xrandr" answer
    layout,    \* the current mode, or Off, and the priority of each monitor
    serial,    \* which layout it is
    offered,   \* what the page shows of the display
    change,    \* the request being carried out
    changes, rates  \* bounds

displayVars == <<tools, layout, serial, offered, change, changes, rates>>

Rounded(refresh) == (refresh + 50) \div 100

Active(l) == {i \in DOMAIN Order : l.mode[Order[i]] # Off}

\* kscreen goes by the lowest priority, and 0 is none; the others only tell the
\* primary monitor, which has priority 1.
Rank(priority, tool) ==
    IF tool = "kscreen" THEN (IF priority = 0 THEN 3 ELSE priority)
                        ELSE (IF priority = 1 THEN 0 ELSE 1)

\* The first of the best.
Target(l, tool) ==
    LET rank(i) == Rank(l.priority[Order[i]], tool)
        best == {i \in Active(l) : \A j \in Active(l) : rank(i) <= rank(j)}
    IN  Order[CHOOSE i \in best : \A j \in best : i <= j]

\* Mutant: the highest rate is taken whatever size it comes with.
CandidatesOfAnySize(m, size, hz) == {mode \in Modes[m] : Rounded(mode.refresh) = hz}

\* The modes of that rate that leave the resolution alone.
Candidates(m, size, hz) ==
    {mode \in Modes[m] : mode.size = size /\ Rounded(mode.refresh) = hz}

\* Of several exact rates mutter::set takes the highest.
Want(modes) == CHOOSE mode \in modes : \A other \in modes : other.refresh <= mode.refresh

Nothing == [supported |-> FALSE, hz |-> {}]

Info(l, tool) ==
    LET size == l.mode[Target(l, tool)].size
    IN  [supported |-> TRUE,
         hz |-> {Rounded(m.refresh) : m \in {x \in Modes[Target(l, tool)] : x.size = size}}]

\* The first tool that answers, in this order.
Tool ==
    CASE "mutter" \in tools -> "mutter"
      [] tools \cap {"mutter", "kscreen"} = {"kscreen"} -> "kscreen"
      [] tools = {"xrandr"} -> "xrandr"
      [] OTHER -> "none"

Get == IF Tool = "none" \/ Active(layout) = {} THEN Nothing ELSE Info(layout, Tool)

NoChange == [at |-> "idle"]

Layouts ==
    {l \in [mode : [Monitors -> (UNION {Modes[m] : m \in Monitors}) \cup {Off}],
            priority : [Monitors -> 0..2]] :
        \A m \in Monitors : l.mode[m] \in Modes[m] \cup {Off}}

DisplayInit ==
    /\ tools \in SUBSET {"mutter", "kscreen", "xrandr"}
    /\ layout \in {l \in Layouts : \A m \in Monitors :
                      l.mode[m] # Off /\ l.mode[m] = Want(Modes[m])}
    /\ serial = 0
    /\ offered = Nothing /\ change = NoChange
    /\ changes = MostChanges /\ rates = MostRequests

\* get_display.
GetDisplay ==
    /\ change = NoChange /\ offered' = Get /\ offered' # offered
    /\ UNCHANGED <<tools, layout, serial, change, changes, rates>>

\* A rate the page offers is asked for; it may be of an older layout.
SetRefreshRate(hz) ==
    /\ change = NoChange /\ rates > 0
    /\ change' = [at |-> "asked", hz |-> hz]
    /\ rates' = rates - 1
    /\ UNCHANGED <<tools, layout, serial, offered, changes>>

\* The layout is read and the mode chosen.
Choose ==
    LET m == Target(layout, Tool)
        modes == Candidates(m, layout.mode[m].size, change.hz)
    IN  /\ change.at = "asked"
        /\ change' = IF Tool = "none" \/ Active(layout) = {} \/ modes = {} THEN NoChange
                  ELSE [at |-> "chosen", hz |-> change.hz, tool |-> Tool, output |-> m,
                        modes |-> IF Tool = "mutter" THEN {Want(modes)} ELSE modes,
                        seen |-> layout, serial |-> serial]
        /\ UNCHANGED <<tools, layout, serial, offered, changes, rates>>

\* ApplyMonitorsConfig takes modes for all monitors, and only for the layout they
\* were taken from; a helper changes the output it is given.  Of a monitor, mode
\* and priority are modelled; position, scale, mirroring and properties are not.
Apply ==
    /\ change.at = "chosen"
    /\ change.tool = "mutter" => serial = change.serial
    /\ LET modes == IF change.tool = "mutter" THEN change.seen.mode ELSE layout.mode
       IN  \E mode \in change.modes : layout' = [layout EXCEPT !.mode = [modes EXCEPT ![change.output] = mode]]
    /\ serial' = serial + 1
    /\ change' = [at |-> "applied"]
    /\ UNCHANGED <<tools, offered, changes, rates>>

\* The layout changed, or the helper failed or took too long.
Fail ==
    /\ change.at = "chosen"
    /\ change' = NoChange
    /\ UNCHANGED <<tools, layout, serial, offered, changes, rates>>

Reread ==
    /\ change.at = "applied"
    /\ change' = NoChange /\ offered' = Get
    /\ UNCHANGED <<tools, layout, serial, changes, rates>>

\* Somebody else sets a mode, turns a monitor off or makes another one primary.
ChangeLayout ==
    /\ changes > 0
    /\ \E m \in Monitors :
           \/ \E mode \in (Modes[m] \cup {Off}) \ {layout.mode[m]} :
                  layout' = [layout EXCEPT !.mode[m] = mode]
           \/ \E p \in 0..2 \ {layout.priority[m]} : layout' = [layout EXCEPT !.priority[m] = p]
    /\ serial' = serial + 1 /\ changes' = changes - 1
    /\ UNCHANGED <<tools, offered, change, rates>>

DisplayNext ==
    \/ GetDisplay \/ \E hz \in offered.hz : SetRefreshRate(hz)
    \/ Choose \/ Apply \/ Fail \/ Reread
    \/ ChangeLayout

DisplaySpec == DisplayInit /\ [][DisplayNext]_displayVars

-----------------------------------------------------------------------------
(* Properties.                                                              *)

\* Of modes and priorities, setting the rate changes the one rate: the mode of no
\* other monitor and no priority, whatever others change meanwhile.  The
\* resolution stays with GNOME, which refuses a layout that is not the latest; a
\* helper keeps it while nobody else changed the layout (display.rs 106-149,
\* 347-427).
OnlyTheRateChanges ==
    [][Apply =>
        /\ \A m \in Monitors \ {change.output} : layout'.mode[m] = layout.mode[m]
        /\ layout'.priority = layout.priority
        /\ Rounded(layout'.mode[change.output].refresh) = change.hz
        /\ serial = change.serial \/ change.tool = "mutter" =>
               layout'.mode[change.output].size = layout.mode[change.output].size]_displayVars
=============================================================================
