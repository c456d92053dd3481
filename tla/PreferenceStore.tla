-------------------------- MODULE PreferenceStore --------------------------
(***************************************************************************)
(* What the daemon promises about preferences: they are one register, in   *)
(* memory and in a file.  A command or automation replaces both at once,   *)
(* normalising may leave the file behind, and a restart goes back to the   *)
(* file.  Nothing else ever touches them, whatever the hardware does.      *)
(* FangCore implements this.                                               *)
(***************************************************************************)
EXTENDS Preferences

CONSTANT Commands

VARIABLES memory, file

Store(next) == memory' = next /\ file' = next

\* A client's command, on any power source; nothing is asked of no laptop.
Ask(cmd) ==
    \E source \in BOOLEAN \cup {None} :
        /\ Desired(TRUE, source, memory, cmd) # Rejected
        /\ Store(Desired(TRUE, source, memory, cmd))

\* Automation acts on preferences m that ask for it.
Automate(m) ==
    /\ m.auto_power
    /\ \E source \in BOOLEAN : Store(AutomationState(TRUE, m, source))

\* Preferences are fitted to the laptop, or to any while there is none; the
\* result may not reach the file.
Normalise ==
    \E present \in BOOLEAN :
        /\ memory' = SanitizeLoadedState(present, memory)
        /\ file' \in {file, memory'}

\* A laptop that came back is normalised for before automation acts.
StoreNext ==
    \/ \E cmd \in Commands : Ask(cmd)
    \/ Automate(memory)
    \/ Automate(SanitizeLoadedState(TRUE, memory))
    \/ Normalise
    \/ Store(file)

StoreSpec == memory = file /\ [][StoreNext]_<<memory, file>>
=============================================================================
