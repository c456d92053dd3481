----------------------------- MODULE UiSettings -----------------------------
(***************************************************************************)
(* The app's own settings (app main.rs): autostart lives in the operating   *)
(* system and in a file, and both are kept in step with the value in memory *)
(* and the one the page shows (ui-settings.js, bridge-init.js), over failed *)
(* writes, changes from outside and the end of the app at any point.        *)
(***************************************************************************)
EXTENDS Naturals, Sequences

CONSTANTS
    MostSaves, MostLoads,        \* bounds: what the user does
    MostEnds, MostOutside,       \* bounds: what happens to the app
    Absent

VARIABLES
    autostart,  \* in the operating system
    file,       \* the settings saved, or Absent
    memory,     \* of the running app, or Absent
    step,       \* of set_ui_settings: "idle", "read", "apply", "save" or "undo"
    next,       \* the settings it saves
    previous,   \* autostart as it found it
    saves,      \* what the page asked to save
    answers,    \* on their way back to the page
    shown,      \* by the page
    confirmed,  \* by the committer of ui-settings.js
    known,      \* did the app ever confirm settings to this page
    revision,   \* how often the page published settings
    snapshot,   \* a snapshot being loaded, or Absent
    doubt,      \* may the copies differ for a reason nobody can undo
    raced,      \* did autostart change from outside during a save
    budget      \* what may still happen

appVars == <<autostart, file, memory, step, next, previous>>
uiPageVars == <<saves, answers, shown, confirmed, known, revision, snapshot>>
uiVars == <<appVars, uiPageVars, doubt, raced, budget>>

Settings == [autostart : BOOLEAN, close_to_tray : BOOLEAN]
Default == [autostart |-> FALSE, close_to_tray |-> TRUE]

ASSUME UiAssumption ==
    {MostSaves, MostLoads, MostEnds, MostOutside} \subseteq Nat /\ Absent \notin Settings

Saved == IF file = Absent THEN Default ELSE file

Use(what) == budget[what] > 0 /\ budget' = [budget EXCEPT ![what] = @ - 1]

UiInit ==
    /\ autostart \in BOOLEAN /\ file \in Settings \cup {Absent} /\ memory = Absent
    /\ step = "idle" /\ next = Absent /\ previous = FALSE
    /\ saves = << >> /\ answers = << >>
    /\ shown = Default /\ confirmed = Default /\ known = FALSE
    /\ revision = 0 /\ snapshot = Absent
    /\ doubt = FALSE /\ raced = FALSE
    /\ budget = [save |-> MostSaves, load |-> MostLoads, end |-> MostEnds, outside |-> MostOutside]

-----------------------------------------------------------------------------
(* The app starts and ends.                                                 *)

\* The operating system is right about autostart; the file follows it.
Start ==
    LET actual == [Saved EXCEPT !.autostart = autostart]
    IN  /\ memory = Absent
        /\ \/ /\ memory' = actual /\ doubt' = FALSE
              /\ file' = IF actual # Saved THEN actual ELSE file
           \/ memory' = actual /\ actual # Saved /\ doubt' = TRUE /\ UNCHANGED file  \* the write failed
           \/ memory' = Saved /\ doubt' = TRUE /\ UNCHANGED file                     \* unreadable
        /\ UNCHANGED <<autostart, step, next, previous, uiPageVars, raced, budget>>

\* Whatever it was doing: a file is replaced as a whole or not at all.
End ==
    /\ memory # Absent /\ Use("end")
    /\ memory' = Absent /\ step' = "idle" /\ next' = Absent /\ previous' = FALSE
    /\ saves' = << >> /\ answers' = << >>
    /\ shown' = Default /\ confirmed' = Default /\ known' = FALSE
    /\ revision' = 0 /\ snapshot' = Absent /\ raced' = FALSE
    /\ UNCHANGED <<autostart, file, doubt>>

\* The desktop's own settings, a package.
ChangeOutside ==
    /\ Use("outside")
    /\ autostart' = ~autostart
    /\ doubt' = (memory # Absent) /\ raced' = (step # "idle")
    /\ UNCHANGED <<file, memory, step, next, previous, uiPageVars>>

-----------------------------------------------------------------------------
(* set_ui_settings and commit_ui_settings.                                  *)

Changes == previous # next.autostart

\* The settings in memory follow only a save that succeeded.
Return(ok) ==
    /\ step' = "idle"
    /\ answers' = Append(answers, [ok |-> ok, settings |-> next])
    /\ memory' = IF ok THEN next ELSE memory
    /\ UNCHANGED <<next, saves, shown, confirmed, known, revision, snapshot, budget>>

Continue(at) == step' = at /\ UNCHANGED <<memory, next, uiPageVars, budget>>

\* The lock of the settings is taken.
BeginSave ==
    /\ memory # Absent /\ step = "idle" /\ saves # << >>
    /\ step' = "read" /\ next' = Head(saves) /\ saves' = Tail(saves)
    /\ UNCHANGED <<autostart, file, memory, previous, answers, shown, confirmed, known, revision,
                   snapshot, doubt, raced, budget>>

ReadAutostart ==
    /\ step = "read"
    /\ \/ Continue("apply") /\ previous' = autostart /\ raced' = FALSE
       \/ Return(FALSE) /\ UNCHANGED <<previous, raced>>
    /\ UNCHANGED <<autostart, file, doubt>>

\* A failed enable or disable is taken to have left the entry as it was: it is
\* the plugin's, and the code asks no more (main.rs:111).
ApplyAutostart ==
    /\ step = "apply"
    /\ \/ Changes /\ Continue("save") /\ autostart' = next.autostart
       \/ Changes /\ Return(FALSE) /\ UNCHANGED autostart
       \/ ~Changes /\ Continue("save") /\ UNCHANGED autostart
    /\ UNCHANGED <<file, previous, doubt, raced>>

SaveSucceeds ==
    /\ step = "save"
    /\ file' = next /\ doubt' = raced
    /\ Return(TRUE)
    /\ UNCHANGED <<autostart, previous, raced>>

\* Mutant: a save that failed leaves autostart as it was applied.
SaveFailsForGood ==
    /\ step = "save"
    /\ Return(FALSE)
    /\ UNCHANGED <<autostart, file, previous, doubt, raced>>

SaveFails ==
    /\ step = "save"
    /\ \/ Changes /\ Continue("undo")
       \/ ~Changes /\ Return(FALSE)
    /\ UNCHANGED <<autostart, file, previous, doubt, raced>>

Undo ==
    /\ step = "undo"
    /\ \/ autostart' = previous /\ UNCHANGED doubt
       \/ doubt' = TRUE /\ UNCHANGED autostart
    /\ Return(FALSE)
    /\ UNCHANGED <<file, previous, raced>>

-----------------------------------------------------------------------------
(* The page.                                                                *)

\* A switch is flipped; a screen that is left and opened again forgets that a
\* save is pending.
Toggle(field) ==
    /\ memory # Absent /\ Use("save")
    /\ saves' = Append(saves, [shown EXCEPT ![field] = ~@])
    /\ UNCHANGED <<appVars, answers, shown, confirmed, known, revision, snapshot, doubt, raced>>

\* publishLocal counts every publication.
Republish(settings) == shown' = settings /\ revision' = revision + 1

Confirm(settings) == Republish(settings) /\ confirmed' = settings /\ known' = TRUE

Receive ==
    /\ answers # << >>
    /\ answers' = Tail(answers)
    /\ IF Head(answers).ok THEN Confirm(Head(answers).settings)
                           ELSE Republish(confirmed) /\ UNCHANGED <<confirmed, known>>
    /\ UNCHANGED <<appVars, saves, snapshot, doubt, raced, budget>>

LoadSettings ==
    /\ memory # Absent /\ snapshot = Absent /\ Use("load")
    /\ snapshot' = [revision |-> revision, settings |-> Absent]
    /\ UNCHANGED <<appVars, saves, answers, shown, confirmed, known, revision, doubt, raced>>

\* get_ui_settings, which waits for the lock.
GetSettings ==
    /\ snapshot # Absent /\ snapshot.settings = Absent /\ step = "idle"
    /\ snapshot' = [snapshot EXCEPT !.settings = memory]
    /\ UNCHANGED <<appVars, saves, answers, shown, confirmed, known, revision, doubt, raced, budget>>

\* A snapshot that was overtaken is dropped.
PublishSnapshot ==
    /\ snapshot # Absent /\ snapshot.settings # Absent
    /\ snapshot' = Absent
    /\ IF snapshot.revision = revision THEN Confirm(snapshot.settings)
                                       ELSE UNCHANGED <<shown, confirmed, known, revision>>
    /\ UNCHANGED <<appVars, saves, answers, doubt, raced, budget>>

UiNext ==
    \/ Start \/ End \/ ChangeOutside
    \/ BeginSave \/ ReadAutostart \/ ApplyAutostart \/ SaveSucceeds \/ SaveFails \/ Undo
    \/ \E field \in DOMAIN Default : Toggle(field)
    \/ Receive \/ LoadSettings \/ GetSettings \/ PublishSnapshot

UiSpec == UiInit /\ [][UiNext]_uiVars

-----------------------------------------------------------------------------
(* Properties.                                                              *)

AtRest ==
    /\ memory # Absent /\ step = "idle"
    /\ saves = << >> /\ answers = << >> /\ snapshot = Absent

\* At rest the operating system, the file, the app and the page agree, whatever
\* failed or ended in between (main.rs 99-130, 280-310, 405-421, ui-settings.js
\* 6-26), unless undoing or reconciling failed too, autostart changed outside
\* of the app, or nothing was ever confirmed to the page.
SettingsAgree ==
    AtRest /\ known /\ ~doubt =>
        /\ memory = Saved
        /\ memory.autostart = autostart
        /\ shown = memory
=============================================================================
