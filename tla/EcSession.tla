----------------------------- MODULE EcSession -----------------------------
(***************************************************************************)
(* One backend call as the reports it sends (hw/razer.rs, lighting.rs), the *)
(* attempts at each report (transport.rs), and an embedded controller that  *)
(* may be late, refuse, answer damaged reports, or disappear.               *)
(***************************************************************************)
EXTENDS EcDevice, EcReports, Laptops

CONSTANTS
    Applied, Targets,  \* the preferences and speeds the core asks for
    Pid,               \* the laptop
    Interfaces,        \* what the bus may show: sequences of Razer interfaces
    Approval,          \* FANGD_ALLOW_UNVERIFIED_PID
    PowerOn,           \* its registers after a reset
    StaticColours,     \* the static keyboard effects; an effect is a number here
    StaleAnswers       \* may the EC still show the answer to an earlier,
                       \* different report of the same command and size

\* The constants of FanPolicy and Preferences are those of the laptop.
ASSUME ModelAssumption ==
    ModelOf(Pid) = [min |-> MinRpm, max |-> MaxRpm, oc |-> HasCpuBoostOc,
                    bho |-> HasBho, logo |-> HasLogo]

ASSUME SessionAssumption ==
    /\ StaticColours \subseteq Effects /\ Effects \subseteq Nat
    /\ StaleAnswers \in BOOLEAN

Rows == 1..FrameRows
FramePid == "02B7"    \* Blade 16 (2024)

\* The core applies well-formed preferences, and asks for speeds the policy
\* has normalised (core.rs normalize_rpm).
ASSUME InputAssumption ==
    /\ Applied \subseteq AppliedState
    /\ \A rpm \in Targets : rpm \in MinRpm .. MaxRpm /\ rpm % 100 = 0

\* What the controller keeps.
Registers ==
    [zone : [1..2 -> [mode : Nat, manual : {0, 1}, rpm : Nat]],
     cpu : Nat, gpu : Nat, bho : Nat, brightness : Nat,
     rows : [Rows -> Nat], shown : [Rows -> Nat], logo_effect : Nat, logo_on : Nat]

\* A controller that was reset shows one colour on all of the keyboard.
ASSUME PowerOnAssumption ==
    PowerOn \in Registers /\ \A i, j \in Rows : PowerOn.shown[i] = PowerOn.shown[j]

\* What travels over the wire, and the calls of the backend.
Requests == [class : Nat, id : Nat, tid : Nat, size : Nat, args : Seq(Nat)]
Responses == [to : Requests, status : {"success", "failure", "busy"}]
BackendCalls ==
    [op : {"apply"}, st : Applied]
    \cup [op : {"restore", "recover"}, mode : {st.perf_mode : st \in Applied}]
    \cup [op : {"target"}, rpm : Targets] \cup [op : {"sample"}]

ASSUME NothingAssumption ==
    None \notin Requests \cup Responses \cup BackendCalls \cup AppliedState

VARIABLES
    ec,        \* the controller's registers
    slot,      \* the report it has not dealt with yet
    answer,    \* the answer it shows
    live,      \* is the HID handle usable
    call,      \* the backend call at work
    todo,      \* the reports it has still to send
    sent,      \* is the first of them sent and not answered
    attempt,   \* attempts at the first of them
    failed,    \* has a report of a restore failed
    vouched,   \* zones the daemon has an acknowledgement for
    settled,   \* the preferences of the last complete apply
    before,    \* the backend when the call began
    ok,        \* did the last call succeed
    misled     \* was an answer taken for that of another report

device == <<ec, slot, answer>>
progress == <<call, todo, sent, attempt, failed>>
beliefs == <<vouched, settled>>
sessionVars == <<device, live, progress, beliefs, before, ok, misled>>

-----------------------------------------------------------------------------
(* The reports of a call.                                                   *)

\* Mutant: manual control starts at whatever speed was set last.
ZoneReportsKeepingSpeed(z, mode, manual) == <<SetPowerMode(z, mode, manual)>>

ZoneReports(z, mode, manual) ==
    <<SetPowerMode(z, mode, manual)>>
        \o IF manual THEN <<SetFanRpm(z, MaxRpm \div 100)>> ELSE << >>

\* Mutant: no custom frames.
KeyboardReportsPlain(effect) == <<SetKbdEffect(effect)>>

KeyboardReports(effect) ==
    IF Pid = FramePid /\ effect \in StaticColours
    THEN StaticFrame(effect) ELSE <<SetKbdEffect(effect)>>

LogoReports(logo) ==
    CASE ~HasLogo -> << >>
      [] HasLogo /\ logo = "off" -> <<SetLogoState(FALSE)>>
      [] OTHER -> <<SetLogoEffect(IF logo = "breathing" THEN 2 ELSE 0), SetLogoState(TRUE)>>

ByteOf(percent) == (percent * 255) \div 100

ApplyReports(st) ==
    LET manual == st.fan # AutoFan
        boosts == EcBoosts(st)
    IN  ZoneReports("fan1", st.perf_mode, manual)
        \o ZoneReports("fan2", st.perf_mode, manual)
        \o (IF boosts = None THEN << >>
            ELSE <<SetCpuBoost(boosts[1]), SetGpuBoost(boosts[2])>>)
        \o (IF HasBho THEN <<SetBho(st.bho_enabled, st.bho_threshold)>> ELSE << >>)
        \o <<SetBrightness(ByteOf(st.kbd_brightness))>>
        \o KeyboardReports(st.kbd_effect)
        \o LogoReports(st.logo_led)

RestoreReports(mode) == ZoneReports("fan1", mode, FALSE) \o ZoneReports("fan2", mode, FALSE)

TargetReports(rpm) ==
    LET byte == (Clamp(rpm, MinRpm, MaxRpm) \div 100) % 256
    IN  <<SetFanRpm("fan1", byte), SetFanRpm("fan2", byte)>>

SampleReports == <<GetFanRpm("fan1"), GetFanRpm("fan2")>>

ReportsOf(c) ==
    CASE c.op = "apply" -> ApplyReports(c.st)
      [] c.op \in {"restore", "recover"} -> RestoreReports(c.mode)
      [] c.op = "target" -> TargetReports(c.rpm)
      [] c.op = "sample" -> SampleReports

\* The zones that reports of a restore or of a target are about.
ZonesOf(reports) == {z \in Zones : \E i \in DOMAIN reports : reports[i].args[2] = ZoneByte(z)}

-----------------------------------------------------------------------------
(* The embedded controller.                                                 *)

\* The Blade 16 (2024) does not show a static colour that is not a frame.
Ignores(effect) == Pid = FramePid /\ effect \in StaticColours

Obey(e, r) ==
    LET a == r.args
    IN  CASE r.class = 13 /\ r.id = 2 ->
                [e EXCEPT !.zone[a[2]] = [mode |-> a[3], manual |-> a[4], rpm |-> @.rpm]]
          [] r.class = 13 /\ r.id = 1 -> [e EXCEPT !.zone[a[2]] = [@ EXCEPT !.rpm = 100 * a[3]]]
          [] r.class = 13 /\ r.id = 7 /\ a[2] = 1 -> [e EXCEPT !.cpu = a[3]]
          [] r.class = 13 /\ r.id = 7 /\ a[2] = 2 -> [e EXCEPT !.gpu = a[3]]
          [] r.class = 7 -> [e EXCEPT !.bho = a[1]]
          [] r.class = 3 /\ r.id = 3 -> [e EXCEPT !.brightness = a[3]]
          [] r.class = 3 /\ r.id = 11 -> [e EXCEPT !.rows[a[2]] = a[3]]
          [] r.class = 3 /\ r.id = 10 ->
                [e EXCEPT !.shown =
                    CASE r.tid = FrameTransaction -> e.rows
                      [] r.tid # FrameTransaction /\ Ignores(a[1]) -> e.shown
                      [] OTHER -> [i \in Rows |-> a[1]]]
          [] r.class = 3 /\ r.id = 2 -> [e EXCEPT !.logo_effect = a[3]]
          [] r.class = 3 /\ r.id = 0 -> [e EXCEPT !.logo_on = a[3]]
          [] OTHER -> e

Answers(status) ==
    answer' = IF sent \/ StaleAnswers THEN [to |-> slot, status |-> status] ELSE None

\* The answer of a report that is done with matters only if another report
\* may be taken for it.
Forgotten == IF StaleAnswers THEN answer ELSE None

\* A report may also be dealt with after the daemon has given it up.
Process ==
    /\ slot # None
    /\ ec' = Obey(ec, slot) /\ Answers("success") /\ slot' = None
    /\ UNCHANGED <<live, progress, beliefs, before, ok, misled>>

Refuse ==
    /\ slot # None
    /\ Answers("failure") /\ slot' = None
    /\ UNCHANGED <<ec, live, progress, beliefs, before, ok, misled>>

Busy ==
    /\ slot # None /\ sent
    /\ Answers("busy")
    /\ UNCHANGED <<ec, slot, live, progress, beliefs, before, ok, misled>>

\* A sleep between two calls resets the controller, or leaves it as it is.
Sleep ==
    /\ call = None
    /\ \/ ec' = PowerOn /\ slot' = None /\ answer' = None
       \/ UNCHANGED device
    /\ vouched' = {} /\ settled' = None
    /\ UNCHANGED <<live, progress, before, ok, misled>>

-----------------------------------------------------------------------------
(* The backend as EcDevice describes it: a register nobody vouches for is   *)
(* Unsure, one that is vouched for is what the controller really holds.     *)

ZoneHeld(z) ==
    LET r == ec.zone[ZoneByte(z)]
    IN  [mode |-> CHOOSE mode \in PerfMode : EcMode(mode) = mode /\ ModeByte(mode) = r.mode,
         fan |-> IF r.manual = 1 THEN r.rpm ELSE Firmware]

Backend ==
    [live |-> live,
     zone |-> [z \in Zones |-> IF z \in vouched THEN ZoneHeld(z) ELSE Unsure],
     settings |-> IF settled = None THEN Unsure ELSE EcSettings(settled)]

\* A call is one step of the core's view: the one in which it returns.
view == IF call = None THEN Backend ELSE before

Calls == INSTANCE EcCalls WITH h <- view

-----------------------------------------------------------------------------
(* The calls.                                                               *)

Idle == call = None

\* Without a handle a call fails at once; sampling only misses the fans.
Begin(c) ==
    /\ Idle
    /\ IF ~live /\ c.op # "sample"
       THEN ok' = FALSE /\ UNCHANGED <<progress, before>>
       ELSE /\ call' = c
            /\ todo' = ReportsOf(c)
            /\ sent' = FALSE /\ attempt' = 1 /\ failed' = FALSE
            /\ before' = Backend
            /\ UNCHANGED ok
    /\ UNCHANGED <<device, live, beliefs, misled>>

BeginSome ==
    \/ \E st \in Applied :
        \/ Begin([op |-> "apply", st |-> st])
        \/ Begin([op |-> "restore", mode |-> st.perf_mode])
    \/ Calls!MaySetTarget(view) /\ \E rpm \in Targets : Begin([op |-> "target", rpm |-> rpm])
    \/ Begin([op |-> "sample"])

Return(result) ==
    /\ call' = None /\ todo' = << >> /\ sent' = FALSE /\ attempt' = 1 /\ failed' = FALSE
    /\ ok' = IF call.op = "sample" THEN ok ELSE result
    /\ UNCHANGED before

\* The next report of the same call, or its end.
Advance(fails) ==
    IF Len(todo) = 1 THEN Return(~fails)
    ELSE /\ todo' = Tail(todo) /\ sent' = FALSE /\ attempt' = 1 /\ failed' = fails
         /\ UNCHANGED <<call, ok, before>>

Acknowledged ==
    /\ Advance(failed)
    /\ LET done == Len(todo) = 1
       IN  CASE call.op = "apply" /\ done -> vouched' = Zones /\ settled' = call.st
             [] call.op \in {"restore", "recover"} ->
                    vouched' = vouched \cup ZonesOf(<<todo[1]>>) /\ UNCHANGED settled
             [] OTHER -> UNCHANGED beliefs

\* apply_state_with_recovery: firmware control at once.
StartRecovery ==
    /\ call' = [op |-> "recover", mode |-> call.st.perf_mode]
    /\ todo' = RestoreReports(call.st.perf_mode)
    /\ sent' = FALSE /\ attempt' = 1 /\ failed' = TRUE
    /\ UNCHANGED <<ok, before>>

\* A restore goes on with the other zone, a sample with the other fan; a zone
\* that held its setting already is not disturbed by a report that repeats it.
GiveUp ==
    LET setting == ZoneSetting(call.mode, Firmware)
        kept == {z \in Zones : call.op = "restore" /\ before.zone[z] = setting}
    IN  CASE call.op = "apply" -> StartRecovery /\ vouched' = {} /\ settled' = None
          [] call.op = "target" ->
                Return(FALSE) /\ vouched' = vouched \ ZonesOf(todo) /\ UNCHANGED settled
          [] call.op \in {"restore", "recover"} ->
                /\ Advance(TRUE)
                /\ vouched' = vouched \ (ZonesOf(<<todo[1]>>) \ kept)
                /\ UNCHANGED settled
          [] OTHER -> Advance(failed) /\ UNCHANGED beliefs

\* A transport error invalidates the handle: nothing is known any more.
LoseHandle ==
    /\ live' = FALSE
    /\ vouched' = {} /\ settled' = None
    /\ CASE call.op = "apply" -> StartRecovery
         [] call.op = "target" -> Return(FALSE)
         [] OTHER -> Advance(call.op # "sample")

Send ==
    /\ ~Idle /\ live /\ ~sent
    /\ slot' = todo[1]
    /\ sent' = TRUE
    /\ UNCHANGED <<ec, answer, live, call, todo, attempt, failed, beliefs, before, ok, misled>>

\* send_feature_report fails, whether or not the controller got the report.
SendFails ==
    /\ ~Idle /\ live /\ ~sent
    /\ UNCHANGED slot \/ slot' = todo[1]
    /\ LoseHandle
    /\ answer' = Forgotten
    /\ UNCHANGED <<ec, misled>>

ReceiveFails ==
    /\ sent
    /\ LoseHandle
    /\ answer' = Forgotten
    /\ UNCHANGED <<ec, slot, misled>>

\* RazerHw::command without a handle.
NoHandle == ~Idle /\ ~live /\ GiveUp /\ UNCHANGED <<device, live, misled>>

\* Mutant: attempts are not counted.
RetryUncounted ==
    sent' = FALSE /\ UNCHANGED <<call, todo, attempt, failed, beliefs, before, ok, answer>>

Retry ==
    /\ sent' = FALSE /\ attempt' = attempt + 1
    /\ UNCHANGED <<call, todo, failed, beliefs, before, ok, answer>>

Reject == GiveUp /\ answer' = Forgotten

Intact == answer # None /\ IsAnswer(answer.to, todo[1])

\* An answer that is damaged, or to another report, is tolerated once.
ReceiveInvalid ==
    /\ sent
    /\ IF attempt = 1 THEN Retry ELSE Reject
    /\ UNCHANGED <<ec, slot, live, misled>>

ReceiveBusy ==
    /\ sent /\ Intact /\ answer.status = "busy"
    /\ IF attempt < Attempts(todo[1]) THEN Retry ELSE Reject
    /\ UNCHANGED <<ec, slot, live, misled>>

ReceiveFailure ==
    /\ sent /\ Intact /\ answer.status = "failure"
    /\ Reject
    /\ UNCHANGED <<ec, slot, live, misled>>

ReceiveSuccess ==
    /\ sent /\ Intact /\ answer.status = "success"
    /\ Acknowledged
    /\ answer' = Forgotten
    /\ misled' = (misled \/ answer.to # todo[1])
    /\ UNCHANGED <<ec, slot, live>>

\* A process opens the device (Connection::reconnect, or a new process), and
\* ends between two calls.
Open ==
    /\ Idle /\ ~live
    /\ \E interfaces \in Interfaces : ChooseLaptop(interfaces, Approved(Approval)) = {Pid}
    /\ live' = TRUE
    /\ UNCHANGED <<device, progress, beliefs, before, ok, misled>>
Close ==
    /\ Idle /\ live /\ live' = FALSE
    /\ UNCHANGED <<device, progress, beliefs, before, ok, misled>>

-----------------------------------------------------------------------------

SessionInit ==
    /\ ec = PowerOn /\ slot = None /\ answer = None
    /\ live = FALSE
    /\ call = None /\ todo = << >> /\ sent = FALSE /\ attempt = 1 /\ failed = FALSE
    /\ vouched = {} /\ settled = None
    /\ before = Calls!NoBackend
    /\ ok = TRUE /\ misled = FALSE

Exchange ==
    \/ Send \/ SendFails \/ NoHandle \/ ReceiveFails
    \/ ReceiveInvalid \/ ReceiveBusy \/ ReceiveFailure \/ ReceiveSuccess

SessionNext ==
    \/ BeginSome \/ Exchange \/ Open \/ Close
    \/ Process \/ Refuse \/ Busy \/ Sleep

\* The core's thread runs; the controller owes it nothing.
SessionFairness == WF_sessionVars(Exchange)
SessionSpec == SessionInit /\ [][SessionNext]_sessionVars /\ SessionFairness

-----------------------------------------------------------------------------
(* Properties.                                                              *)

\* Every call, with its retries, lost and late answers and its recovery, has an
\* outcome EcDevice lists, and a register it vouches for holds what it says
\* (razer.rs 253-292, 326-347): the core's model rests on this.
CallsAreAsEcDeviceSays == Calls!Spec

\* A custom frame is shown only once all of its rows have the new colour
\* (lighting.rs 11-23): a row that fails ends the effect.
FramesAreWhole == \A i, j \in Rows : ec.shown[i] = ec.shown[j]

LogoShown ==
    CASE ec.logo_on = 0 -> "off"
      [] ec.logo_on = 1 /\ ec.logo_effect = 2 -> "breathing"
      [] OTHER -> "static"

\* What the last complete apply set beside the fans is still what the
\* controller holds and shows, whatever was restored, targeted, sampled or
\* answered late since.
SettingsHold ==
    settled # None /\ (Idle \/ call.op # "apply") =>
        /\ EcBoosts(settled) # None => LET boosts == EcBoosts(settled)
                                       IN  ec.cpu = BoostByte(boosts[1]) /\ ec.gpu = BoostByte(boosts[2])
        /\ HasBho => ec.bho = BhoByte(settled.bho_enabled, settled.bho_threshold)
        /\ ec.brightness = ByteOf(settled.kbd_brightness)
        /\ ec.shown = [i \in Rows |-> settled.kbd_effect]
        /\ HasLogo => LogoShown = settled.logo_led

\* A call of the backend ends, though the controller may stay busy for ever:
\* the core's lock is not held for good.
CallsReturn == ~Idle ~> Idle

\* response_from_feature_report (packet.rs 238-239): "prove that it answers
\* `request` rather than accepting a stale or unrelated EC response".
AnswersBelongToTheirRequest == ~misled
=============================================================================
