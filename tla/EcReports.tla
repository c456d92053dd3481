----------------------------- MODULE EcReports -----------------------------
(***************************************************************************)
(* The reports fangd sends to the embedded controller (packet.rs) and how   *)
(* it tells which answer belongs to which report.  Arguments are the bytes  *)
(* of the wire; what no two reports differ in is left out.                  *)
(***************************************************************************)
EXTENDS Naturals, Sequences

CONSTANTS
    FrameRows,      \* rows of the key matrix a custom frame fills (6)
    FrameAttempts   \* FRAME_ATTEMPTS (5)

ASSUME FrameAssumption == FrameRows \in Nat \ {0} /\ FrameAttempts \in Nat \ {0, 1}

Transaction == 31         \* TRANSACTION_ID
FrameTransaction == 255   \* the reference encoding of custom frames

Bit(flag) == IF flag THEN 1 ELSE 0
ModeByte(mode) == CASE mode = "balanced" -> 0 [] mode = "gaming" -> 1 [] OTHER -> 4
BoostByte(boost) ==
    CASE boost = "low" -> 0 [] boost = "medium" -> 1 [] boost = "high" -> 2 [] OTHER -> 3
ZoneByte(zone) == IF zone = "fan1" THEN 1 ELSE 2

Report(class, id, args) ==
    [class |-> class, id |-> id, tid |-> Transaction, size |-> Len(args), args |-> args]

\* Class 13: performance and thermals.
SetPowerMode(zone, mode, manual) == Report(13, 2, <<0, ZoneByte(zone), ModeByte(mode), Bit(manual)>>)
SetFanRpm(zone, rpm_div_100) == Report(13, 1, <<0, ZoneByte(zone), rpm_div_100>>)
GetFanRpm(zone) == Report(13, 129, <<0, ZoneByte(zone), 0>>)
SetCpuBoost(boost) == Report(13, 7, <<0, 1, BoostByte(boost)>>)
SetGpuBoost(boost) == Report(13, 7, <<0, 2, BoostByte(boost)>>)

\* Class 3: lighting.  A keyboard effect always declares 80 bytes.
SetBrightness(value) == Report(3, 3, <<1, 5, value>>)
SetLogoState(on) == Report(3, 0, <<1, 4, Bit(on)>>)
SetLogoEffect(effect) == Report(3, 2, <<1, 4, effect>>)
SetKbdEffect(effect) == [Report(3, 10, <<effect>>) EXCEPT !.size = 80]

\* A static colour on the Blade 16 (2024): each row of the matrix, and then
\* the frame made of them is shown.
FrameReport(id, size, args) ==
    [class |-> 3, id |-> id, tid |-> FrameTransaction, size |-> size, args |-> args]
FrameRow(row, colour) == FrameReport(11, 70, <<255, row, colour>>)
ShowFrame == FrameReport(10, 2, <<5, 0>>)

\* Mutant: the frame is shown before its rows are filled.
StaticFrameShownFirst(colour) == <<ShowFrame>> \o [i \in 1..FrameRows |-> FrameRow(i, colour)]

StaticFrame(colour) == [i \in 1..FrameRows |-> FrameRow(i, colour)] \o <<ShowFrame>>

\* Class 7: one byte, the top bit and seven bits of threshold.
BhoByte(enabled, threshold) == 128 * Bit(enabled) + (threshold % 128)
SetBho(enabled, threshold) == Report(7, 18, <<BhoByte(enabled, threshold)>>)

\* response_from_feature_report: an intact answer of the same transaction,
\* command and size is this request's answer.  The arguments are not compared.
IsAnswer(response, request) ==
    /\ response.tid = request.tid
    /\ response.class = request.class /\ response.id = request.id
    /\ response.size = request.size

\* Rows and the activation are tried FrameAttempts times, everything else twice.
Attempts(request) ==
    IF /\ request.tid = FrameTransaction /\ request.class = 3
       /\ request.id = 11 \/ (request.id = 10 /\ request.args = <<5, 0>>)
    THEN FrameAttempts ELSE 2
=============================================================================
