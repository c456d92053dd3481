-------------------------- MODULE EcSessionProofs --------------------------
(***************************************************************************)
(* For every laptop, preferences and speeds: a backend call, report by      *)
(* report, ends as EcDevice says, and what it set stays set.                *)
(***************************************************************************)
EXTENDS EcSession, EcDeviceProofs, SequenceTheorems

-----------------------------------------------------------------------------
(* Reports.                                                                 *)

LEMMA ReportKind ==
    ASSUME NEW class \in Nat, NEW id \in Nat, NEW args \in Seq(Nat)
    PROVE  Report(class, id, args) \in Requests
BY DEF Report, Requests, Transaction

LEMMA Bytes ==
    /\ \A z \in Zones : ZoneByte(z) \in 1..2
    /\ ZoneByte("fan1") = 1 /\ ZoneByte("fan2") = 2
    /\ \A mode \in PerfMode : ModeByte(mode) \in {0, 1, 4}
    /\ \A boost \in Boost : BoostByte(boost) \in Nat
    /\ \A flag \in BOOLEAN : Bit(flag) \in {0, 1}
BY DEF ZoneByte, ModeByte, BoostByte, Bit, Zones, PerfMode, Boost

Speeds == 0..255

LEMMA FanReports ==
    ASSUME NEW z \in Zones, NEW mode \in PerfMode, NEW manual \in BOOLEAN, NEW n \in Speeds
    PROVE  /\ SetPowerMode(z, mode, manual) \in Requests
           /\ SetFanRpm(z, n) \in Requests
           /\ GetFanRpm(z) \in Requests
<1>1. <<0, ZoneByte(z), ModeByte(mode), Bit(manual)>> \in Seq(Nat)
  BY Bytes
<1>2. <<0, ZoneByte(z), n>> \in Seq(Nat) /\ <<0, ZoneByte(z), 0>> \in Seq(Nat)
  BY Bytes DEF Speeds
<1> QED
  BY <1>1, <1>2, ReportKind DEF SetPowerMode, SetFanRpm, GetFanRpm

\* The controller is as r would leave it.
Done(e, r) == Obey(e, r) = e


\* A change of a zone changes nothing else.
Rezoned(e, i, zone) == [e EXCEPT !.zone[i] = zone]
ZoneRegisters == [mode : Nat, manual : {0, 1}, rpm : Nat]

LEMMA ZoneChanges ==
    ASSUME NEW e \in Registers, NEW i \in 1..2, NEW zone \in ZoneRegisters
    PROVE  /\ Rezoned(e, i, zone) \in Registers
           /\ Rezoned(e, i, zone).zone[i] = zone
           /\ \A j \in 1..2 : j # i => Rezoned(e, i, zone).zone[j] = e.zone[j]
           /\ Rezoned(e, i, zone).cpu = e.cpu /\ Rezoned(e, i, zone).gpu = e.gpu
           /\ Rezoned(e, i, zone).bho = e.bho /\ Rezoned(e, i, zone).brightness = e.brightness
           /\ Rezoned(e, i, zone).rows = e.rows /\ Rezoned(e, i, zone).shown = e.shown
           /\ Rezoned(e, i, zone).logo_effect = e.logo_effect
           /\ Rezoned(e, i, zone).logo_on = e.logo_on
           /\ Rezoned(e, i, zone) = e <=> e.zone[i] = zone
<1> DEFINE f == [e.zone EXCEPT ![i] = zone]
<1>1. f \in [1..2 -> ZoneRegisters] /\ f[i] = zone /\ \A j \in 1..2 : j # i => f[j] = e.zone[j]
  BY DEF Registers, ZoneRegisters
<1>2. Rezoned(e, i, zone) = [e EXCEPT !.zone = f]
  BY DEF Rezoned, Registers
<1>3. f = e.zone <=> e.zone[i] = zone
  BY DEF Registers, ZoneRegisters
<1> HIDE DEF f
<1>4. [e EXCEPT !.zone = f] = e <=> f = e.zone
  BY DEF Registers
<1> QED
  BY <1>1, <1>2, <1>3, <1>4 DEF Registers, ZoneRegisters

LEMMA PowerModeEffect ==
    ASSUME NEW e \in Registers, NEW z \in Zones, NEW mode \in PerfMode, NEW manual \in BOOLEAN
    PROVE  Obey(e, SetPowerMode(z, mode, manual)) =
               Rezoned(e, ZoneByte(z), [mode |-> ModeByte(mode), manual |-> Bit(manual),
                                        rpm |-> e.zone[ZoneByte(z)].rpm])
<1> DEFINE i == ZoneByte(z)
           old == e.zone[i]
<1>1. Obey(e, SetPowerMode(z, mode, manual)) =
          [e EXCEPT !.zone[i] = [mode |-> ModeByte(mode), manual |-> Bit(manual), rpm |-> @.rpm]]
  BY DEF Obey, SetPowerMode, Report
<1>2. i \in DOMAIN e.zone /\ old \in ZoneRegisters
  BY Bytes DEF Registers, ZoneRegisters
<1> QED
  BY <1>1, <1>2 DEF Rezoned, Registers

LEMMA FanRpmEffect ==
    ASSUME NEW e \in Registers, NEW z \in Zones, NEW n \in Speeds
    PROVE  /\ Obey(e, SetFanRpm(z, n)) =
                  Rezoned(e, ZoneByte(z), [mode |-> e.zone[ZoneByte(z)].mode,
                                           manual |-> e.zone[ZoneByte(z)].manual,
                                           rpm |-> 100 * n])
           /\ Obey(e, GetFanRpm(z)) = e
<1> DEFINE i == ZoneByte(z)
           old == e.zone[i]
<1>1. Obey(e, SetFanRpm(z, n)) = [e EXCEPT !.zone[i] = [@ EXCEPT !.rpm = 100 * n]]
  BY DEF Obey, SetFanRpm, Report
<1>2. i \in DOMAIN e.zone /\ old \in ZoneRegisters
  BY Bytes DEF Registers, ZoneRegisters
<1>3. Obey(e, GetFanRpm(z)) = e
  BY DEF Obey, GetFanRpm, Report
<1> HIDE DEF i, old
<1>4. [old EXCEPT !.rpm = 100 * n] = [mode |-> old.mode, manual |-> old.manual, rpm |-> 100 * n]
  BY <1>2 DEF ZoneRegisters
<1> QED
  BY <1>1, <1>2, <1>3, <1>4 DEF Rezoned, Registers, i, old

\* The other requests of an apply, and what each of them writes.
LightingRequests ==
    {SetKbdEffect(effect) : effect \in {x \in Effects : ~Ignores(x)}}
    \cup {FrameRow(row, colour) : row \in Rows, colour \in Effects} \cup {ShowFrame}

SettingRequests ==
    {SetCpuBoost(boost) : boost \in Boost} \cup {SetGpuBoost(boost) : boost \in Boost}
    \cup {SetBho(enabled, threshold) : enabled \in BOOLEAN, threshold \in Nat}
    \cup {SetBrightness(value) : value \in Nat}
    \cup {SetLogoEffect(effect) : effect \in {0, 2}} \cup {SetLogoState(on) : on \in BOOLEAN}
    \cup LightingRequests

LEMMA OtherEffects ==
    ASSUME NEW e \in Registers
    PROVE  /\ \A boost \in Boost : Obey(e, SetCpuBoost(boost)) = [e EXCEPT !.cpu = BoostByte(boost)]
           /\ \A boost \in Boost : Obey(e, SetGpuBoost(boost)) = [e EXCEPT !.gpu = BoostByte(boost)]
           /\ \A enabled \in BOOLEAN, threshold \in Nat :
                  Obey(e, SetBho(enabled, threshold)) = [e EXCEPT !.bho = BhoByte(enabled, threshold)]
           /\ \A value \in Nat : Obey(e, SetBrightness(value)) = [e EXCEPT !.brightness = value]
           /\ \A effect \in {0, 2} : Obey(e, SetLogoEffect(effect)) = [e EXCEPT !.logo_effect = effect]
           /\ \A on \in BOOLEAN : Obey(e, SetLogoState(on)) = [e EXCEPT !.logo_on = Bit(on)]
           /\ \A effect \in Effects : ~Ignores(effect) =>
                  Obey(e, SetKbdEffect(effect)) = [e EXCEPT !.shown = [i \in Rows |-> effect]]
           /\ \A row \in Rows, colour \in Effects :
                  Obey(e, FrameRow(row, colour)) = [e EXCEPT !.rows[row] = colour]
           /\ Obey(e, ShowFrame) = [e EXCEPT !.shown = e.rows]
<1>1. \A boost \in Boost : Obey(e, SetCpuBoost(boost)) = [e EXCEPT !.cpu = BoostByte(boost)]
  BY DEF Obey, SetCpuBoost, Report
<1>2. \A boost \in Boost : Obey(e, SetGpuBoost(boost)) = [e EXCEPT !.gpu = BoostByte(boost)]
  BY DEF Obey, SetGpuBoost, Report
<1>3. \A enabled \in BOOLEAN, threshold \in Nat :
          Obey(e, SetBho(enabled, threshold)) = [e EXCEPT !.bho = BhoByte(enabled, threshold)]
  BY DEF Obey, SetBho, Report
<1>4. \A value \in Nat : Obey(e, SetBrightness(value)) = [e EXCEPT !.brightness = value]
  BY DEF Obey, SetBrightness, Report
<1>5. \A effect \in {0, 2} : Obey(e, SetLogoEffect(effect)) = [e EXCEPT !.logo_effect = effect]
  BY DEF Obey, SetLogoEffect, Report
<1>6. \A on \in BOOLEAN : Obey(e, SetLogoState(on)) = [e EXCEPT !.logo_on = Bit(on)]
  BY DEF Obey, SetLogoState, Report
<1>7. \A effect \in Effects : ~Ignores(effect) =>
          Obey(e, SetKbdEffect(effect)) = [e EXCEPT !.shown = [i \in Rows |-> effect]]
  BY DEF Obey, SetKbdEffect, Report, Transaction, FrameTransaction
<1>8. \A row \in Rows, colour \in Effects :
          Obey(e, FrameRow(row, colour)) = [e EXCEPT !.rows[row] = colour]
  BY DEF Obey, FrameRow, FrameReport, Report
<1>9. Obey(e, ShowFrame) = [e EXCEPT !.shown = e.rows]
  BY DEF Obey, ShowFrame, FrameReport, Report, FrameTransaction
<1> QED
  BY <1>1, <1>2, <1>3, <1>4, <1>5, <1>6, <1>7, <1>8, <1>9
-----------------------------------------------------------------------------
(* The inductive invariant.                                                 *)

FanRequests ==
    {SetPowerMode(z, mode, manual) : z \in Zones, mode \in PerfMode, manual \in BOOLEAN}
    \cup {SetFanRpm(z, n) : z \in Zones, n \in Speeds} \cup {GetFanRpm(z) : z \in Zones}

Wire == FanRequests \cup SettingRequests
FrameRowRequests == {FrameRow(row, colour) : row \in Rows, colour \in Effects}

\* r writes a fan register of z.
Rezones(r, z) == r.class = 13 /\ r.id \in {1, 2} /\ r.args[2] = ZoneByte(z)

Elements(reports) == {reports[i] : i \in 1..Len(reports)}

\* A frame is shown after its rows.
Ordered(reports) ==
    \A i, j \in 1..Len(reports) :
        reports[i] = ShowFrame /\ reports[j] \in FrameRowRequests => j < i

\* What an apply writes: the fans, and the rest.
FanWrites(st) ==
    {SetPowerMode(z, st.perf_mode, st.fan # AutoFan) : z \in Zones}
    \cup {SetFanRpm(z, MaxRpm \div 100) : z \in IF st.fan # AutoFan THEN Zones ELSE {}}

KeyboardWrites(effect) ==
    IF Pid = FramePid /\ effect \in StaticColours
    THEN {FrameRow(row, effect) : row \in Rows} \cup {ShowFrame}
    ELSE {SetKbdEffect(effect)}

LogoWrites(logo) ==
    IF ~HasLogo THEN {}
    ELSE IF logo = "off" THEN {SetLogoState(FALSE)}
    ELSE {SetLogoEffect(IF logo = "breathing" THEN 2 ELSE 0), SetLogoState(TRUE)}

SettingWrites(st) ==
    (IF EcBoosts(st) = None THEN {}
     ELSE {SetCpuBoost(EcBoosts(st)[1]), SetGpuBoost(EcBoosts(st)[2])})
    \cup (IF HasBho THEN {SetBho(st.bho_enabled, st.bho_threshold)} ELSE {})
    \cup {SetBrightness(ByteOf(st.kbd_brightness))}
    \cup KeyboardWrites(st.kbd_effect) \cup LogoWrites(st.logo_led)

Writes(st) == FanWrites(st) \cup SettingWrites(st)

Calling(ops) == call # None /\ call.op \in ops

SessionType ==
    /\ ec \in Registers /\ slot \in Wire \cup {None}
    /\ answer \in [to : Wire, status : {"success", "failure", "busy"}] \cup {None}
    /\ live \in BOOLEAN /\ call \in BackendCalls \cup {None}
    /\ todo \in Seq(Wire) /\ sent \in BOOLEAN /\ attempt \in Nat /\ failed \in BOOLEAN
    /\ vouched \in SUBSET Zones /\ settled \in Applied \cup {None}
    /\ ok \in BOOLEAN /\ misled = FALSE

\* Only the first report is sent and answered, and only with a handle; an
\* answer of success means that the controller did what it says.
Talk ==
    /\ call = None => todo = << >> /\ ~sent /\ answer = None
    /\ call # None => todo # << >>
    /\ sent => call # None /\ live
    /\ sent \/ answer # None => slot \in {None, todo[1]}
    /\ answer # None => /\ call # None /\ live /\ answer.to = todo[1]
                        /\ answer.status = "success" => Done(ec, todo[1])

\* A report that is dealt with late changes no register the daemon vouches for.
Harmless ==
    \A z \in vouched :
        /\ ec.zone[ZoneByte(z)].mode \in {0, 1, 4}
        /\ slot # None /\ Rezones(slot, z) => Done(ec, slot) \/ (call # None /\ slot = todo[1])

ApplyInv ==
    Calling({"apply"}) =>
        /\ live /\ before.live = TRUE /\ failed = FALSE
        /\ Elements(todo) \subseteq Writes(call.st) /\ Ordered(todo)
        /\ ShowFrame \notin Elements(todo) => Elements(todo) \cap FrameRowRequests = {}
        /\ \A r \in Writes(call.st) \ Elements(todo) :
               /\ Done(ec, r)
               /\ slot \in {None, todo[1]} \/ Done(ec, slot)

SettingsNow == IF settled = None THEN Unsure ELSE EcSettings(settled)
Reset(z) == SetPowerMode(z, call.mode, FALSE)

RestoreInv ==
    Calling({"restore", "recover"}) =>
        /\ before.live = TRUE
        /\ todo \in {<<Reset("fan1"), Reset("fan2")>>, <<Reset("fan2")>>}
        /\ ~live => vouched = {} /\ settled = None /\ failed
        /\ Len(todo) = 1 => /\ "fan1" \in vouched => Done(ec, Reset("fan1"))
                            /\ ~failed => "fan1" \in vouched

Kept(z) == before.zone[z] = ZoneSetting(call.mode, Firmware)

RestoreOnlyInv ==
    Calling({"restore"}) =>
        /\ live => before.settings = SettingsNow
        /\ Len(todo) = 2 => live /\ failed = FALSE
        /\ live /\ failed /\ Len(todo) = 1 => ("fan1" \in vouched <=> Kept("fan1"))
        /\ live /\ Kept("fan2") => "fan2" \in vouched /\ Done(ec, Reset("fan2"))
        /\ Len(todo) = 2 /\ Kept("fan1") => "fan1" \in vouched /\ Done(ec, Reset("fan1"))

RecoverInv ==
    Calling({"recover"}) =>
        /\ failed /\ settled = None
        /\ "fan2" \notin vouched
        /\ Len(todo) = 2 => "fan1" \notin vouched

Speed(z) == SetFanRpm(z, (Clamp(call.rpm, MinRpm, MaxRpm) \div 100) % 256)

\* What the core knows when it sets a target (EcCalls, MaySetTarget).
MayTarget(g) ==
    g.settings # Unsure /\ \A z \in Zones : g.zone[z] # Unsure /\ g.zone[z].fan # Firmware

TargetInv ==
    Calling({"target"}) =>
        /\ live /\ before.live = TRUE /\ failed = FALSE /\ MayTarget(before)
        /\ before.settings = SettingsNow /\ vouched = Zones
        /\ todo \in {<<Speed("fan1"), Speed("fan2")>>, <<Speed("fan2")>>}
        /\ \A z \in Zones : /\ ec.zone[ZoneByte(z)].manual = 1
                            /\ before.zone[z] = [mode |-> ZoneHeld(z).mode, fan |-> before.zone[z].fan]
        /\ Len(todo) = 1 => Done(ec, Speed("fan1"))

SampleInv ==
    Calling({"sample"}) =>
        /\ todo \in {<<GetFanRpm("fan1"), GetFanRpm("fan2")>>, <<GetFanRpm("fan2")>>}
        /\ Backend \in {before, Lost(before)}

\* before is a backend.
BeforeInv == before \in HwType

SettingsInv ==
    settled # None /\ ~Calling({"apply"}) =>
        /\ \A r \in SettingWrites(settled) : Done(ec, r)
        /\ slot \in SettingRequests => Done(ec, slot)

FrameInv ==
    /\ FramesAreWhole
    /\ slot = ShowFrame => \A i, j \in Rows : ec.rows[i] = ec.rows[j]

CallInv == ApplyInv /\ RestoreInv /\ RestoreOnlyInv /\ RecoverInv /\ TargetInv /\ SampleInv

-----------------------------------------------------------------------------
(* EcCalls speaks of EcDevice's operators.                                  *)

LEMMA SameOutcomes ==
    /\ \A g, st : Calls!ApplyOutcomes(g, st) = ApplyOutcomes(g, st)
    /\ \A g, mode : Calls!RestoreOutcomes(g, mode) = RestoreOutcomes(g, mode)
    /\ \A g, rpm : Calls!TargetOutcomes(g, rpm) = TargetOutcomes(g, rpm)
    /\ \A g : Calls!SampleOutcomes(g) = SampleOutcomes(g)
    /\ \A g : Calls!Disturbed(g) = Disturbed(g) /\ Calls!Closed(g) = Closed(g)
<1>1. /\ Calls!Zones = Zones
      /\ \A mode, fan : Calls!ZoneSetting(mode, fan) = ZoneSetting(mode, fan)
      /\ \A st : Calls!EcSettings(st) = EcSettings(st)
      /\ \A g : Calls!Disturbed(g) = Disturbed(g) /\ Calls!Lost(g) = Lost(g)
      /\ \A g : Calls!Closed(g) = Closed(g)
      /\ \A g : Calls!OkWith(g) = OkWith(g) /\ Calls!FailWith(g) = FailWith(g)
  BY DEF Calls!Zones, Zones, Calls!ZoneSetting, ZoneSetting, Calls!EcMode, EcMode,
         Calls!EcSettings, EcSettings, Calls!EcBoosts, EcBoosts, Calls!CapBoost, CapBoost,
         Calls!Disturbed, Disturbed, Calls!Lost, Lost, Calls!Closed, Closed,
         Calls!OkWith, OkWith, Calls!FailWith, FailWith
<1>2. /\ \A g, st : Calls!FullyApplied(g, st) = FullyApplied(g, st)
      /\ \A g, mode, acked : Calls!InFirmware(g, mode, acked) = InFirmware(g, mode, acked)
      /\ \A g, rpm, acked : Calls!WithTarget(g, rpm, acked) = WithTarget(g, rpm, acked)
  BY <1>1 DEF Calls!FullyApplied, FullyApplied, Calls!InFirmware, InFirmware,
              Calls!WithTarget, WithTarget, Calls!AutoFan, AutoFan
<1>3. \A g, mode : Calls!RestoreOutcomes(g, mode) = RestoreOutcomes(g, mode)
  BY <1>1, <1>2 DEF Calls!RestoreOutcomes, RestoreOutcomes
<1>4. \A g, st : Calls!ApplyOutcomes(g, st) = ApplyOutcomes(g, st)
  BY <1>1, <1>2, <1>3 DEF Calls!ApplyOutcomes, ApplyOutcomes
<1>5. \A g, rpm : Calls!TargetOutcomes(g, rpm) = TargetOutcomes(g, rpm)
  BY <1>1, <1>2 DEF Calls!TargetOutcomes, TargetOutcomes
<1>6. \A g : Calls!SampleOutcomes(g) = SampleOutcomes(g)
  BY <1>1 DEF Calls!SampleOutcomes, SampleOutcomes
<1> QED
  BY <1>1, <1>3, <1>4, <1>5, <1>6

-----------------------------------------------------------------------------
(* When the controller has done what a report says.                         *)

LEMMA WireBytes ==
    /\ \A effect \in Effects : effect \in Nat
    /\ \A enabled \in BOOLEAN, threshold \in Nat : BhoByte(enabled, threshold) \in Nat
    /\ \A n \in Speeds : 100 * n \in Nat
BY SessionAssumption, Bytes DEF BhoByte, Bit, Speeds

LEMMA FanDone ==
    ASSUME NEW e \in Registers, NEW z \in Zones
    PROVE  /\ \A mode \in PerfMode, manual \in BOOLEAN :
                  Done(e, SetPowerMode(z, mode, manual)) <=>
                      /\ e.zone[ZoneByte(z)].mode = ModeByte(mode)
                      /\ e.zone[ZoneByte(z)].manual = Bit(manual)
           /\ \A n \in Speeds : Done(e, SetFanRpm(z, n)) <=> e.zone[ZoneByte(z)].rpm = 100 * n
           /\ Done(e, GetFanRpm(z))
<1> DEFINE i == ZoneByte(z)
<1>1. i \in 1..2 /\ e.zone[i] \in ZoneRegisters
  BY Bytes DEF Registers, ZoneRegisters
<1>2. ASSUME NEW mode \in PerfMode, NEW manual \in BOOLEAN
      PROVE  Done(e, SetPowerMode(z, mode, manual)) <=>
                 e.zone[i].mode = ModeByte(mode) /\ e.zone[i].manual = Bit(manual)
  <2> DEFINE new == [mode |-> ModeByte(mode), manual |-> Bit(manual), rpm |-> e.zone[i].rpm]
  <2>1. new \in ZoneRegisters
    BY <1>1, Bytes DEF ZoneRegisters
  <2>2. Done(e, SetPowerMode(z, mode, manual)) <=> e.zone[i] = new
    BY <1>1, <2>1, ZoneChanges, PowerModeEffect, SMTT(30) DEF Done
  <2> QED
    BY <1>1, <2>2 DEF ZoneRegisters
<1>3. ASSUME NEW n \in Speeds
      PROVE  Done(e, SetFanRpm(z, n)) <=> e.zone[i].rpm = 100 * n
  <2> DEFINE new == [mode |-> e.zone[i].mode, manual |-> e.zone[i].manual, rpm |-> 100 * n]
  <2>1. new \in ZoneRegisters
    BY <1>1, WireBytes DEF ZoneRegisters
  <2>2. Done(e, SetFanRpm(z, n)) <=> e.zone[i] = new
    BY <1>1, <2>1, ZoneChanges, FanRpmEffect, SMTT(30) DEF Done
  <2> QED
    BY <1>1, <2>2 DEF ZoneRegisters
<1>4. Done(e, GetFanRpm(z))
  <2>1. 0 \in Speeds
    BY DEF Speeds
  <2> QED
    BY <2>1, FanRpmEffect DEF Done
<1> QED
  BY <1>2, <1>3, <1>4

LEMMA SettingDone ==
    ASSUME NEW e \in Registers
    PROVE  /\ \A boost \in Boost : Done(e, SetCpuBoost(boost)) <=> e.cpu = BoostByte(boost)
           /\ \A boost \in Boost : Done(e, SetGpuBoost(boost)) <=> e.gpu = BoostByte(boost)
           /\ \A enabled \in BOOLEAN, threshold \in Nat :
                  Done(e, SetBho(enabled, threshold)) <=> e.bho = BhoByte(enabled, threshold)
           /\ \A value \in Nat : Done(e, SetBrightness(value)) <=> e.brightness = value
           /\ \A effect \in {0, 2} : Done(e, SetLogoEffect(effect)) <=> e.logo_effect = effect
           /\ \A on \in BOOLEAN : Done(e, SetLogoState(on)) <=> e.logo_on = Bit(on)
           /\ \A effect \in Effects : ~Ignores(effect) =>
                  (Done(e, SetKbdEffect(effect)) <=> e.shown = [i \in Rows |-> effect])
           /\ \A row \in Rows, colour \in Effects :
                  Done(e, FrameRow(row, colour)) <=> e.rows[row] = colour
           /\ Done(e, ShowFrame) <=> e.shown = e.rows
<1>1. \A v \in Nat : /\ [e EXCEPT !.cpu = v] = e <=> e.cpu = v
                     /\ [e EXCEPT !.gpu = v] = e <=> e.gpu = v
                     /\ [e EXCEPT !.bho = v] = e <=> e.bho = v
                     /\ [e EXCEPT !.brightness = v] = e <=> e.brightness = v
                     /\ [e EXCEPT !.logo_effect = v] = e <=> e.logo_effect = v
                     /\ [e EXCEPT !.logo_on = v] = e <=> e.logo_on = v
  BY DEF Registers
<1>2. \A f \in [Rows -> Nat] : [e EXCEPT !.shown = f] = e <=> e.shown = f
  BY DEF Registers
<1>3. ASSUME NEW row \in Rows, NEW colour \in Nat
      PROVE  [e EXCEPT !.rows[row] = colour] = e <=> e.rows[row] = colour
  <2>1. [e.rows EXCEPT ![row] = colour] = e.rows <=> e.rows[row] = colour
    BY DEF Registers
  <2>2. \A f \in [Rows -> Nat] : [e EXCEPT !.rows = f] = e <=> e.rows = f
    BY DEF Registers
  <2>3. [e.rows EXCEPT ![row] = colour] \in [Rows -> Nat]
    BY DEF Registers
  <2>4. [e EXCEPT !.rows[row] = colour] = [e EXCEPT !.rows = [e.rows EXCEPT ![row] = colour]]
    BY DEF Registers
  <2> QED
    BY <2>1, <2>2, <2>3, <2>4
<1>4. e.rows \in [Rows -> Nat] /\ \A effect \in Effects : [i \in Rows |-> effect] \in [Rows -> Nat]
  BY WireBytes DEF Registers
<1>5. \A boost \in Boost : /\ Done(e, SetCpuBoost(boost)) <=> e.cpu = BoostByte(boost)
                           /\ Done(e, SetGpuBoost(boost)) <=> e.gpu = BoostByte(boost)
  BY <1>1, OtherEffects, Bytes DEF Done
<1>6. /\ \A enabled \in BOOLEAN, threshold \in Nat :
             Done(e, SetBho(enabled, threshold)) <=> e.bho = BhoByte(enabled, threshold)
      /\ \A value \in Nat : Done(e, SetBrightness(value)) <=> e.brightness = value
  BY <1>1, OtherEffects, WireBytes DEF Done
<1>7. /\ \A effect \in {0, 2} : Done(e, SetLogoEffect(effect)) <=> e.logo_effect = effect
      /\ \A on \in BOOLEAN : Done(e, SetLogoState(on)) <=> e.logo_on = Bit(on)
  BY <1>1, OtherEffects, Bytes DEF Done
<1>8. \A effect \in Effects : ~Ignores(effect) =>
          (Done(e, SetKbdEffect(effect)) <=> e.shown = [i \in Rows |-> effect])
  BY <1>2, <1>4, OtherEffects DEF Done
<1>9. \A row \in Rows, colour \in Effects :
          Done(e, FrameRow(row, colour)) <=> e.rows[row] = colour
  BY <1>3, WireBytes, OtherEffects DEF Done
<1>10. Done(e, ShowFrame) <=> e.shown = e.rows
  BY <1>2, <1>4, OtherEffects DEF Done
<1> QED
  BY <1>5, <1>6, <1>7, <1>8, <1>9, <1>10

-----------------------------------------------------------------------------
(* What a report leaves alone.                                              *)

\* The registers beside those of the fans.
SameSettings(e, g) ==
    /\ g.cpu = e.cpu /\ g.gpu = e.gpu /\ g.bho = e.bho /\ g.brightness = e.brightness
    /\ g.rows = e.rows /\ g.shown = e.shown
    /\ g.logo_effect = e.logo_effect /\ g.logo_on = e.logo_on

LEMMA FanRequestIs ==
    ASSUME NEW r \in FanRequests
    PROVE  \E z \in Zones :
               \/ \E mode \in PerfMode, manual \in BOOLEAN : r = SetPowerMode(z, mode, manual)
               \/ \E n \in Speeds : r = SetFanRpm(z, n)
               \/ r = GetFanRpm(z)
BY DEF FanRequests

LEMMA ZoneOfReport ==
    ASSUME NEW z \in Zones, NEW y \in Zones
    PROVE  /\ \A mode, manual : Rezones(SetPowerMode(z, mode, manual), y) <=> y = z
           /\ \A n : Rezones(SetFanRpm(z, n), y) <=> y = z
           /\ ~Rezones(GetFanRpm(z), y)
           /\ ZoneByte(y) = ZoneByte(z) <=> y = z
BY DEF Rezones, SetPowerMode, SetFanRpm, GetFanRpm, Report, ZoneByte, Zones

LEMMA PowerModeChanges ==
    ASSUME NEW e \in Registers, NEW z \in Zones, NEW mode \in PerfMode, NEW manual \in BOOLEAN,
           NEW r, r = SetPowerMode(z, mode, manual)
    PROVE  LET g == Obey(e, r)
           IN  /\ g \in Registers /\ SameSettings(e, g) /\ Done(g, r)
               /\ g.zone[ZoneByte(z)] = [mode |-> ModeByte(mode), manual |-> Bit(manual),
                                         rpm |-> e.zone[ZoneByte(z)].rpm]
               /\ \A y \in Zones \ {z} : g.zone[ZoneByte(y)] = e.zone[ZoneByte(y)]
<1> DEFINE i == ZoneByte(z)
           new == [mode |-> ModeByte(mode), manual |-> Bit(manual), rpm |-> e.zone[i].rpm]
<1>1. i \in 1..2 /\ e.zone[i] \in ZoneRegisters
  BY Bytes DEF Registers, ZoneRegisters
<1>2. new \in ZoneRegisters
  BY <1>1, Bytes DEF ZoneRegisters
<1>3. Obey(e, SetPowerMode(z, mode, manual)) = Rezoned(e, i, new)
  BY PowerModeEffect
<1> HIDE DEF i
<1>4. Rezoned(e, i, new) \in Registers /\ Rezoned(e, i, new).zone[i] = new
  BY <1>1, <1>2, ZoneChanges
<1>5. SameSettings(e, Rezoned(e, i, new))
  BY <1>1, <1>2, ZoneChanges DEF SameSettings
<1>6. Done(Rezoned(e, i, new), SetPowerMode(z, mode, manual))
  BY <1>4, FanDone DEF i
<1>7. \A y \in Zones \ {z} : ZoneByte(y) \in 1..2 /\ ZoneByte(y) # i
  BY ZoneOfReport, Bytes DEF i
<1>8. \A y \in Zones \ {z} : Rezoned(e, i, new).zone[ZoneByte(y)] = e.zone[ZoneByte(y)]
  <2> HIDE DEF new
  <2>1. \A j \in 1..2 : j # i => Rezoned(e, i, new).zone[j] = e.zone[j]
    BY <1>1, <1>2, ZoneChanges
  <2> QED
    BY <1>7, <2>1
<1> QED
  BY <1>3, <1>4, <1>5, <1>6, <1>8 DEF i

LEMMA FanRpmChanges ==
    ASSUME NEW e \in Registers, NEW z \in Zones, NEW n \in Speeds,
           NEW r, r = SetFanRpm(z, n)
    PROVE  LET g == Obey(e, r)
           IN  /\ g \in Registers /\ SameSettings(e, g) /\ Done(g, r)
               /\ g.zone[ZoneByte(z)] = [mode |-> e.zone[ZoneByte(z)].mode,
                                         manual |-> e.zone[ZoneByte(z)].manual, rpm |-> 100 * n]
               /\ \A y \in Zones \ {z} : g.zone[ZoneByte(y)] = e.zone[ZoneByte(y)]
<1> DEFINE i == ZoneByte(z)
           new == [mode |-> e.zone[i].mode, manual |-> e.zone[i].manual, rpm |-> 100 * n]
<1>1. i \in 1..2 /\ e.zone[i] \in ZoneRegisters
  BY Bytes DEF Registers, ZoneRegisters
<1>2. new \in ZoneRegisters
  BY <1>1, WireBytes DEF ZoneRegisters
<1>3. Obey(e, SetFanRpm(z, n)) = Rezoned(e, i, new)
  BY FanRpmEffect
<1> HIDE DEF i
<1>4. Rezoned(e, i, new) \in Registers /\ Rezoned(e, i, new).zone[i] = new
  BY <1>1, <1>2, ZoneChanges
<1>5. SameSettings(e, Rezoned(e, i, new))
  BY <1>1, <1>2, ZoneChanges DEF SameSettings
<1>6. Done(Rezoned(e, i, new), SetFanRpm(z, n))
  BY <1>4, FanDone DEF i
<1>7. \A y \in Zones \ {z} : ZoneByte(y) \in 1..2 /\ ZoneByte(y) # i
  BY ZoneOfReport, Bytes DEF i
<1>8. \A y \in Zones \ {z} : Rezoned(e, i, new).zone[ZoneByte(y)] = e.zone[ZoneByte(y)]
  <2> HIDE DEF new
  <2>1. \A j \in 1..2 : j # i => Rezoned(e, i, new).zone[j] = e.zone[j]
    BY <1>1, <1>2, ZoneChanges
  <2> QED
    BY <1>7, <2>1
<1> QED
  BY <1>3, <1>4, <1>5, <1>6, <1>8 DEF i

\* A fan report changes only its own zone, and doing it twice is doing it once.
LEMMA FanEffect ==
    ASSUME NEW e \in Registers, NEW r \in FanRequests
    PROVE  /\ Obey(e, r) \in Registers /\ SameSettings(e, Obey(e, r)) /\ Done(Obey(e, r), r)
           /\ \A z \in Zones :
                  /\ ~Rezones(r, z) => Obey(e, r).zone[ZoneByte(z)] = e.zone[ZoneByte(z)]
                  /\ e.zone[ZoneByte(z)].mode \in {0, 1, 4} =>
                         Obey(e, r).zone[ZoneByte(z)].mode \in {0, 1, 4}
<1>1. ASSUME NEW z \in Zones, NEW mode \in PerfMode, NEW manual \in BOOLEAN,
             r = SetPowerMode(z, mode, manual)
      PROVE  /\ Obey(e, r) \in Registers /\ SameSettings(e, Obey(e, r)) /\ Done(Obey(e, r), r)
             /\ \A y \in Zones : Rezones(r, y) \/ Obey(e, r).zone[ZoneByte(y)] = e.zone[ZoneByte(y)]
             /\ Obey(e, r).zone[ZoneByte(z)].mode \in {0, 1, 4}
             /\ \A y \in Zones : Rezones(r, y) <=> y = z
  <2> DEFINE g == Obey(e, r)
  <2>1. /\ g \in Registers /\ SameSettings(e, g) /\ Done(g, r)
        /\ g.zone[ZoneByte(z)].mode = ModeByte(mode)
        /\ \A y \in Zones \ {z} : g.zone[ZoneByte(y)] = e.zone[ZoneByte(y)]
    <3>1. /\ g \in Registers /\ SameSettings(e, g) /\ Done(g, r)
          /\ g.zone[ZoneByte(z)] = [mode |-> ModeByte(mode), manual |-> Bit(manual),
                                    rpm |-> e.zone[ZoneByte(z)].rpm]
          /\ \A y \in Zones \ {z} : g.zone[ZoneByte(y)] = e.zone[ZoneByte(y)]
      BY <1>1, PowerModeChanges
    <3> QED
      BY <3>1
  <2>2. \A y \in Zones : Rezones(r, y) <=> y = z
    BY <1>1, ZoneOfReport
  <2> HIDE DEF g
  <2>3. g.zone[ZoneByte(z)].mode \in {0, 1, 4}
    BY <2>1, Bytes
  <2> QED
    BY <2>1, <2>2, <2>3 DEF g
<1>2. ASSUME NEW z \in Zones, NEW n \in Speeds, r = SetFanRpm(z, n)
      PROVE  /\ Obey(e, r) \in Registers /\ SameSettings(e, Obey(e, r)) /\ Done(Obey(e, r), r)
             /\ \A y \in Zones : Rezones(r, y) \/ Obey(e, r).zone[ZoneByte(y)] = e.zone[ZoneByte(y)]
             /\ Obey(e, r).zone[ZoneByte(z)].mode = e.zone[ZoneByte(z)].mode
             /\ \A y \in Zones : Rezones(r, y) <=> y = z
  <2> DEFINE g == Obey(e, r)
  <2>1. /\ g \in Registers /\ SameSettings(e, g) /\ Done(g, r)
        /\ g.zone[ZoneByte(z)].mode = e.zone[ZoneByte(z)].mode
        /\ \A y \in Zones \ {z} : g.zone[ZoneByte(y)] = e.zone[ZoneByte(y)]
    <3>1. /\ g \in Registers /\ SameSettings(e, g) /\ Done(g, r)
          /\ g.zone[ZoneByte(z)] = [mode |-> e.zone[ZoneByte(z)].mode,
                                    manual |-> e.zone[ZoneByte(z)].manual, rpm |-> 100 * n]
          /\ \A y \in Zones \ {z} : g.zone[ZoneByte(y)] = e.zone[ZoneByte(y)]
      BY <1>2, FanRpmChanges
    <3> QED
      BY <3>1
  <2>2. \A y \in Zones : Rezones(r, y) <=> y = z
    BY <1>2, ZoneOfReport
  <2> HIDE DEF g
  <2> QED
    BY <2>1, <2>2 DEF g
<1>3. ASSUME NEW z \in Zones, r = GetFanRpm(z)
      PROVE  Obey(e, r) = e
  BY <1>3, FanDone DEF Done
<1>4. e \in Registers /\ SameSettings(e, e)
  BY DEF SameSettings
<1>5. CASE \E z \in Zones, mode \in PerfMode, manual \in BOOLEAN : r = SetPowerMode(z, mode, manual)
  BY <1>1, <1>5
<1>6. CASE \E z \in Zones, n \in Speeds : r = SetFanRpm(z, n)
  BY <1>2, <1>6
<1>7. CASE \E z \in Zones : r = GetFanRpm(z)
  BY <1>3, <1>4, <1>7 DEF Done
<1> QED
  BY <1>5, <1>6, <1>7, FanRequestIs

\* The register a request beside those of the fans writes.
Cell(r) ==
    CASE r.class = 13 -> IF r.args[2] = 1 THEN "cpu" ELSE "gpu"
      [] r.class = 7 -> "bho"
      [] r.class = 3 /\ r.id = 3 -> "brightness"
      [] r.class = 3 /\ r.id = 11 -> "rows"
      [] r.class = 3 /\ r.id = 10 -> "shown"
      [] r.class = 3 /\ r.id = 2 -> "logo_effect"
      [] OTHER -> "logo_on"

Cells == {"cpu", "gpu", "bho", "brightness", "rows", "shown", "logo_effect", "logo_on"}

LEMMA CellOf ==
    /\ \A boost \in Boost : Cell(SetCpuBoost(boost)) = "cpu" /\ Cell(SetGpuBoost(boost)) = "gpu"
    /\ \A enabled, threshold : Cell(SetBho(enabled, threshold)) = "bho"
    /\ \A value : Cell(SetBrightness(value)) = "brightness"
    /\ \A effect : Cell(SetLogoEffect(effect)) = "logo_effect"
    /\ \A on : Cell(SetLogoState(on)) = "logo_on"
    /\ \A effect : Cell(SetKbdEffect(effect)) = "shown"
    /\ \A row, colour : Cell(FrameRow(row, colour)) = "rows"
    /\ Cell(ShowFrame) = "shown"
<1>1. \A boost \in Boost : Cell(SetCpuBoost(boost)) = "cpu" /\ Cell(SetGpuBoost(boost)) = "gpu"
  BY DEF Cell, SetCpuBoost, SetGpuBoost, Report
<1>2. \A enabled, threshold : Cell(SetBho(enabled, threshold)) = "bho"
  BY DEF Cell, SetBho, Report
<1>3. \A value : Cell(SetBrightness(value)) = "brightness"
  BY DEF Cell, SetBrightness, Report
<1>4. \A effect : Cell(SetLogoEffect(effect)) = "logo_effect" /\ Cell(SetLogoState(effect)) = "logo_on"
  BY DEF Cell, SetLogoEffect, SetLogoState, Report
<1>5. \A effect : Cell(SetKbdEffect(effect)) = "shown"
  BY DEF Cell, SetKbdEffect, Report
<1>6. \A row, colour : Cell(FrameRow(row, colour)) = "rows"
  BY DEF Cell, FrameRow, FrameReport, Report
<1>7. Cell(ShowFrame) = "shown"
  BY DEF Cell, ShowFrame, FrameReport, Report
<1> QED
  BY <1>1, <1>2, <1>3, <1>4, <1>5, <1>6, <1>7

LEMMA SettingRequestIs ==
    ASSUME NEW r \in SettingRequests
    PROVE  \/ \E boost \in Boost : r = SetCpuBoost(boost) \/ r = SetGpuBoost(boost)
           \/ \E enabled \in BOOLEAN, threshold \in Nat : r = SetBho(enabled, threshold)
           \/ \E value \in Nat : r = SetBrightness(value)
           \/ \E effect \in {0, 2} : r = SetLogoEffect(effect)
           \/ \E on \in BOOLEAN : r = SetLogoState(on)
           \/ \E effect \in Effects : ~Ignores(effect) /\ r = SetKbdEffect(effect)
           \/ \E row \in Rows, colour \in Effects : r = FrameRow(row, colour)
           \/ r = ShowFrame
BY DEF SettingRequests, LightingRequests

\* Such a request changes one register, and doing it twice is doing it once.
LEMMA SettingEffect ==
    ASSUME NEW e \in Registers, NEW r \in SettingRequests
    PROVE  /\ Obey(e, r) \in Registers /\ Done(Obey(e, r), r)
           /\ Obey(e, r).zone = e.zone
           /\ \A cell \in Cells \ {Cell(r)} : Obey(e, r)[cell] = e[cell]
<1> DEFINE Goal ==
        /\ Obey(e, r) \in Registers /\ Done(Obey(e, r), r)
        /\ Obey(e, r).zone = e.zone
        /\ \A cell \in Cells \ {Cell(r)} : Obey(e, r)[cell] = e[cell]
<1>1. ASSUME NEW boost \in Boost, r = SetCpuBoost(boost) PROVE Goal
  <2>1. Obey(e, r) = [e EXCEPT !.cpu = BoostByte(boost)] /\ Cell(r) = "cpu"
    BY <1>1, OtherEffects, CellOf
  <2>2. Obey(e, r) \in Registers /\ Obey(e, r).cpu = BoostByte(boost)
    BY <2>1, Bytes DEF Registers
  <2>3. Done(Obey(e, r), r)
    BY <1>1, <2>2, SettingDone
  <2> QED
    BY <2>1, <2>2, <2>3 DEF Cells, Registers
<1>2. ASSUME NEW boost \in Boost, r = SetGpuBoost(boost) PROVE Goal
  <2>1. Obey(e, r) = [e EXCEPT !.gpu = BoostByte(boost)] /\ Cell(r) = "gpu"
    BY <1>2, OtherEffects, CellOf
  <2>2. Obey(e, r) \in Registers /\ Obey(e, r).gpu = BoostByte(boost)
    BY <2>1, Bytes DEF Registers
  <2>3. Done(Obey(e, r), r)
    BY <1>2, <2>2, SettingDone
  <2> QED
    BY <2>1, <2>2, <2>3 DEF Cells, Registers
<1>3. ASSUME NEW enabled \in BOOLEAN, NEW threshold \in Nat, r = SetBho(enabled, threshold) PROVE Goal
  <2>1. Obey(e, r) = [e EXCEPT !.bho = BhoByte(enabled, threshold)] /\ Cell(r) = "bho"
    BY <1>3, OtherEffects, CellOf
  <2>2. Obey(e, r) \in Registers /\ Obey(e, r).bho = BhoByte(enabled, threshold)
    BY <2>1, WireBytes DEF Registers
  <2>3. Done(Obey(e, r), r)
    BY <1>3, <2>2, SettingDone
  <2> QED
    BY <2>1, <2>2, <2>3 DEF Cells, Registers
<1>4. ASSUME NEW value \in Nat, r = SetBrightness(value) PROVE Goal
  <2>1. Obey(e, r) = [e EXCEPT !.brightness = value] /\ Cell(r) = "brightness"
    BY <1>4, OtherEffects, CellOf
  <2>2. Obey(e, r) \in Registers /\ Obey(e, r).brightness = value
    BY <2>1 DEF Registers
  <2>3. Done(Obey(e, r), r)
    BY <1>4, <2>2, SettingDone
  <2> QED
    BY <2>1, <2>2, <2>3 DEF Cells, Registers
<1>5. ASSUME NEW effect \in {0, 2}, r = SetLogoEffect(effect) PROVE Goal
  <2>1. Obey(e, r) = [e EXCEPT !.logo_effect = effect] /\ Cell(r) = "logo_effect"
    BY <1>5, OtherEffects, CellOf
  <2>2. Obey(e, r) \in Registers /\ Obey(e, r).logo_effect = effect
    BY <2>1 DEF Registers
  <2>3. Done(Obey(e, r), r)
    BY <1>5, <2>2, SettingDone
  <2> QED
    BY <2>1, <2>2, <2>3 DEF Cells, Registers
<1>6. ASSUME NEW on \in BOOLEAN, r = SetLogoState(on) PROVE Goal
  <2>1. Obey(e, r) = [e EXCEPT !.logo_on = Bit(on)] /\ Cell(r) = "logo_on"
    BY <1>6, OtherEffects, CellOf
  <2>2. Obey(e, r) \in Registers /\ Obey(e, r).logo_on = Bit(on)
    BY <2>1, Bytes DEF Registers
  <2>3. Done(Obey(e, r), r)
    BY <1>6, <2>2, SettingDone
  <2> QED
    BY <2>1, <2>2, <2>3 DEF Cells, Registers
<1>7. ASSUME NEW effect \in Effects, ~Ignores(effect), r = SetKbdEffect(effect) PROVE Goal
  <2>1. Obey(e, r) = [e EXCEPT !.shown = [i \in Rows |-> effect]] /\ Cell(r) = "shown"
    BY <1>7, OtherEffects, CellOf
  <2>2. Obey(e, r) \in Registers /\ Obey(e, r).shown = [i \in Rows |-> effect]
    BY <2>1, WireBytes DEF Registers
  <2>3. Done(Obey(e, r), r)
    BY <1>7, <2>2, SettingDone
  <2> QED
    BY <2>1, <2>2, <2>3 DEF Cells, Registers
<1>8. ASSUME NEW row \in Rows, NEW colour \in Effects, r = FrameRow(row, colour) PROVE Goal
  <2> DEFINE f == [e.rows EXCEPT ![row] = colour]
  <2>1. f \in [Rows -> Nat] /\ f[row] = colour
    BY WireBytes DEF Registers
  <2>2. Obey(e, r) = [e EXCEPT !.rows = f] /\ Cell(r) = "rows"
    BY <1>8, OtherEffects, CellOf DEF Registers
  <2> HIDE DEF f
  <2>3. Obey(e, r) \in Registers /\ Obey(e, r).rows[row] = colour
    BY <2>1, <2>2 DEF Registers
  <2>4. Done(Obey(e, r), r)
    BY <1>8, <2>3, SettingDone
  <2> QED
    BY <2>2, <2>3, <2>4 DEF Cells, Registers
<1>9. ASSUME r = ShowFrame PROVE Goal
  <2>1. Obey(e, r) = [e EXCEPT !.shown = e.rows] /\ Cell(r) = "shown"
    BY <1>9, OtherEffects, CellOf
  <2>2. Obey(e, r) \in Registers /\ Obey(e, r).shown = Obey(e, r).rows
    BY <2>1 DEF Registers
  <2>3. Done(Obey(e, r), r)
    BY <1>9, <2>2, SettingDone
  <2> QED
    BY <2>1, <2>2, <2>3 DEF Cells, Registers
<1> QED
  BY <1>1, <1>2, <1>3, <1>4, <1>5, <1>6, <1>7, <1>8, <1>9, SettingRequestIs

-----------------------------------------------------------------------------
(* The reports of an apply do not undo each other.                          *)

LEMMA PowerOnSpeed == MaxRpm \div 100 \in Speeds /\ 100 * (MaxRpm \div 100) = MaxRpm
<1>1. ModelOf(Pid) \in {Models[pid] : pid \in DOMAIN Models} \cup {FALLBACK}
  BY DEF ModelOf, Known
<1>2. ModelOf(Pid).max \div 100 < 256
  BY <1>1, TableAssumption
<1>3. ModelOf(Pid).max = MaxRpm
  BY ModelAssumption
<1> QED
  BY <1>2, <1>3, FanLimitsAssumption DEF Speeds

LEMMA AppliedIs ==
    ASSUME NEW st \in Applied
    PROVE  /\ st.perf_mode \in PerfMode /\ st.logo_led \in LogoMode /\ st.kbd_effect \in Effects
           /\ st.bho_enabled \in BOOLEAN /\ st.bho_threshold \in Nat
           /\ ByteOf(st.kbd_brightness) \in Nat
           /\ EcBoosts(st) # None => /\ EcBoosts(st)[1] \in Boost /\ EcBoosts(st)[2] \in Boost
                                     /\ EcBoosts(st) = <<EcBoosts(st)[1], EcBoosts(st)[2]>>
<1>1. st \in AppliedState
  BY InputAssumption
<1>2. \A boost \in Boost : \A allowed : CapBoost(boost, allowed) \in Boost
  BY DEF CapBoost, Boost
<1>3. EcBoosts(st) = None \/ \E b, c \in Boost : EcBoosts(st) = <<b, c>>
  BY <1>1, <1>2 DEF EcBoosts, AppliedState, Boost
<1>4. st.kbd_brightness \in Nat
  BY <1>1 DEF AppliedState
<1> QED
  BY <1>1, <1>3, <1>4 DEF AppliedState, ByteOf

LEMMA FanWritesAre ==
    ASSUME NEW st \in Applied
    PROVE  FanWrites(st) \subseteq FanRequests
<1>1. \A z \in Zones : SetPowerMode(z, st.perf_mode, st.fan # AutoFan) \in FanRequests
  <2>1. \A z \in Zones, mode \in PerfMode, manual \in BOOLEAN :
            SetPowerMode(z, mode, manual) \in FanRequests
    BY DEF FanRequests
  <2> QED
    BY <2>1, AppliedIs, Zenon
<1>2. \A z \in Zones : SetFanRpm(z, MaxRpm \div 100) \in FanRequests
  BY PowerOnSpeed DEF FanRequests
<1> QED
  BY <1>1, <1>2 DEF FanWrites

LEMMA SettingWritesAre ==
    ASSUME NEW st \in Applied
    PROVE  SettingWrites(st) \subseteq SettingRequests
<1>1. KeyboardWrites(st.kbd_effect) \subseteq SettingRequests
  BY AppliedIs DEF KeyboardWrites, SettingRequests, LightingRequests, Ignores
<1>2. LogoWrites(st.logo_led) \subseteq SettingRequests
  <2>1. SetLogoState(TRUE) \in SettingRequests /\ SetLogoState(FALSE) \in SettingRequests
    <3>1. \A on \in BOOLEAN : SetLogoState(on) \in SettingRequests
      BY DEF SettingRequests
    <3> QED
      BY <3>1
  <2>2. SetLogoEffect(0) \in SettingRequests /\ SetLogoEffect(2) \in SettingRequests
    BY DEF SettingRequests
  <2> QED
    BY <2>1, <2>2 DEF LogoWrites
<1>3. SetBrightness(ByteOf(st.kbd_brightness)) \in SettingRequests
  BY AppliedIs DEF SettingRequests
<1>4. SetBho(st.bho_enabled, st.bho_threshold) \in SettingRequests
  BY AppliedIs DEF SettingRequests
<1>5. EcBoosts(st) # None => /\ SetCpuBoost(EcBoosts(st)[1]) \in SettingRequests
                            /\ SetGpuBoost(EcBoosts(st)[2]) \in SettingRequests
  BY AppliedIs DEF SettingRequests
<1> QED
  BY <1>1, <1>2, <1>3, <1>4, <1>5 DEF SettingWrites

\* Two different settings of an apply write different registers, or different
\* rows of the frame.
LEMMA CellsApart ==
    ASSUME NEW st \in Applied, NEW r \in SettingWrites(st), NEW s \in SettingWrites(st), r # s
    PROVE  \/ Cell(r) # Cell(s)
           \/ \E i, j \in Rows, colour \in Effects :
                  i # j /\ r = FrameRow(i, colour) /\ s = FrameRow(j, colour)
<1> DEFINE Single == {x \in SettingWrites(st) : Cell(x) # "rows"}
<1>1. \A x \in SettingWrites(st) :
          \/ Cell(x) = "cpu" /\ x = SetCpuBoost(EcBoosts(st)[1])
          \/ Cell(x) = "gpu" /\ x = SetGpuBoost(EcBoosts(st)[2])
          \/ Cell(x) = "bho" /\ x = SetBho(st.bho_enabled, st.bho_threshold)
          \/ Cell(x) = "brightness" /\ x = SetBrightness(ByteOf(st.kbd_brightness))
          \/ x \in KeyboardWrites(st.kbd_effect)
          \/ x \in LogoWrites(st.logo_led)
  BY CellOf, AppliedIs DEF SettingWrites
<1>2. \A x \in KeyboardWrites(st.kbd_effect) :
          \/ Cell(x) = "rows" /\ \E i \in Rows : x = FrameRow(i, st.kbd_effect)
          \/ Cell(x) = "shown" /\ x = IF Pid = FramePid /\ st.kbd_effect \in StaticColours
                                      THEN ShowFrame ELSE SetKbdEffect(st.kbd_effect)
  BY CellOf DEF KeyboardWrites
<1>3. \A x \in LogoWrites(st.logo_led) :
          \/ Cell(x) = "logo_on" /\ x = SetLogoState(st.logo_led # "off")
          \/ /\ Cell(x) = "logo_effect"
             /\ x = SetLogoEffect(IF st.logo_led = "breathing" THEN 2 ELSE 0)
  BY CellOf DEF LogoWrites
<1>4. CASE Cell(r) = "rows" /\ Cell(s) = "rows"
  <2>1. PICK i, j \in Rows : r = FrameRow(i, st.kbd_effect) /\ s = FrameRow(j, st.kbd_effect)
    BY <1>1, <1>2, <1>3, <1>4
  <2> QED
    BY <2>1, AppliedIs
<1>5. CASE Cell(r) # "rows" /\ Cell(r) = Cell(s)
  BY <1>1, <1>2, <1>3, <1>5
<1> QED
  BY <1>4, <1>5

LEMMA FrameRowDone ==
    ASSUME NEW e \in Registers, NEW row \in Rows, NEW colour \in Effects
    PROVE  Done(e, FrameRow(row, colour)) <=> e.rows[row] = colour
<1>1. \A i \in Rows, c \in Effects : Done(e, FrameRow(i, c)) <=> e.rows[i] = c
  BY SettingDone, Zenon
<1> QED
  BY <1>1, Zenon

LEMMA DoneElsewhere ==
    ASSUME NEW e \in Registers, NEW g \in Registers, NEW s \in SettingRequests,
           Done(e, s), g[Cell(s)] = e[Cell(s)], s = ShowFrame => g.rows = e.rows
    PROVE  Done(g, s)
<1>1. ASSUME NEW boost \in Boost, s = SetCpuBoost(boost)
      PROVE  Done(g, s)
  <2>1. g.cpu = e.cpu
    BY <1>1, CellOf
  <2>2. (Done(e, s) <=> e.cpu = BoostByte(boost)) /\ (Done(g, s) <=> g.cpu = BoostByte(boost))
    BY <1>1, SettingDone
  <2> QED
    BY <2>1, <2>2
<1>2. ASSUME NEW boost \in Boost, s = SetGpuBoost(boost)
      PROVE  Done(g, s)
  <2>1. g.gpu = e.gpu
    BY <1>2, CellOf
  <2>2. (Done(e, s) <=> e.gpu = BoostByte(boost)) /\ (Done(g, s) <=> g.gpu = BoostByte(boost))
    BY <1>2, SettingDone
  <2> QED
    BY <2>1, <2>2
<1>3. ASSUME NEW enabled \in BOOLEAN, NEW threshold \in Nat, s = SetBho(enabled, threshold)
      PROVE  Done(g, s)
  <2>1. g.bho = e.bho
    BY <1>3, CellOf
  <2>2. (Done(e, s) <=> e.bho = BhoByte(enabled, threshold)) /\ (Done(g, s) <=> g.bho = BhoByte(enabled, threshold))
    BY <1>3, SettingDone
  <2> QED
    BY <2>1, <2>2
<1>4. ASSUME NEW value \in Nat, s = SetBrightness(value)
      PROVE  Done(g, s)
  <2>1. g.brightness = e.brightness
    BY <1>4, CellOf
  <2>2. (Done(e, s) <=> e.brightness = value) /\ (Done(g, s) <=> g.brightness = value)
    BY <1>4, SettingDone
  <2> QED
    BY <2>1, <2>2
<1>5. ASSUME NEW effect \in {0, 2}, s = SetLogoEffect(effect)
      PROVE  Done(g, s)
  <2>1. g.logo_effect = e.logo_effect
    BY <1>5, CellOf
  <2>2. (Done(e, s) <=> e.logo_effect = effect) /\ (Done(g, s) <=> g.logo_effect = effect)
    BY <1>5, SettingDone
  <2> QED
    BY <2>1, <2>2
<1>6. ASSUME NEW on \in BOOLEAN, s = SetLogoState(on)
      PROVE  Done(g, s)
  <2>1. g.logo_on = e.logo_on
    BY <1>6, CellOf
  <2>2. (Done(e, s) <=> e.logo_on = Bit(on)) /\ (Done(g, s) <=> g.logo_on = Bit(on))
    BY <1>6, SettingDone
  <2> QED
    BY <2>1, <2>2
<1>7. ASSUME NEW effect \in Effects, ~Ignores(effect), s = SetKbdEffect(effect)
      PROVE  Done(g, s)
  <2>1. g.shown = e.shown
    BY <1>7, CellOf
  <2>2. (Done(e, s) <=> e.shown = [i \in Rows |-> effect]) /\ (Done(g, s) <=> g.shown = [i \in Rows |-> effect])
    BY <1>7, SettingDone
  <2> QED
    BY <2>1, <2>2
<1>8. ASSUME NEW row \in Rows, NEW colour \in Effects, s = FrameRow(row, colour)
      PROVE  Done(g, s)
  <2>1. g.rows = e.rows
    BY <1>8, CellOf
  <2>2. (Done(e, s) <=> e.rows[row] = colour) /\ (Done(g, s) <=> g.rows[row] = colour)
    <3>1. Done(e, FrameRow(row, colour)) <=> e.rows[row] = colour
      BY FrameRowDone
    <3>2. Done(g, FrameRow(row, colour)) <=> g.rows[row] = colour
      BY FrameRowDone
    <3> QED
      BY <1>8, <3>1, <3>2
  <2> QED
    BY <2>1, <2>2
<1>9. ASSUME s = ShowFrame PROVE Done(g, s)
  BY <1>9, SettingDone, CellOf
<1> QED
  BY <1>1, <1>2, <1>3, <1>4, <1>5, <1>6, <1>7, <1>8, <1>9, SettingRequestIs

LEMMA CellsAre ==
    ASSUME NEW r \in SettingRequests
    PROVE  Cell(r) \in Cells /\ (Cell(r) = "rows" <=> r \in FrameRowRequests)
<1>1. \A x \in FrameRowRequests : Cell(x) = "rows"
  BY CellOf DEF FrameRowRequests
<1>2. ASSUME NEW boost \in Boost, r = SetCpuBoost(boost) \/ r = SetGpuBoost(boost)
      PROVE  Cell(r) \in {"cpu", "gpu"}
  BY <1>2, CellOf
<1>3. ASSUME NEW enabled \in BOOLEAN, NEW threshold \in Nat, r = SetBho(enabled, threshold)
      PROVE  Cell(r) = "bho"
  BY <1>3, CellOf
<1>4. ASSUME NEW value \in Nat, r = SetBrightness(value) PROVE Cell(r) = "brightness"
  BY <1>4, CellOf
<1>5. ASSUME NEW effect \in {0, 2}, r = SetLogoEffect(effect) PROVE Cell(r) = "logo_effect"
  BY <1>5, CellOf
<1>6. ASSUME NEW on \in BOOLEAN, r = SetLogoState(on) PROVE Cell(r) = "logo_on"
  BY <1>6, CellOf
<1>7. ASSUME NEW effect \in Effects, r = SetKbdEffect(effect) PROVE Cell(r) = "shown"
  BY <1>7, CellOf
<1>8. ASSUME NEW row \in Rows, NEW colour \in Effects, r = FrameRow(row, colour)
      PROVE  r \in FrameRowRequests /\ Cell(r) = "rows"
  BY <1>8, CellOf DEF FrameRowRequests
<1>9. r = ShowFrame => Cell(r) = "shown"
  BY CellOf
<1> QED
  BY <1>1, <1>2, <1>3, <1>4, <1>5, <1>6, <1>7, <1>8, <1>9, SettingRequestIs DEF Cells

\* A fan report does not undo another setting.
LEMMA SettingsStay ==
    ASSUME NEW e \in Registers, NEW r \in FanRequests, NEW s \in SettingRequests, Done(e, s)
    PROVE  Done(Obey(e, r), s)
<1> DEFINE g == Obey(e, r)
<1>1. g \in Registers /\ SameSettings(e, g)
  BY FanEffect
<1> HIDE DEF g
<1>2. \A cell \in Cells : g[cell] = e[cell]
  BY <1>1 DEF Cells, SameSettings
<1>3. Done(g, s)
  BY <1>1, <1>2, CellsAre, DoneElsewhere DEF SameSettings
<1> QED
  BY <1>3 DEF g

LEMMA WireEffect ==
    ASSUME NEW e \in Registers, NEW r \in Wire
    PROVE  /\ Obey(e, r) \in Registers /\ Done(Obey(e, r), r)
           /\ \A z \in Zones :
                  /\ ~Rezones(r, z) => Obey(e, r).zone[ZoneByte(z)] = e.zone[ZoneByte(z)]
                  /\ e.zone[ZoneByte(z)].mode \in {0, 1, 4} =>
                         Obey(e, r).zone[ZoneByte(z)].mode \in {0, 1, 4}
<1>1. CASE r \in FanRequests
  BY <1>1, FanEffect
<1>2. CASE r \in SettingRequests
  <2>1. Obey(e, r) \in Registers /\ Done(Obey(e, r), r) /\ Obey(e, r).zone = e.zone
    BY <1>2, SettingEffect
  <2> QED
    BY <2>1
<1> QED
  BY <1>1, <1>2 DEF Wire

LEMMA FanWritesApart ==
    ASSUME NEW e \in Registers, NEW st \in Applied,
           NEW r \in FanWrites(st), NEW s \in FanWrites(st), r # s, Done(e, s)
    PROVE  Done(Obey(e, r), s)
<1> DEFINE m == st.perf_mode
           manual == st.fan # AutoFan
           n == MaxRpm \div 100
<1>1. m \in PerfMode /\ manual \in BOOLEAN /\ n \in Speeds
  BY AppliedIs, PowerOnSpeed
<1>2. /\ \E z \in Zones : r = SetPowerMode(z, m, manual) \/ r = SetFanRpm(z, n)
      /\ \E z \in Zones : s = SetPowerMode(z, m, manual) \/ s = SetFanRpm(z, n)
  BY DEF FanWrites
<1> HIDE DEF m, manual, n
<1>3. \A f \in Registers, z \in Zones :
          /\ Done(f, SetPowerMode(z, m, manual)) <=>
                 f.zone[ZoneByte(z)].mode = ModeByte(m) /\ f.zone[ZoneByte(z)].manual = Bit(manual)
          /\ Done(f, SetFanRpm(z, n)) <=> f.zone[ZoneByte(z)].rpm = 100 * n
  BY <1>1, FanDone
<1>4. ASSUME NEW z \in Zones, r = SetPowerMode(z, m, manual) PROVE Done(Obey(e, r), s)
  <2> DEFINE g == Obey(e, r)
  <2>1. /\ g \in Registers
        /\ g.zone[ZoneByte(z)] = [mode |-> ModeByte(m), manual |-> Bit(manual),
                                  rpm |-> e.zone[ZoneByte(z)].rpm]
        /\ \A y \in Zones \ {z} : g.zone[ZoneByte(y)] = e.zone[ZoneByte(y)]
    BY <1>1, <1>4, PowerModeChanges
  <2> HIDE DEF g
  <2>2. ASSUME NEW y \in Zones, s = SetPowerMode(y, m, manual) PROVE Done(g, s)
    BY <1>3, <1>4, <2>1, <2>2
  <2>3. ASSUME NEW y \in Zones, s = SetFanRpm(y, n) PROVE Done(g, s)
    BY <1>3, <2>1, <2>3
  <2> QED
    BY <1>2, <2>2, <2>3 DEF g
<1>5. ASSUME NEW z \in Zones, r = SetFanRpm(z, n) PROVE Done(Obey(e, r), s)
  <2> DEFINE g == Obey(e, r)
  <2>1. /\ g \in Registers
        /\ g.zone[ZoneByte(z)] = [mode |-> e.zone[ZoneByte(z)].mode,
                                  manual |-> e.zone[ZoneByte(z)].manual, rpm |-> 100 * n]
        /\ \A y \in Zones \ {z} : g.zone[ZoneByte(y)] = e.zone[ZoneByte(y)]
    BY <1>1, <1>5, FanRpmChanges
  <2> HIDE DEF g
  <2>2. ASSUME NEW y \in Zones, s = SetPowerMode(y, m, manual) PROVE Done(g, s)
    BY <1>3, <2>1, <2>2
  <2>3. ASSUME NEW y \in Zones, s = SetFanRpm(y, n) PROVE Done(g, s)
    BY <1>3, <1>5, <2>1, <2>3
  <2> QED
    BY <1>2, <2>2, <2>3 DEF g
<1> QED
  BY <1>2, <1>4, <1>5

LEMMA SettingWritesApart ==
    ASSUME NEW e \in Registers, NEW st \in Applied,
           NEW r \in SettingWrites(st), NEW s \in SettingWrites(st), r # s, Done(e, s),
           s = ShowFrame => r \notin FrameRowRequests
    PROVE  Done(Obey(e, r), s)
<1> DEFINE g == Obey(e, r)
<1>1. r \in SettingRequests /\ s \in SettingRequests
  BY SettingWritesAre
<1>2. g \in Registers /\ \A cell \in Cells \ {Cell(r)} : g[cell] = e[cell]
  BY <1>1, SettingEffect
<1>3. s = ShowFrame => g.rows = e.rows
  BY <1>1, <1>2, CellsAre DEF Cells
<1>4. CASE Cell(r) # Cell(s)
  <2>1. g[Cell(s)] = e[Cell(s)]
    BY <1>1, <1>2, <1>4, CellsAre
  <2> HIDE DEF g
  <2>2. Done(g, s)
    BY <1>1, <1>2, <1>3, <2>1, DoneElsewhere
  <2> QED
    BY <2>2 DEF g
<1>5. ASSUME NEW i \in Rows, NEW j \in Rows, NEW colour \in Effects,
             i # j, r = FrameRow(i, colour), s = FrameRow(j, colour)
      PROVE  Done(g, s)
  <2>1. g = [e EXCEPT !.rows[i] = colour]
    BY <1>5, OtherEffects
  <2>2. g.rows[j] = e.rows[j]
    BY <1>5, <2>1 DEF Registers
  <2> HIDE DEF g
  <2> QED
    BY <1>2, <1>5, <2>2, FrameRowDone
<1> QED
  BY <1>4, <1>5, CellsApart

\* The only report of an apply that undoes another is a row of a frame after
\* the frame is shown.
LEMMA WritesApart ==
    ASSUME NEW e \in Registers, NEW st \in Applied,
           NEW r \in Writes(st), NEW s \in Writes(st), r # s, Done(e, s),
           s = ShowFrame => r \notin FrameRowRequests
    PROVE  Done(Obey(e, r), s)
<1>1. CASE r \in FanWrites(st) /\ s \in FanWrites(st)
  BY <1>1, FanWritesApart
<1>2. CASE r \in FanWrites(st) /\ s \in SettingWrites(st)
  BY <1>2, SettingsStay, FanWritesAre, SettingWritesAre
<1>3. CASE r \in SettingWrites(st) /\ s \in FanWrites(st)
  <2> DEFINE g == Obey(e, r)
  <2>1. g \in Registers /\ g.zone = e.zone
    BY <1>3, SettingEffect, SettingWritesAre
  <2> HIDE DEF g
  <2>2. \A z \in Zones, mode \in PerfMode, manual \in BOOLEAN :
            Done(e, SetPowerMode(z, mode, manual)) => Done(g, SetPowerMode(z, mode, manual))
    BY <2>1, FanDone
  <2>3. \A z \in Zones, n \in Speeds : Done(e, SetFanRpm(z, n)) => Done(g, SetFanRpm(z, n))
    BY <2>1, FanDone
  <2>4. \A z \in Zones : Done(g, GetFanRpm(z))
    BY <2>1, FanDone
  <2>5. Done(g, s)
    BY <1>3, <2>2, <2>3, <2>4, FanRequestIs, FanWritesAre
  <2> QED
    BY <2>5 DEF g
<1>4. CASE r \in SettingWrites(st) /\ s \in SettingWrites(st)
  BY <1>4, SettingWritesApart
<1> QED
  BY <1>1, <1>2, <1>3, <1>4 DEF Writes

-----------------------------------------------------------------------------
(* The reports of each call.                                                *)

LEMMA ElementsOf ==
    /\ \A s : Elements(<< >>) = {}
    /\ \A a : Elements(<<a>>) = {a}
    /\ \A a, b : Elements(<<a, b>>) = {a, b}
BY DEF Elements

LEMMA Concatenated ==
    ASSUME NEW s \in Seq(Wire), NEW t \in Seq(Wire)
    PROVE  /\ s \o t \in Seq(Wire) /\ Len(s \o t) = Len(s) + Len(t)
           /\ Elements(s \o t) = Elements(s) \cup Elements(t)
           /\ /\ Ordered(s) /\ Ordered(t)
              /\ ShowFrame \notin Elements(s) \/ Elements(t) \cap FrameRowRequests = {}
              => Ordered(s \o t)
<1> DEFINE u == s \o t
           m == Len(s)
           n == Len(t)
<1>1. /\ u \in Seq(Wire) /\ Len(u) = m + n /\ m \in Nat /\ n \in Nat
      /\ \A i \in 1..m + n : u[i] = IF i <= m THEN s[i] ELSE t[i - m]
  BY ConcatProperties
<1> HIDE DEF u, m, n
<1>2. Elements(u) = Elements(s) \cup Elements(t)
  <2>1. \A i \in 1..m : i \in 1..m + n /\ u[i] = s[i]
    BY <1>1
  <2>2. \A i \in 1..n : i + m \in 1..m + n /\ u[i + m] = t[i]
    BY <1>1
  <2>3. \A i \in 1..m + n : \/ i \in 1..m /\ u[i] = s[i]
                            \/ i - m \in 1..n /\ u[i] = t[i - m]
    BY <1>1
  <2>4. Elements(u) = {u[i] : i \in 1..m + n}
    BY <1>1 DEF Elements
  <2>5. Elements(s) = {s[i] : i \in 1..m} /\ Elements(t) = {t[i] : i \in 1..n}
    BY DEF Elements, m, n
  <2>6. ASSUME NEW i \in 1..m + n PROVE u[i] \in Elements(s) \cup Elements(t)
    BY <2>3, <2>5
  <2>7. Elements(s) \subseteq Elements(u)
    BY <2>1, <2>4, <2>5
  <2>8. Elements(t) \subseteq Elements(u)
    BY <2>2, <2>4, <2>5
  <2> QED
    BY <2>4, <2>6, <2>7, <2>8
<1>3. ASSUME Ordered(s), Ordered(t),
             ShowFrame \notin Elements(s) \/ Elements(t) \cap FrameRowRequests = {},
             NEW i \in 1..m + n, NEW j \in 1..m + n,
             u[i] = ShowFrame, u[j] \in FrameRowRequests
      PROVE  j < i
  <2>1. CASE i <= m /\ j <= m
    BY <1>1, <1>3, <2>1, SMTT(30) DEF Ordered, m
  <2>2. CASE i > m /\ j > m
    <3>1. i - m \in 1..n /\ j - m \in 1..n /\ u[i] = t[i - m] /\ u[j] = t[j - m]
      BY <1>1, <2>2
    <3>2. j - m < i - m
      BY <1>3, <3>1 DEF Ordered, n
    <3> QED
      BY <1>1, <3>2
  <2>3. CASE i > m /\ j <= m
    BY <1>1, <2>3
  <2>4. CASE i <= m /\ j > m
    <3>1. i \in 1..m /\ j - m \in 1..n /\ u[i] = s[i] /\ u[j] = t[j - m]
      BY <1>1, <2>4
    <3>2. ShowFrame \in Elements(s) /\ t[j - m] \in Elements(t) \cap FrameRowRequests
      BY <1>3, <3>1 DEF Elements, m, n
    <3> QED
      BY <1>3, <3>2
  <2> QED
    BY <1>1, <2>1, <2>2, <2>3, <2>4
<1> QED
  BY <1>1, <1>2, <1>3 DEF Ordered, u, m, n

LEMMA FrameIsApart ==
    /\ \A r \in FanRequests : r # ShowFrame /\ r \notin FrameRowRequests
    /\ ShowFrame \notin FrameRowRequests
    /\ \A boost : SetCpuBoost(boost) # ShowFrame /\ SetGpuBoost(boost) # ShowFrame
    /\ \A enabled, threshold : SetBho(enabled, threshold) # ShowFrame
    /\ \A value : SetBrightness(value) # ShowFrame
    /\ \A effect : SetLogoEffect(effect) # ShowFrame /\ SetKbdEffect(effect) # ShowFrame
    /\ \A on : SetLogoState(on) # ShowFrame
<1>1. \A r \in FanRequests : r.class = 13
  BY DEF FanRequests, SetPowerMode, SetFanRpm, GetFanRpm, Report
<1>2. ShowFrame.class = 3 /\ ShowFrame.id = 10 /\ ShowFrame.tid = 255
  BY DEF ShowFrame, FrameReport, Report, FrameTransaction
<1>3. \A r \in FrameRowRequests : r.class = 3 /\ r.id = 11
  <2>1. \A row, colour : FrameRow(row, colour).class = 3 /\ FrameRow(row, colour).id = 11
    BY DEF FrameRow, FrameReport, Report
  <2> QED
    BY <2>1 DEF FrameRowRequests
<1>4. \A boost : SetCpuBoost(boost) # ShowFrame /\ SetGpuBoost(boost) # ShowFrame
  BY <1>2 DEF SetCpuBoost, SetGpuBoost, Report
<1>5. \A enabled, threshold : SetBho(enabled, threshold) # ShowFrame
  BY <1>2 DEF SetBho, Report
<1>6. \A value : SetBrightness(value) # ShowFrame
  BY <1>2 DEF SetBrightness, Report
<1>7. \A x : SetLogoEffect(x) # ShowFrame /\ SetKbdEffect(x) # ShowFrame /\ SetLogoState(x) # ShowFrame
  BY <1>2 DEF SetLogoEffect, SetLogoState, SetKbdEffect, Report, Transaction
<1> QED
  BY <1>1, <1>2, <1>3, <1>4, <1>5, <1>6, <1>7

LEMMA ShortReports ==
    /\ << >> \in Seq(Wire) /\ Len(<< >>) = 0 /\ Ordered(<< >>)
    /\ \A a \in Wire : <<a>> \in Seq(Wire) /\ Ordered(<<a>>) /\ Len(<<a>>) = 1
    /\ \A a, b \in Wire : /\ <<a, b>> \in Seq(Wire) /\ Len(<<a, b>>) = 2
                          /\ a # ShowFrame => Ordered(<<a, b>>)
BY FrameIsApart DEF Ordered

LEMMA FanReportsAreWire ==
    /\ \A z \in Zones, mode \in PerfMode, manual \in BOOLEAN : SetPowerMode(z, mode, manual) \in Wire
    /\ \A z \in Zones, n \in Speeds : SetFanRpm(z, n) \in Wire
    /\ \A z \in Zones : GetFanRpm(z) \in Wire
BY DEF Wire, FanRequests

LEMMA ZoneReportsAre ==
    ASSUME NEW z \in Zones, NEW mode \in PerfMode, NEW manual \in BOOLEAN
    PROVE  /\ ZoneReports(z, mode, manual) \in Seq(Wire)
           /\ Len(ZoneReports(z, mode, manual)) \in Nat
           /\ ZoneReports(z, mode, TRUE) = <<SetPowerMode(z, mode, TRUE)>> \o <<SetFanRpm(z, MaxRpm \div 100)>>
           /\ ZoneReports(z, mode, FALSE) = <<SetPowerMode(z, mode, FALSE)>>
           /\ Elements(ZoneReports(z, mode, manual)) =
                  {SetPowerMode(z, mode, manual)}
                  \cup {SetFanRpm(y, MaxRpm \div 100) : y \in IF manual THEN {z} ELSE {}}
           /\ Elements(ZoneReports(z, mode, manual)) \subseteq FanRequests
           /\ Ordered(ZoneReports(z, mode, manual))
<1> DEFINE p == SetPowerMode(z, mode, manual)
           q == SetFanRpm(z, MaxRpm \div 100)
<1>1. p \in Wire /\ q \in Wire /\ p \in FanRequests /\ q \in FanRequests
  BY PowerOnSpeed DEF Wire, FanRequests
<1>2. ZoneReports(z, mode, TRUE) = <<SetPowerMode(z, mode, TRUE)>> \o <<SetFanRpm(z, MaxRpm \div 100)>>
  BY DEF ZoneReports
<1>3. <<SetPowerMode(z, mode, FALSE)>> \o << >> = <<SetPowerMode(z, mode, FALSE)>>
  BY FanReportsAreWire, ShortReports, ConcatEmptySeq
<1>4. ZoneReports(z, mode, FALSE) = <<SetPowerMode(z, mode, FALSE)>>
  BY <1>3 DEF ZoneReports
<1>5. CASE manual = TRUE
  <2>1. <<p>> \in Seq(Wire) /\ <<q>> \in Seq(Wire) /\ Ordered(<<p>>) /\ Ordered(<<q>>)
    BY <1>1, ShortReports
  <2>2. Elements(<<p>>) = {p} /\ Elements(<<q>>) = {q} /\ p # ShowFrame
    BY <1>1, ElementsOf, FrameIsApart
  <2>3. ZoneReports(z, mode, manual) = <<p>> \o <<q>>
    BY <1>2, <1>5
  <2> HIDE DEF p, q
  <2>4. Elements(ZoneReports(z, mode, manual)) = {p, q} /\ Ordered(ZoneReports(z, mode, manual))
    BY <2>1, <2>2, <2>3, Concatenated, SMTT(30)
  <2>5. ZoneReports(z, mode, manual) \in Seq(Wire) /\ Len(ZoneReports(z, mode, manual)) \in Nat
    BY <2>1, <2>3, Concatenated, LenProperties
  <2>6. {SetFanRpm(y, MaxRpm \div 100) : y \in IF manual THEN {z} ELSE {}} = {q}
    BY <1>5 DEF q
  <2> QED
    BY <1>1, <1>2, <1>4, <2>4, <2>5, <2>6 DEF p
<1>6. CASE manual = FALSE
  <2>1. ZoneReports(z, mode, manual) = <<p>> /\ <<p>> \in Seq(Wire) /\ Ordered(<<p>>) /\ Len(<<p>>) = 1
    BY <1>1, <1>4, <1>6, ShortReports
  <2>2. Elements(<<p>>) = {p}
    BY ElementsOf
  <2>3. {SetFanRpm(y, MaxRpm \div 100) : y \in IF manual THEN {z} ELSE {}} = {}
    BY <1>6
  <2> HIDE DEF p
  <2> QED
    BY <1>1, <1>2, <1>4, <2>1, <2>2, <2>3 DEF p
<1> QED
  BY <1>5, <1>6

LEMMA KeyboardReportsAre ==
    ASSUME NEW effect \in Effects
    PROVE  /\ KeyboardReports(effect) \in Seq(Wire)
           /\ Elements(KeyboardReports(effect)) = KeyboardWrites(effect)
           /\ Ordered(KeyboardReports(effect))
<1>1. CASE Pid = FramePid /\ effect \in StaticColours
  <2> DEFINE rows == [i \in 1..FrameRows |-> FrameRow(i, effect)]
  <2>1. \A i \in 1..FrameRows : FrameRow(i, effect) \in Wire \cap FrameRowRequests
    BY DEF Wire, SettingRequests, LightingRequests, Rows, FrameRowRequests
  <2>2. FrameRows \in Nat
    BY FrameAssumption
  <2>3. rows \in Seq(Wire) /\ Len(rows) = FrameRows
    BY <2>1, <2>2
  <2>4. Elements(rows) = {FrameRow(row, effect) : row \in Rows}
    BY <2>3 DEF Elements, Rows
  <2>5. ShowFrame \notin Elements(rows)
    BY <2>1, <2>4, FrameIsApart DEF Rows
  <2>6. Ordered(rows)
    BY <2>5 DEF Ordered, Elements
  <2>7. ShowFrame \in Wire
    BY DEF Wire, SettingRequests, LightingRequests
  <2>8. /\ <<ShowFrame>> \in Seq(Wire) /\ Ordered(<<ShowFrame>>)
        /\ Elements(<<ShowFrame>>) = {ShowFrame}
    BY <2>7, ShortReports, ElementsOf
  <2>9. KeyboardReports(effect) = rows \o <<ShowFrame>>
    BY <1>1 DEF KeyboardReports, StaticFrame
  <2>10. KeyboardWrites(effect) = Elements(rows) \cup {ShowFrame}
    BY <1>1, <2>4 DEF KeyboardWrites
  <2> HIDE DEF rows
  <2> QED
    BY <2>3, <2>5, <2>6, <2>8, <2>9, <2>10, Concatenated
<1>2. CASE ~(Pid = FramePid /\ effect \in StaticColours)
  <2>1. SetKbdEffect(effect) \in Wire
    BY <1>2 DEF Wire, SettingRequests, LightingRequests, Ignores
  <2>2. KeyboardReports(effect) = <<SetKbdEffect(effect)>> /\ KeyboardWrites(effect) = {SetKbdEffect(effect)}
    BY <1>2 DEF KeyboardReports, KeyboardWrites
  <2> QED
    BY <2>1, <2>2, ShortReports, ElementsOf
<1> QED
  BY <1>1, <1>2

LEMMA LogoReportsAre ==
    ASSUME NEW logo \in LogoMode
    PROVE  /\ LogoReports(logo) \in Seq(Wire)
           /\ Elements(LogoReports(logo)) = LogoWrites(logo)
           /\ ShowFrame \notin LogoWrites(logo) /\ LogoWrites(logo) \cap FrameRowRequests = {}
           /\ Ordered(LogoReports(logo))
<1> DEFINE x == SetLogoEffect(IF logo = "breathing" THEN 2 ELSE 0)
<1>1. SetLogoState(FALSE) \in Wire /\ SetLogoState(TRUE) \in Wire /\ x \in Wire
  <2>1. \A on \in BOOLEAN : SetLogoState(on) \in Wire
    BY DEF Wire, SettingRequests
  <2>2. SetLogoEffect(0) \in Wire /\ SetLogoEffect(2) \in Wire
    BY DEF Wire, SettingRequests
  <2> QED
    BY <2>1, <2>2
<1>2. /\ SetLogoState(TRUE) # ShowFrame /\ SetLogoState(TRUE) \notin FrameRowRequests
      /\ SetLogoState(FALSE) # ShowFrame /\ SetLogoState(FALSE) \notin FrameRowRequests
      /\ x # ShowFrame /\ x \notin FrameRowRequests
  <2>1. \A r \in FrameRowRequests : Cell(r) = "rows"
    BY CellOf DEF FrameRowRequests
  <2> QED
    BY <2>1, CellOf, FrameIsApart
<1>3. LogoReports(logo) = IF ~HasLogo THEN << >>
                          ELSE IF logo = "off" THEN <<SetLogoState(FALSE)>>
                          ELSE <<x, SetLogoState(TRUE)>>
  BY FeaturesAssumption DEF LogoReports, LogoMode
<1>4. LogoWrites(logo) = IF ~HasLogo THEN {}
                         ELSE IF logo = "off" THEN {SetLogoState(FALSE)}
                         ELSE {x, SetLogoState(TRUE)}
  BY DEF LogoWrites
<1> HIDE DEF x
<1>5. ShowFrame \notin LogoWrites(logo) /\ LogoWrites(logo) \cap FrameRowRequests = {}
  <2>1. LogoWrites(logo) \subseteq {x, SetLogoState(TRUE), SetLogoState(FALSE)}
    BY <1>4
  <2> QED
    BY <1>2, <2>1
<1>6. LogoReports(logo) \in Seq(Wire) /\ Ordered(LogoReports(logo))
  BY <1>1, <1>2, <1>3, ShortReports
<1>7. Elements(LogoReports(logo)) = LogoWrites(logo)
  BY <1>3, <1>4, ElementsOf, ZenonT(60)
<1> QED
  BY <1>5, <1>6, <1>7

\* An apply sends exactly its writes, and a frame after its rows.
LEMMA ApplyReportsAre ==
    ASSUME NEW st \in Applied
    PROVE  /\ ApplyReports(st) \in Seq(Wire) /\ ApplyReports(st) # << >>
           /\ Elements(ApplyReports(st)) = Writes(st)
           /\ Ordered(ApplyReports(st))
<1> DEFINE manual == st.fan # AutoFan
           b == EcBoosts(st)
           bright == SetBrightness(ByteOf(st.kbd_brightness))
           bho == SetBho(st.bho_enabled, st.bho_threshold)
           s1 == ZoneReports("fan1", st.perf_mode, manual)
           s2 == ZoneReports("fan2", st.perf_mode, manual)
           s3 == IF b = None THEN << >> ELSE <<SetCpuBoost(b[1]), SetGpuBoost(b[2])>>
           s4 == IF HasBho THEN <<bho>> ELSE << >>
           s5 == <<bright>>
           s6 == KeyboardReports(st.kbd_effect)
           s7 == LogoReports(st.logo_led)
           u2 == s1 \o s2
           u3 == u2 \o s3
           u4 == u3 \o s4
           u5 == u4 \o s5
           u6 == u5 \o s6
           u7 == u6 \o s7
<1>1. ApplyReports(st) = u7
  BY DEF ApplyReports
<1>2. "fan1" \in Zones /\ "fan2" \in Zones /\ Zones = {"fan1", "fan2"}
      /\ st.perf_mode \in PerfMode /\ manual \in BOOLEAN
  BY AppliedIs DEF Zones
<1>3. /\ s1 \in Seq(Wire) /\ s2 \in Seq(Wire) /\ Ordered(s1) /\ Ordered(s2)
      /\ Elements(s1) \subseteq FanRequests /\ Elements(s2) \subseteq FanRequests
      /\ Elements(s1) \cup Elements(s2) = FanWrites(st)
  <2>1. /\ Elements(s1) = {SetPowerMode("fan1", st.perf_mode, manual)}
               \cup {SetFanRpm(y, MaxRpm \div 100) : y \in IF manual THEN {"fan1"} ELSE {}}
        /\ Elements(s2) = {SetPowerMode("fan2", st.perf_mode, manual)}
               \cup {SetFanRpm(y, MaxRpm \div 100) : y \in IF manual THEN {"fan2"} ELSE {}}
    BY <1>2, ZoneReportsAre
  <2>2. Elements(s1) \cup Elements(s2) = FanWrites(st)
    BY <1>2, <2>1 DEF FanWrites
  <2>3. /\ s1 \in Seq(Wire) /\ s2 \in Seq(Wire) /\ Ordered(s1) /\ Ordered(s2)
        /\ Elements(s1) \subseteq FanRequests /\ Elements(s2) \subseteq FanRequests
    BY <1>2, ZoneReportsAre
  <2> QED
    BY <2>2, <2>3
<1>4. SettingWrites(st) \subseteq Wire
  BY SettingWritesAre DEF Wire
<1>5. /\ s3 \in Seq(Wire) /\ Ordered(s3) /\ ShowFrame \notin Elements(s3)
      /\ Elements(s3) = IF b = None THEN {} ELSE {SetCpuBoost(b[1]), SetGpuBoost(b[2])}
  <2>1. CASE b = None
    BY <2>1, ShortReports, ElementsOf
  <2>2. CASE b # None
    <3>1. SetCpuBoost(b[1]) \in Wire /\ SetGpuBoost(b[2]) \in Wire
      BY <1>4, <2>2 DEF SettingWrites
    <3>2. SetCpuBoost(b[1]) # ShowFrame /\ SetGpuBoost(b[2]) # ShowFrame
      BY FrameIsApart
    <3>3. s3 = <<SetCpuBoost(b[1]), SetGpuBoost(b[2])>>
      BY <2>2
    <3> HIDE DEF s3, b
    <3> QED
      BY <2>2, <3>1, <3>2, <3>3, ShortReports, ElementsOf
  <2> QED
    BY <2>1, <2>2
<1>6. /\ s4 \in Seq(Wire) /\ Ordered(s4) /\ ShowFrame \notin Elements(s4)
      /\ Elements(s4) = IF HasBho THEN {bho} ELSE {}
  <2>1. CASE ~HasBho
    BY <2>1, ShortReports, ElementsOf
  <2>2. CASE HasBho
    <3>1. bho \in Wire /\ bho # ShowFrame
      BY <1>4, <2>2, FrameIsApart DEF SettingWrites
    <3>2. s4 = <<bho>>
      BY <2>2
    <3> HIDE DEF s4, bho
    <3> QED
      BY <2>2, <3>1, <3>2, ShortReports, ElementsOf
  <2> QED
    BY <2>1, <2>2
<1>7. s5 \in Seq(Wire) /\ Ordered(s5) /\ Elements(s5) = {bright} /\ bright # ShowFrame /\ Len(s5) = 1
  <2>1. bright \in Wire /\ bright # ShowFrame
    BY <1>4, FrameIsApart DEF SettingWrites
  <2> HIDE DEF bright
  <2> QED
    BY <2>1, ShortReports, ElementsOf
<1>8. /\ s6 \in Seq(Wire) /\ Ordered(s6) /\ Elements(s6) = KeyboardWrites(st.kbd_effect)
      /\ s7 \in Seq(Wire) /\ Ordered(s7) /\ Elements(s7) = LogoWrites(st.logo_led)
      /\ Elements(s7) \cap FrameRowRequests = {}
  BY AppliedIs, KeyboardReportsAre, LogoReportsAre
<1>9. SettingWrites(st) = Elements(s3) \cup Elements(s4) \cup {bright} \cup Elements(s6) \cup Elements(s7)
  BY <1>5, <1>6, <1>8 DEF SettingWrites
<1> HIDE DEF s1, s2, s3, s4, s5, s6, s7, bright, bho, b
<1>10. /\ u2 \in Seq(Wire) /\ Ordered(u2) /\ Elements(u2) = FanWrites(st)
       /\ ShowFrame \notin Elements(u2)
  BY <1>3, Concatenated, FrameIsApart
<1> HIDE DEF u2
<1>11. /\ u3 \in Seq(Wire) /\ Ordered(u3) /\ Elements(u3) = FanWrites(st) \cup Elements(s3)
       /\ ShowFrame \notin Elements(u3)
  BY <1>5, <1>10, Concatenated
<1> HIDE DEF u3
<1>12. /\ u4 \in Seq(Wire) /\ Ordered(u4) /\ ShowFrame \notin Elements(u4)
       /\ Elements(u4) = FanWrites(st) \cup Elements(s3) \cup Elements(s4)
  BY <1>6, <1>11, Concatenated
<1> HIDE DEF u4
<1>13. /\ u5 \in Seq(Wire) /\ Ordered(u5) /\ ShowFrame \notin Elements(u5)
       /\ Elements(u5) = FanWrites(st) \cup Elements(s3) \cup Elements(s4) \cup {bright}
  BY <1>7, <1>12, Concatenated
<1> HIDE DEF u5
<1>14. /\ u6 \in Seq(Wire) /\ Ordered(u6)
       /\ Elements(u6) = FanWrites(st) \cup Elements(s3) \cup Elements(s4) \cup {bright} \cup Elements(s6)
  BY <1>8, <1>13, Concatenated
<1> HIDE DEF u6
<1>15. /\ u7 \in Seq(Wire) /\ Ordered(u7)
       /\ Elements(u7) = FanWrites(st) \cup Elements(s3) \cup Elements(s4) \cup {bright}
                         \cup Elements(s6) \cup Elements(s7)
  BY <1>8, <1>14, Concatenated
<1> HIDE DEF u7
<1>16. Elements(u7) = Writes(st)
  BY <1>9, <1>15 DEF Writes
<1>17. u7 # << >>
  BY <1>15, ElementsOf
<1> QED
  BY <1>1, <1>15, <1>16, <1>17

LEMMA RestoreReportsAre ==
    ASSUME NEW mode \in PerfMode
    PROVE  RestoreReports(mode) = <<SetPowerMode("fan1", mode, FALSE), SetPowerMode("fan2", mode, FALSE)>>
<1>1. "fan1" \in Zones /\ "fan2" \in Zones
  BY DEF Zones
<1>2. /\ ZoneReports("fan1", mode, FALSE) = <<SetPowerMode("fan1", mode, FALSE)>>
      /\ ZoneReports("fan2", mode, FALSE) = <<SetPowerMode("fan2", mode, FALSE)>>
  BY <1>1, ZoneReportsAre
<1>3. ASSUME NEW a \in Wire, NEW b \in Wire PROVE <<a>> \o <<b>> = <<a, b>>
  <2> DEFINE s == <<a>> \o <<b>>
  <2>1. <<a>> \in Seq(Wire) /\ <<b>> \in Seq(Wire) /\ Len(<<a>>) = 1 /\ Len(<<b>>) = 1
    BY ShortReports
  <2>2. s \in Seq(Wire) /\ Len(s) = 2 /\ s[1] = <<a>>[1] /\ s[2] = <<b>>[1]
    BY <2>1, ConcatProperties
  <2>3. <<a, b>> \in Seq(Wire) /\ Len(<<a, b>>) = 2
    BY ShortReports
  <2> HIDE DEF s
  <2>4. \A i \in 1..2 : s[i] = <<a, b>>[i]
    BY <2>2
  <2>5. s = <<a, b>>
    BY <2>2, <2>3, <2>4, SeqEqual
  <2> QED
    BY <2>5 DEF s
<1>4. SetPowerMode("fan1", mode, FALSE) \in Wire /\ SetPowerMode("fan2", mode, FALSE) \in Wire
  BY <1>1, FanReportsAreWire
<1> QED
  BY <1>2, <1>3, <1>4 DEF RestoreReports

LEMMA TargetSpeed ==
    ASSUME NEW rpm \in Targets
    PROVE  /\ (Clamp(rpm, MinRpm, MaxRpm) \div 100) % 256 \in Speeds
           /\ 100 * ((Clamp(rpm, MinRpm, MaxRpm) \div 100) % 256) = rpm
           /\ rpm \in Nat
<1>1. rpm \in MinRpm..MaxRpm /\ rpm % 100 = 0 /\ MinRpm \in Nat /\ MaxRpm \in Nat
  BY InputAssumption, FanLimitsAssumption
<1>2. Clamp(rpm, MinRpm, MaxRpm) = rpm
  BY <1>1 DEF Clamp
<1>3. rpm \div 100 \in 0..255
  BY <1>1, PowerOnSpeed, FanLimitsAssumption DEF Speeds
<1> QED
  BY <1>1, <1>2, <1>3 DEF Speeds

-----------------------------------------------------------------------------
(* The invariant is inductive.                                              *)

SessionInv ==
    /\ SessionType /\ Talk /\ Harmless /\ CallInv
    /\ BeforeInv /\ SettingsInv /\ FrameInv

LEMMA WireIsRequests == Wire \subseteq Requests
<1>1. FanRequests \subseteq Requests
  <2>1. ASSUME NEW r \in FanRequests PROVE r \in Requests
    <3>1. PICK z \in Zones : \/ \E mode \in PerfMode, manual \in BOOLEAN : r = SetPowerMode(z, mode, manual)
                             \/ \E n \in Speeds : r = SetFanRpm(z, n)
                             \/ r = GetFanRpm(z)
      BY FanRequestIs
    <3>2. "silent" \in PerfMode /\ TRUE \in BOOLEAN /\ 0 \in Speeds
      BY DEF PerfMode, Speeds
    <3>3. CASE \E mode \in PerfMode, manual \in BOOLEAN : r = SetPowerMode(z, mode, manual)
      BY <3>2, <3>3, FanReports
    <3>4. CASE \E n \in Speeds : r = SetFanRpm(z, n)
      BY <3>2, <3>4, FanReports
    <3>5. CASE r = GetFanRpm(z)
      BY <3>2, <3>5, FanReports
    <3> QED
      BY <3>1, <3>3, <3>4, <3>5
  <2> QED
    BY <2>1
<1>2. \A a \in Nat, b \in Nat, c \in Nat : <<a>> \in Seq(Nat) /\ <<a, b>> \in Seq(Nat) /\ <<a, b, c>> \in Seq(Nat)
  OBVIOUS
<1>3. \A class \in Nat, id \in Nat, a \in Nat, b \in Nat, c \in Nat :
          /\ Report(class, id, <<a, b, c>>) \in Requests
          /\ Report(class, id, <<a>>) \in Requests /\ Report(class, id, <<a, b>>) \in Requests
  BY <1>2, ReportKind
<1>a. \A q \in Requests, n \in Nat : [q EXCEPT !.size = n] \in Requests /\ [q EXCEPT !.tid = n] \in Requests
  BY DEF Requests
<1>4. \A boost \in Boost : SetCpuBoost(boost) \in Requests /\ SetGpuBoost(boost) \in Requests
  BY <1>3, Bytes DEF SetCpuBoost, SetGpuBoost
<1>5. \A enabled \in BOOLEAN, threshold \in Nat : SetBho(enabled, threshold) \in Requests
  BY <1>3, WireBytes DEF SetBho
<1>6. \A value \in Nat : SetBrightness(value) \in Requests
  BY <1>3 DEF SetBrightness
<1>7. \A effect \in {0, 2} : SetLogoEffect(effect) \in Requests
  BY <1>3 DEF SetLogoEffect
<1>8. \A on \in BOOLEAN : SetLogoState(on) \in Requests
  BY <1>3, Bytes DEF SetLogoState
<1>9. \A effect \in Effects : SetKbdEffect(effect) \in Requests
  BY <1>3, <1>a, WireBytes DEF SetKbdEffect
<1>10. \A row \in Rows, colour \in Effects : FrameRow(row, colour) \in Requests
  <2>1. ASSUME NEW row \in Rows, NEW colour \in Effects
        PROVE  <<255, row, colour>> \in Seq(Nat)
    BY <1>2, WireBytes, FrameAssumption DEF Rows
  <2> QED
    BY <2>1 DEF FrameRow, FrameReport, FrameTransaction, Requests
<1>11. ShowFrame \in Requests
  BY <1>2 DEF ShowFrame, FrameReport, FrameTransaction, Requests
<1>12. SettingRequests \subseteq Requests
  BY <1>4, <1>5, <1>6, <1>7, <1>8, <1>9, <1>10, <1>11 DEF SettingRequests, LightingRequests
<1> QED
  BY <1>1, <1>12 DEF Wire

LEMMA NoneIsNothing ==
    /\ None \notin Wire /\ None \notin BackendCalls /\ None \notin Applied
    /\ None \notin [to : Wire, status : {"success", "failure", "busy"}]
<1>1. [to : Wire, status : {"success", "failure", "busy"}] \subseteq Responses
  BY WireIsRequests DEF Responses
<1> QED
  BY <1>1, WireIsRequests, NothingAssumption, InputAssumption

LEMMA CallIs ==
    ASSUME NEW c \in BackendCalls
    PROVE  /\ c.op \in {"apply", "restore", "recover", "target", "sample"}
           /\ c.op = "apply" => c.st \in Applied /\ c.st.perf_mode \in PerfMode
           /\ c.op \in {"restore", "recover"} => c.mode \in PerfMode
           /\ c.op = "target" => c.rpm \in Targets
<1>1. \A st \in Applied : st.perf_mode \in PerfMode
  BY AppliedIs
<1> QED
  BY <1>1 DEF BackendCalls

Uniform(colours) == \A i, j \in Rows : colours[i] = colours[j]

LEMMA FrameStays ==
    ASSUME NEW e \in Registers, NEW r \in Wire, Uniform(e.shown), r = ShowFrame => Uniform(e.rows)
    PROVE  Uniform(Obey(e, r).shown)
<1>1. CASE r \in FanRequests
  BY <1>1, FanEffect DEF SameSettings
<1>2. CASE r = ShowFrame
  <2>1. Obey(e, r).shown = e.rows
    BY <1>2, OtherEffects DEF Registers
  <2> QED
    BY <1>2, <2>1
<1>3. ASSUME NEW effect \in Effects, ~Ignores(effect), r = SetKbdEffect(effect)
      PROVE  Uniform(Obey(e, r).shown)
  <2>1. Obey(e, r).shown = [i \in Rows |-> effect]
    BY <1>3, OtherEffects DEF Registers
  <2> QED
    BY <2>1 DEF Uniform
<1>4. CASE r \in SettingRequests /\ Cell(r) # "shown"
  <2>1. Obey(e, r)["shown"] = e["shown"]
    BY <1>4, SettingEffect DEF Cells
  <2> QED
    BY <2>1
<1>5. r \in SettingRequests /\ Cell(r) = "shown" =>
          r = ShowFrame \/ \E effect \in Effects : ~Ignores(effect) /\ r = SetKbdEffect(effect)
  BY CellOf, SettingRequestIs
<1> QED
  BY <1>1, <1>2, <1>3, <1>4, <1>5 DEF Wire

\* The register of a zone the daemon vouches for moves only under the report
\* that is being sent.
LEMMA ZoneStays ==
    ASSUME SessionType, Harmless, slot # None, NEW z \in vouched,
           call # None /\ slot = todo[1] => ~Rezones(slot, z)
    PROVE  Obey(ec, slot).zone[ZoneByte(z)] = ec.zone[ZoneByte(z)]
<1>1. z \in Zones /\ ec \in Registers /\ slot \in Wire
  BY DEF SessionType
<1>2. CASE ~Rezones(slot, z)
  BY <1>1, <1>2, WireEffect
<1>3. CASE Rezones(slot, z)
  BY <1>3 DEF Harmless, Done
<1> QED
  BY <1>2, <1>3

LEMMA HeldIs ==
    ASSUME NEW z \in Zones, ec'.zone[ZoneByte(z)] = ec.zone[ZoneByte(z)]
    PROVE  ZoneHeld(z)' = ZoneHeld(z)
BY DEF ZoneHeld

LEMMA ResetStays ==
    ASSUME SessionType, Harmless, RestoreInv, Calling({"restore", "recover"}), slot # None,
           NEW z \in vouched, Done(ec, Reset(z))
    PROVE  Done(Obey(ec, slot), Reset(z))
<1>1. z \in Zones /\ ec \in Registers /\ slot \in Wire /\ Obey(ec, slot) \in Registers
  BY WireEffect DEF SessionType
<1>2. call.mode \in PerfMode
  BY CallIs DEF SessionType, Calling
<1>3. CASE call # None /\ slot = todo[1] /\ Rezones(slot, z)
  <2>1. slot = Reset("fan1") \/ slot = Reset("fan2")
    BY <1>3 DEF RestoreInv
  <2>2. slot = Reset(z)
    BY <1>1, <1>3, <2>1, ZoneOfReport DEF Reset, Zones
  <2> QED
    BY <2>2 DEF Done
<1>4. CASE ~(call # None /\ slot = todo[1] /\ Rezones(slot, z))
  <2>1. Obey(ec, slot).zone[ZoneByte(z)] = ec.zone[ZoneByte(z)]
    BY <1>4, ZoneStays
  <2>2. \A e \in Registers : Done(e, Reset(z)) <=>
            e.zone[ZoneByte(z)].mode = ModeByte(call.mode) /\ e.zone[ZoneByte(z)].manual = Bit(FALSE)
    BY <1>1, <1>2, FanDone DEF Reset
  <2> QED
    BY <1>1, <2>1, <2>2
<1> QED
  BY <1>3, <1>4

\* A report that is dealt with, in time or late.
LEMMA ProcessKeeps ==
    ASSUME SessionInv, ~StaleAnswers, Process
    PROVE  SessionInv' /\ (call = None => Backend' = Backend)
<1> USE DEF Process
<1>1. /\ ec \in Registers /\ slot \in Wire /\ slot # None /\ ec' = Obey(ec, slot) /\ slot' = None
      /\ UNCHANGED <<live, call, todo, sent, attempt, failed, vouched, settled, before, ok, misled>>
      /\ answer' = IF sent THEN [to |-> slot, status |-> "success"] ELSE None
  BY DEF SessionInv, SessionType, progress, beliefs, Answers
<1>2. ec' \in Registers /\ Done(ec', slot)
  BY <1>1, WireEffect
<1> USE DEF SessionInv
<1>3. SessionType'
  BY <1>1, <1>2 DEF SessionType
<1>4. Talk'
  BY <1>1, <1>2 DEF Talk
<1>5. Harmless'
  BY <1>1, WireEffect DEF Harmless, SessionType
<1>6. \A z \in Zones : ~Rezones(slot, z) => ec'.zone[ZoneByte(z)] = ec.zone[ZoneByte(z)]
  BY <1>1, WireEffect
<1>7. ApplyInv'
  <2> SUFFICES ASSUME Calling({"apply"}), NEW r \in Writes(call.st) \ Elements(todo)
               PROVE  Done(ec', r)
    BY <1>1 DEF CallInv, ApplyInv, Calling
  <2>1. Done(ec, r) /\ (slot = todo[1] \/ Done(ec, slot)) /\ Elements(todo) \subseteq Writes(call.st)
    BY <1>1 DEF CallInv, ApplyInv
  <2>2. CASE Done(ec, slot)
    BY <1>1, <2>1, <2>2 DEF Done
  <2>3. CASE slot = todo[1]
    <3>1. todo \in Seq(Wire) /\ todo # << >> /\ call.st \in Applied
      BY CallIs DEF SessionType, Talk, Calling
    <3>2. slot \in Elements(todo)
      BY <2>3, <3>1 DEF Elements
    <3>3. r = ShowFrame => slot \notin FrameRowRequests
      BY <3>2 DEF CallInv, ApplyInv
    <3> QED
      BY <1>1, <2>1, <3>1, <3>2, <3>3, WritesApart
  <2> QED
    BY <2>1, <2>2, <2>3
<1>8. RestoreInv' /\ RestoreOnlyInv' /\ RecoverInv'
  <2> SUFFICES ASSUME Calling({"restore", "recover"})
               PROVE  RestoreInv' /\ RestoreOnlyInv' /\ RecoverInv'
    BY <1>1 DEF RestoreInv, RestoreOnlyInv, RecoverInv, Calling
  <2>1. \A z \in vouched : Done(ec, Reset(z)) => Done(ec', Reset(z))
    BY <1>1, ResetStays DEF CallInv
  <2>2. Reset("fan1")' = Reset("fan1") /\ Reset("fan2")' = Reset("fan2")
    BY <1>1 DEF Reset
  <2>3. RestoreInv'
    BY <1>1, <2>1, <2>2 DEF CallInv, RestoreInv, Calling
  <2>4. RestoreOnlyInv'
    BY <1>1, <2>1, <2>2 DEF CallInv, RestoreOnlyInv, Calling, Kept, SettingsNow
  <2>5. RecoverInv'
    BY <1>1 DEF CallInv, RecoverInv, Calling
  <2> QED
    BY <2>3, <2>4, <2>5
<1>9. TargetInv'
  <2> SUFFICES ASSUME Calling({"target"})
               PROVE  TargetInv'
    BY <1>1 DEF TargetInv, Calling
  <2> DEFINE n == (Clamp(call.rpm, MinRpm, MaxRpm) \div 100) % 256
  <2>1. TargetInv /\ n \in Speeds /\ (\A z : Speed(z) = SetFanRpm(z, n)) /\ call # None
    BY CallIs, TargetSpeed DEF CallInv, SessionType, Calling, Speed
  <2> HIDE DEF n
  <2>2. ASSUME NEW z \in Zones
        PROVE  /\ ec'.zone[ZoneByte(z)].mode = ec.zone[ZoneByte(z)].mode
               /\ ec'.zone[ZoneByte(z)].manual = ec.zone[ZoneByte(z)].manual
               /\ slot # todo[1] \/ ~Rezones(slot, z) =>
                      ec'.zone[ZoneByte(z)] = ec.zone[ZoneByte(z)]
    <3>1. z \in vouched
      BY <2>1 DEF TargetInv
    <3>2. CASE slot # todo[1] \/ ~Rezones(slot, z)
      BY <1>1, <3>1, <3>2, ZoneStays
    <3>3. CASE slot = todo[1] /\ Rezones(slot, z)
      <4>1. slot = SetFanRpm("fan1", n) \/ slot = SetFanRpm("fan2", n)
        BY <2>1, <3>3 DEF TargetInv
      <4>2. slot = SetFanRpm(z, n)
        BY <3>3, <4>1, ZoneOfReport DEF Zones
      <4>3. ec'.zone[ZoneByte(z)] = [mode |-> ec.zone[ZoneByte(z)].mode,
                                     manual |-> ec.zone[ZoneByte(z)].manual, rpm |-> 100 * n]
        BY <1>1, <2>1, <4>2, FanRpmChanges
      <4> QED
        BY <3>3, <4>3
    <3> QED
      BY <3>2, <3>3
  <2>3. Len(todo) = 1 => Done(ec', SetFanRpm("fan1", n))
    <3> SUFFICES ASSUME Len(todo) = 1 PROVE Done(ec', SetFanRpm("fan1", n))
      OBVIOUS
    <3>1. todo[1] = SetFanRpm("fan2", n) /\ Done(ec, SetFanRpm("fan1", n)) /\ "fan1" \in Zones /\ "fan2" \in Zones
      BY <2>1 DEF TargetInv, Zones
    <3>2. slot # todo[1] \/ ~Rezones(slot, "fan1")
      BY <3>1, ZoneOfReport
    <3>3. ec'.zone[ZoneByte("fan1")] = ec.zone[ZoneByte("fan1")]
      BY <2>2, <3>1, <3>2
    <3> QED
      BY <1>1, <1>2, <2>1, <3>1, <3>3, FanDone
  <2>4. \A z \in Zones : ZoneHeld(z)'.mode = ZoneHeld(z).mode
    BY <2>2 DEF ZoneHeld
  <2>5. \A z : Speed(z)' = Speed(z)
    BY <1>1 DEF Speed
  <2>6. SettingsNow' = SettingsNow
    BY <1>1 DEF SettingsNow
  <2> QED
    BY <1>1, <2>1, <2>2, <2>3, <2>4, <2>5, <2>6 DEF TargetInv
<1>10. Backend' = Backend \/ Calling({"restore", "recover", "target", "apply"})
  <2> SUFFICES ASSUME ~Calling({"restore", "recover", "target", "apply"})
               PROVE  Backend' = Backend
    OBVIOUS
  <2>1. call # None => call.op = "sample"
    BY CallIs DEF SessionType, Calling
  <2>2. ASSUME NEW z \in vouched PROVE ZoneHeld(z)' = ZoneHeld(z)
    <3>1. z \in Zones /\ "fan1" \in Zones /\ "fan2" \in Zones
      BY DEF SessionType, Zones
    <3>2. call # None /\ slot = todo[1] => ~Rezones(slot, z)
      BY <2>1, <3>1, ZoneOfReport DEF CallInv, SampleInv, Calling
    <3> QED
      BY <1>1, <3>1, <3>2, ZoneStays, HeldIs
  <2> QED
    BY <1>1, <2>2 DEF Backend
<1>11. SampleInv'
  BY <1>1, <1>10 DEF CallInv, SampleInv, Calling
<1>12. BeforeInv'
  BY <1>1 DEF BeforeInv
<1>13. SettingsInv'
  <2> SUFFICES ASSUME settled # None, ~Calling({"apply"}), NEW r \in SettingWrites(settled)
               PROVE  Done(ec', r)
    <3>1. slot' \notin SettingRequests
      BY <1>1, NoneIsNothing DEF Wire
    <3> QED
      BY <1>1, <3>1 DEF SettingsInv, Calling
  <2>1. Done(ec, r) /\ r \in SettingRequests /\ (slot \in SettingRequests => Done(ec, slot))
    BY SettingWritesAre DEF SettingsInv, SessionType
  <2>2. CASE slot \in SettingRequests
    BY <1>1, <2>1, <2>2 DEF Done
  <2>3. CASE slot \in FanRequests
    BY <1>1, <2>1, <2>3, SettingsStay
  <2> QED
    BY <1>1, <2>2, <2>3 DEF Wire
<1>14. FrameInv'
  BY <1>1, FrameStays, NoneIsNothing DEF FrameInv, FramesAreWhole, Uniform, Wire, SettingRequests, LightingRequests
<1> QED
  BY <1>3, <1>4, <1>5, <1>7, <1>8, <1>9, <1>10, <1>11, <1>12, <1>13, <1>14 DEF CallInv, Calling

LEMMA FanIsNoSetting == FanRequests \cap SettingRequests = {}
<1>1. \A r \in FanRequests : r.class = 13 /\ r.id # 7
  BY DEF FanRequests, SetPowerMode, SetFanRpm, GetFanRpm, Report
<1>2. ASSUME NEW r \in SettingRequests, r.class = 13 PROVE r.id = 7
  <2>1. \A row, colour : FrameRow(row, colour).class = 3
    BY DEF FrameRow, FrameReport
  <2>2. \A effect : SetKbdEffect(effect).class = 3
    BY DEF SetKbdEffect, Report
  <2>3. r # ShowFrame
    BY <1>2 DEF ShowFrame, FrameReport
  <2>4. \A x, y : /\ SetLogoEffect(x).class = 3 /\ SetLogoState(x).class = 3
                  /\ SetBrightness(x).class = 3 /\ SetBho(x, y).class = 7
                  /\ SetCpuBoost(x).id = 7 /\ SetGpuBoost(x).id = 7
    BY DEF SetLogoEffect, SetLogoState, SetBrightness, SetBho, SetCpuBoost, SetGpuBoost, Report
  <2> QED
    BY <1>2, <2>1, <2>2, <2>3, <2>4, SettingRequestIs
<1> QED
  BY <1>1, <1>2

\* Only an apply has reports that are not about the fans.
LEMMA NextReport ==
    ASSUME SessionInv, call # None
    PROVE  /\ todo \in Seq(Wire) /\ todo # << >> /\ todo[1] \in Wire /\ todo[1] \in Elements(todo)
           /\ call.op = "apply" => todo[1] \in Writes(call.st)
           /\ call.op # "apply" => todo[1] \in FanRequests
<1> USE DEF SessionInv, CallInv
<1>1. todo \in Seq(Wire) /\ todo # << >> /\ todo[1] \in Wire /\ todo[1] \in Elements(todo)
  BY DEF SessionType, Talk, Elements
<1>2. CASE call.op = "apply"
  BY <1>1, <1>2 DEF ApplyInv, Calling
<1>3. CASE call.op \in {"restore", "recover"}
  <2>1. todo[1] \in {Reset("fan1"), Reset("fan2")}
    BY <1>3 DEF RestoreInv, Calling
  <2>2. call.mode \in PerfMode /\ "fan1" \in Zones /\ "fan2" \in Zones
    BY <1>3, CallIs DEF SessionType, Zones
  <2>3. \A z \in Zones : SetPowerMode(z, call.mode, FALSE) \in FanRequests
    <3>1. \A z \in Zones, mode \in PerfMode, manual \in BOOLEAN :
              SetPowerMode(z, mode, manual) \in FanRequests
      BY DEF FanRequests
    <3> QED
      BY <2>2, <3>1
  <2> QED
    BY <1>1, <1>3, <2>1, <2>2, <2>3 DEF Reset
<1>4. CASE call.op = "target"
  <2>1. todo[1] \in {Speed("fan1"), Speed("fan2")}
    BY <1>4 DEF TargetInv, Calling
  <2>2. call.rpm \in Targets /\ "fan1" \in Zones /\ "fan2" \in Zones
    BY <1>4, CallIs DEF SessionType, Zones
  <2>3. \A z \in Zones, n \in Speeds : SetFanRpm(z, n) \in FanRequests
    BY DEF FanRequests
  <2> QED
    BY <1>1, <1>4, <2>1, <2>2, <2>3, TargetSpeed DEF Speed
<1>5. CASE call.op = "sample"
  <2>1. todo[1] \in {GetFanRpm("fan1"), GetFanRpm("fan2")}
    BY <1>5 DEF SampleInv, Calling
  <2> QED
    BY <1>1, <1>5, <2>1 DEF FanRequests, Zones
<1> QED
  BY <1>1, <1>2, <1>3, <1>4, <1>5, CallIs DEF SessionType

\* A frame is shown only when its rows are what they should be.
LEMMA RowsAreReady ==
    ASSUME SessionInv, call # None, todo[1] = ShowFrame
    PROVE  Uniform(ec.rows)
<1> USE DEF SessionInv, CallInv
<1>1. call.op = "apply"
  BY NextReport, FrameIsApart
<1>2. call.st \in Applied /\ ec \in Registers
  BY <1>1, CallIs DEF SessionType
<1>3. Elements(todo) \cap FrameRowRequests = {}
  <2>1. \A j \in 1..Len(todo) : todo[j] \in FrameRowRequests => j < 1
    BY <1>1, NextReport, LenProperties DEF ApplyInv, Ordered, Calling
  <2> QED
    BY <2>1 DEF Elements
<1>4. Pid = FramePid /\ call.st.kbd_effect \in StaticColours
  <2>1. ShowFrame \in SettingWrites(call.st)
    BY <1>1, <1>2, NextReport, FanWritesAre, FrameIsApart DEF Writes
  <2>2. ShowFrame \in KeyboardWrites(call.st.kbd_effect)
    BY <1>2, <2>1, AppliedIs, LogoReportsAre, FrameIsApart DEF SettingWrites
  <2> QED
    BY <2>2, FrameIsApart DEF KeyboardWrites
<1> DEFINE colour == call.st.kbd_effect
<1>5. \A row \in Rows : FrameRow(row, colour) \in Writes(call.st) \ Elements(todo)
  <2>1. \A row \in Rows : FrameRow(row, colour) \in Writes(call.st)
    BY <1>4 DEF Writes, SettingWrites, KeyboardWrites
  <2>2. \A row \in Rows : FrameRow(row, colour) \in FrameRowRequests
    BY <1>2, AppliedIs DEF FrameRowRequests
  <2> QED
    BY <1>3, <2>1, <2>2
<1>6. \A row \in Rows : Done(ec, FrameRow(row, colour))
  BY <1>1, <1>5 DEF ApplyInv, Calling
<1>7. \A row \in Rows : ec.rows[row] = colour
  BY <1>2, <1>6, AppliedIs, FrameRowDone
<1> QED
  BY <1>7 DEF Uniform

\* Nothing moves but what the controller has to deal with.
LEMMA OnlyTheSlot ==
    ASSUME SessionInv,
           UNCHANGED <<ec, live, call, todo, failed, vouched, settled, before>>,
           slot' \in {slot, None} \/ (call # None /\ slot' = todo[1])
    PROVE  Harmless' /\ CallInv' /\ BeforeInv' /\ SettingsInv' /\ FrameInv' /\ Backend' = Backend
<1> USE DEF SessionInv, CallInv
<1>1. Harmless'
  BY DEF Harmless
<1>2. ApplyInv'
  BY DEF ApplyInv, Calling
<1>3. RestoreInv' /\ RestoreOnlyInv' /\ RecoverInv'
  BY DEF RestoreInv, RestoreOnlyInv, RecoverInv, Calling, Reset, Kept, SettingsNow
<1>4. TargetInv'
  BY DEF TargetInv, Calling, Speed, SettingsNow, ZoneHeld
<1>5. Backend' = Backend
  BY DEF Backend, ZoneHeld
<1>6. SampleInv'
  BY <1>5 DEF SampleInv, Calling
<1>7. BeforeInv'
  BY DEF BeforeInv
<1>8. SettingsInv'
  <2>1. call # None /\ call.op # "apply" => todo[1] \notin SettingRequests
    BY NextReport, FanIsNoSetting
  <2>2. None \notin SettingRequests
    BY NoneIsNothing DEF Wire
  <2> QED
    BY <2>1, <2>2 DEF SettingsInv, Calling
<1>9. FrameInv'
  <2>1. None # ShowFrame
    BY NoneIsNothing DEF Wire, SettingRequests, LightingRequests
  <2> QED
    BY <2>1, RowsAreReady DEF FrameInv, FramesAreWhole, Uniform
<1> QED
  BY <1>1, <1>2, <1>3, <1>4, <1>5, <1>6, <1>7, <1>8, <1>9

LEMMA RefuseKeeps ==
    ASSUME SessionInv, ~StaleAnswers, Refuse
    PROVE  SessionInv' /\ UNCHANGED <<view, ok>>
<1>1. /\ UNCHANGED <<ec, live, call, todo, sent, attempt, failed, vouched, settled, before, ok, misled>>
      /\ slot # None /\ slot' = None
      /\ answer' = IF sent THEN [to |-> slot, status |-> "failure"] ELSE None
  BY DEF Refuse, Answers, progress, beliefs
<1>2. SessionType'
  BY <1>1 DEF SessionInv, SessionType
<1>3. Talk'
  BY <1>1 DEF SessionInv, Talk
<1>4. Harmless' /\ CallInv' /\ BeforeInv' /\ SettingsInv' /\ FrameInv' /\ Backend' = Backend
  BY <1>1, OnlyTheSlot
<1> QED
  BY <1>1, <1>2, <1>3, <1>4 DEF SessionInv, view

LEMMA BusyKeeps ==
    ASSUME SessionInv, ~StaleAnswers, Busy
    PROVE  SessionInv' /\ UNCHANGED <<view, ok>>
<1>1. /\ UNCHANGED <<ec, slot, live, call, todo, sent, attempt, failed, vouched, settled, before, ok, misled>>
      /\ slot # None /\ sent
      /\ answer' = [to |-> slot, status |-> "busy"]
  BY DEF Busy, Answers, progress, beliefs
<1>2. SessionType'
  BY <1>1 DEF SessionInv, SessionType
<1>3. Talk'
  BY <1>1 DEF SessionInv, Talk
<1>4. Harmless' /\ CallInv' /\ BeforeInv' /\ SettingsInv' /\ FrameInv' /\ Backend' = Backend
  BY <1>1, OnlyTheSlot
<1> QED
  BY <1>1, <1>2, <1>3, <1>4 DEF SessionInv, view

LEMMA SendKeeps ==
    ASSUME SessionInv, Send
    PROVE  SessionInv' /\ UNCHANGED <<view, ok>>
<1>1. /\ UNCHANGED <<ec, answer, live, call, todo, attempt, failed, vouched, settled, before, ok, misled>>
      /\ call # None /\ live /\ slot' = todo[1] /\ sent' = TRUE
  BY DEF Send, Idle, beliefs
<1>2. SessionType'
  BY <1>1, NextReport DEF SessionInv, SessionType
<1>3. Talk'
  BY <1>1 DEF SessionInv, Talk
<1>4. Harmless' /\ CallInv' /\ BeforeInv' /\ SettingsInv' /\ FrameInv' /\ Backend' = Backend
  BY <1>1, OnlyTheSlot
<1> QED
  BY <1>1, <1>2, <1>3, <1>4 DEF SessionInv, view

LEMMA RetryKeeps ==
    ASSUME SessionInv, sent, Retry, UNCHANGED <<ec, slot, live, misled>>
    PROVE  SessionInv' /\ UNCHANGED <<view, ok>>
<1>1. /\ UNCHANGED <<ec, slot, answer, live, call, todo, failed, vouched, settled, before, ok, misled>>
      /\ sent' = FALSE /\ attempt' = attempt + 1
  BY DEF Retry, beliefs
<1>2. attempt' \in Nat
  BY <1>1 DEF SessionInv, SessionType
<1>3. SessionType'
  BY <1>1, <1>2 DEF SessionInv, SessionType
<1>4. Talk'
  BY <1>1 DEF SessionInv, Talk
<1>5. Harmless' /\ CallInv' /\ BeforeInv' /\ SettingsInv' /\ FrameInv' /\ Backend' = Backend
  BY <1>1, OnlyTheSlot
<1> QED
  BY <1>1, <1>3, <1>4, <1>5 DEF SessionInv, view

-----------------------------------------------------------------------------
(* The backend as the daemon's core sees it.                                *)

LEMMA SameHw ==
    ASSUME NEW g \in HwType, NEW k \in HwType,
           g.live = k.live, g.settings = k.settings, \A z \in Zones : g.zone[z] = k.zone[z]
    PROVE  g = k
<1>1. g.zone = k.zone
  BY DEF HwType
<1> QED
  BY <1>1 DEF HwType

LEMMA HwFields ==
    ASSUME NEW g \in HwType
    PROVE  /\ Disturbed(g).live = g.live /\ Disturbed(g).settings = Unsure
           /\ \A z \in Zones : Disturbed(g).zone[z] = Unsure
           /\ Lost(g).live = FALSE /\ Lost(g).settings = Unsure
           /\ \A z \in Zones : Lost(g).zone[z] = Unsure
           /\ Closed(g).live = FALSE /\ Closed(g).settings = g.settings /\ Closed(g).zone = g.zone
           /\ [g EXCEPT !.live = TRUE] \in HwType /\ [g EXCEPT !.live = TRUE].live = TRUE
           /\ [g EXCEPT !.live = TRUE].settings = g.settings /\ [g EXCEPT !.live = TRUE].zone = g.zone
BY DEF Disturbed, Lost, Closed, HwType

LEMMA RestoredFields ==
    ASSUME NEW g \in HwType, NEW mode \in PerfMode, NEW acked \in SUBSET Zones
    PROVE  LET k == InFirmware(g, mode, acked)
               setting == ZoneSetting(mode, Firmware)
           IN  /\ k \in HwType /\ k.live = g.live /\ k.settings = g.settings
               /\ \A z \in Zones : k.zone[z] = IF z \in acked \/ g.zone[z] = setting
                                               THEN setting ELSE Unsure
<1> DEFINE setting == ZoneSetting(mode, Firmware)
<1>1. InFirmware(g, mode, acked) \in HwType
  BY InFirmwareType
<1> HIDE DEF setting
<1> QED
  BY <1>1 DEF InFirmware, HwType, setting

LEMMA AppliedFields ==
    ASSUME NEW g \in HwType, NEW st \in Applied, g.live = TRUE
    PROVE  LET k == FullyApplied(g, st)
           IN  /\ k \in HwType /\ k.live = TRUE /\ k.settings = EcSettings(st)
               /\ \A z \in Zones : k.zone[z] = ZoneSetting(st.perf_mode, StartFan(st))
<1>1. st \in AppliedState
  BY InputAssumption
<1>2. FullyApplied(g, st) \in HwType /\ HwIs(FullyApplied(g, st), st, StartFan(st))
  BY <1>1, FullyAppliedIs
<1> QED
  BY <1>2 DEF HwIs, HwType

LEMMA TargetFields ==
    ASSUME NEW g \in HwType, NEW rpm \in Nat, NEW acked \in SUBSET Zones
    PROVE  LET k == WithTarget(g, rpm, acked)
           IN  /\ k \in HwType /\ k.live = g.live /\ k.settings = g.settings
               /\ \A z \in Zones : k.zone[z] = IF g.zone[z] = Unsure \/ z \notin acked THEN Unsure
                                               ELSE [g.zone[z] EXCEPT !.fan = rpm]
<1>1. WithTarget(g, rpm, acked) \in HwType
  BY WithTargetType
<1> QED
  BY <1>1 DEF WithTarget, HwType

\* What the registers of a zone mean.
HeldIn(e, z) ==
    [mode |-> CHOOSE mode \in PerfMode : EcMode(mode) = mode /\ ModeByte(mode) = e.zone[ZoneByte(z)].mode,
     fan |-> IF e.zone[ZoneByte(z)].manual = 1 THEN e.zone[ZoneByte(z)].rpm ELSE Firmware]

LEMMA ModeOfByte ==
    /\ \A b \in {0, 1, 4} : \E mode \in PerfMode : EcMode(mode) = mode /\ ModeByte(mode) = b
    /\ \A m, n \in PerfMode : EcMode(m) = m /\ EcMode(n) = n /\ ModeByte(m) = ModeByte(n) => m = n
    /\ \A m \in PerfMode : /\ EcMode(m) \in PerfMode /\ EcMode(EcMode(m)) = EcMode(m)
                           /\ ModeByte(EcMode(m)) = ModeByte(m)
<1>1. "balanced" \in PerfMode /\ EcMode("balanced") = "balanced" /\ ModeByte("balanced") = 0
  BY DEF EcMode, ModeByte, PerfMode
<1>2. "gaming" \in PerfMode /\ EcMode("gaming") = "gaming" /\ ModeByte("gaming") = 1
  BY DEF EcMode, ModeByte, PerfMode
<1>3. "custom" \in PerfMode /\ EcMode("custom") = "custom" /\ ModeByte("custom") = 4
  BY DEF EcMode, ModeByte, PerfMode
<1>4. "silent" \in PerfMode /\ EcMode("silent") = "custom" /\ ModeByte("silent") = 4
  BY DEF EcMode, ModeByte, PerfMode
<1>5. \A m \in PerfMode : m = "balanced" \/ m = "gaming" \/ m = "custom" \/ m = "silent"
  BY DEF PerfMode
<1>6. "silent" # "custom"
  OBVIOUS
<1>7. \A b \in {0, 1, 4} : \E mode \in PerfMode : EcMode(mode) = mode /\ ModeByte(mode) = b
  BY <1>1, <1>2, <1>3
<1>8. \A m, n \in PerfMode : EcMode(m) = m /\ EcMode(n) = n /\ ModeByte(m) = ModeByte(n) => m = n
  BY <1>1, <1>2, <1>3, <1>4, <1>5, <1>6
<1>9. \A m \in PerfMode : /\ EcMode(m) \in PerfMode /\ EcMode(EcMode(m)) = EcMode(m)
                          /\ ModeByte(EcMode(m)) = ModeByte(m)
  BY <1>1, <1>2, <1>3, <1>4, <1>5
<1> QED
  BY <1>7, <1>8, <1>9

LEMMA ChosenMode ==
    ASSUME NEW m \in PerfMode
    PROVE  (CHOOSE mode \in PerfMode : EcMode(mode) = mode /\ ModeByte(mode) = ModeByte(m)) = EcMode(m)
BY ModeOfByte

LEMMA HeldInIs ==
    ASSUME NEW e \in Registers, NEW z \in Zones, e.zone[ZoneByte(z)].mode \in {0, 1, 4}
    PROVE  /\ HeldIn(e, z) \in [mode : PerfMode, fan : Nat \cup {Firmware}]
           /\ HeldIn(e, z) # Unsure
           /\ \A m \in PerfMode : EcMode(m) = HeldIn(e, z).mode <=> e.zone[ZoneByte(z)].mode = ModeByte(m)
           /\ HeldIn(e, z).fan = Firmware <=> e.zone[ZoneByte(z)].manual = 0
           /\ e.zone[ZoneByte(z)].manual = 1 => HeldIn(e, z).fan = e.zone[ZoneByte(z)].rpm
<1>1. PICK m \in PerfMode : e.zone[ZoneByte(z)].mode = ModeByte(m)
  BY ModeOfByte
<1>2. HeldIn(e, z).mode = EcMode(m)
  BY <1>1, ChosenMode DEF HeldIn
<1>3. e.zone[ZoneByte(z)].manual \in {0, 1} /\ e.zone[ZoneByte(z)].rpm \in Nat
  BY Bytes DEF Registers
<1>4. Firmware \notin Nat
  BY EcMarkersAssumption
<1>5. /\ HeldIn(e, z).fan \in Nat \cup {Firmware}
      /\ HeldIn(e, z).fan = Firmware <=> e.zone[ZoneByte(z)].manual = 0
      /\ e.zone[ZoneByte(z)].manual = 1 => HeldIn(e, z).fan = e.zone[ZoneByte(z)].rpm
  BY <1>3, <1>4 DEF HeldIn
<1>6. HeldIn(e, z) \in [mode : PerfMode, fan : Nat \cup {Firmware}]
  BY <1>2, <1>5, ModeOfByte DEF HeldIn
<1>7. \A n \in PerfMode : EcMode(n) = EcMode(m) <=> ModeByte(n) = ModeByte(m)
  BY ModeOfByte
<1> QED
  BY <1>1, <1>2, <1>5, <1>6, <1>7, EcMarkersAssumption

BackendWith(e, l, v, s) ==
    [live |-> l, zone |-> [z \in Zones |-> IF z \in v THEN HeldIn(e, z) ELSE Unsure],
     settings |-> IF s = None THEN Unsure ELSE EcSettings(s)]

LEMMA BackendOf ==
    ASSUME NEW e \in Registers, NEW l \in BOOLEAN, NEW v \in SUBSET Zones, NEW s \in Applied \cup {None},
           \A z \in v : e.zone[ZoneByte(z)].mode \in {0, 1, 4}
    PROVE  /\ BackendWith(e, l, v, s) \in HwType /\ BackendWith(e, l, v, s).live = l
           /\ BackendWith(e, l, v, s).settings = IF s = None THEN Unsure ELSE EcSettings(s)
           /\ \A z \in Zones : BackendWith(e, l, v, s).zone[z] = IF z \in v THEN HeldIn(e, z) ELSE Unsure
<1>1. (IF s = None THEN Unsure ELSE EcSettings(s)) \in Settings \cup {Unsure}
  BY EcSettingsType, InputAssumption
<1>2. \A z \in v : HeldIn(e, z) \in Zone
  BY HeldInIs DEF Zone
<1>3. Unsure \in Zone
  BY DEF Zone
<1>4. [z \in Zones |-> IF z \in v THEN HeldIn(e, z) ELSE Unsure] \in [Zones -> Zone]
  BY <1>2, <1>3
<1> QED
  BY <1>1, <1>4 DEF HwType, BackendWith

LEMMA BackendIs ==
    ASSUME SessionType, Harmless
    PROVE  /\ Backend \in HwType /\ Backend.live = live /\ Backend.settings = SettingsNow
           /\ \A z \in Zones : Backend.zone[z] = IF z \in vouched THEN HeldIn(ec, z) ELSE Unsure
<1>1. Backend = BackendWith(ec, live, vouched, settled)
  BY DEF Backend, ZoneHeld, HeldIn, BackendWith
<1>2. /\ ec \in Registers /\ live \in BOOLEAN /\ vouched \in SUBSET Zones /\ settled \in Applied \cup {None}
      /\ \A z \in vouched : ec.zone[ZoneByte(z)].mode \in {0, 1, 4}
  BY DEF SessionType, Harmless
<1> DEFINE k == BackendWith(ec, live, vouched, settled)
<1>3. /\ k \in HwType /\ k.live = live
      /\ k.settings = IF settled = None THEN Unsure ELSE EcSettings(settled)
      /\ \A z \in Zones : k.zone[z] = IF z \in vouched THEN HeldIn(ec, z) ELSE Unsure
  BY <1>2, BackendOf
<1> HIDE DEF k
<1>4. Backend = k
  BY <1>1 DEF k
<1> QED
  BY <1>3, <1>4 DEF SettingsNow

LEMMA NextBackendIs ==
    ASSUME SessionType', Harmless'
    PROVE  /\ Backend' \in HwType /\ Backend'.live = live'
           /\ Backend'.settings = IF settled' = None THEN Unsure ELSE EcSettings(settled')
           /\ \A z \in Zones : Backend'.zone[z] = IF z \in vouched' THEN HeldIn(ec', z) ELSE Unsure
<1>1. Backend' = BackendWith(ec', live', vouched', settled')
  BY DEF Backend, ZoneHeld, HeldIn, BackendWith
<1>2. /\ ec' \in Registers /\ live' \in BOOLEAN /\ vouched' \in SUBSET Zones
      /\ settled' \in Applied \cup {None}
      /\ \A z \in vouched' : ec'.zone[ZoneByte(z)].mode \in {0, 1, 4}
  BY DEF SessionType, Harmless
<1> DEFINE k == BackendWith(ec', live', vouched', settled')
<1>3. /\ k \in HwType /\ k.live = live'
      /\ k.settings = IF settled' = None THEN Unsure ELSE EcSettings(settled')
      /\ \A z \in Zones : k.zone[z] = IF z \in vouched' THEN HeldIn(ec', z) ELSE Unsure
  BY <1>2, BackendOf
<1> HIDE DEF k
<1>4. Backend' = k
  BY <1>1 DEF k
<1> QED
  BY <1>3, <1>4

\* The daemon's core sees a call in the step in which it returns.
CoreStep ==
    \/ Calls!Sample \/ Calls!Call \/ Calls!Open \/ Calls!Close \/ Calls!Sleep
    \/ UNCHANGED <<view, ok>>

LEMMA OpenKeeps ==
    ASSUME SessionInv, Open
    PROVE  SessionInv' /\ CoreStep
<1>1. /\ UNCHANGED <<ec, slot, answer, call, todo, sent, attempt, failed, vouched, settled, before, ok, misled>>
      /\ call = None /\ ~live /\ live' = TRUE
  BY DEF Open, Idle, device, progress, beliefs
<1> USE DEF SessionInv, CallInv
<1>2. SessionType' /\ Talk' /\ Harmless' /\ BeforeInv' /\ FrameInv'
  BY <1>1 DEF SessionType, Talk, Harmless, BeforeInv, FrameInv, FramesAreWhole
<1>3. CallInv'
  BY <1>1 DEF ApplyInv, RestoreInv, RestoreOnlyInv, RecoverInv, TargetInv, SampleInv, Calling
<1>4. SettingsInv'
  BY <1>1 DEF SettingsInv, Calling
<1>5. view = Backend /\ view' = Backend'
  BY <1>1 DEF view
<1>6. Backend' = [Backend EXCEPT !.live = TRUE] /\ ~Backend.live
  <2> DEFINE k == [Backend EXCEPT !.live = TRUE]
  <2>1. /\ Backend \in HwType /\ Backend.live = live /\ Backend.settings = SettingsNow
        /\ \A z \in Zones : Backend.zone[z] = IF z \in vouched THEN HeldIn(ec, z) ELSE Unsure
    BY BackendIs
  <2>2. /\ Backend' \in HwType /\ Backend'.live = TRUE /\ Backend'.settings = Backend.settings
        /\ \A z \in Zones : Backend'.zone[z] = Backend.zone[z]
    BY <1>1, <1>2, <2>1, NextBackendIs DEF SettingsNow
  <2>3. k \in HwType /\ k.live = TRUE /\ k.settings = Backend.settings
        /\ \A z \in Zones : k.zone[z] = Backend.zone[z]
    BY <2>1, HwFields
  <2> HIDE DEF k
  <2>4. /\ Backend' \in HwType /\ k \in HwType /\ Backend'.live = k.live /\ Backend'.settings = k.settings
        /\ \A z \in Zones : Backend'.zone[z] = k.zone[z]
    BY <2>2, <2>3
  <2>5. Backend' = k
    BY <2>4, SameHw
  <2> QED
    BY <1>1, <2>1, <2>5 DEF k
<1>7. Calls!Open
  BY <1>1, <1>5, <1>6 DEF Calls!Open
<1> QED
  BY <1>2, <1>3, <1>4, <1>7 DEF CoreStep

LEMMA CloseKeeps ==
    ASSUME SessionInv, Close
    PROVE  SessionInv' /\ CoreStep
<1>1. /\ UNCHANGED <<ec, slot, answer, call, todo, sent, attempt, failed, vouched, settled, before, ok, misled>>
      /\ call = None /\ live' = FALSE
  BY DEF Close, Idle, device, progress, beliefs
<1> USE DEF SessionInv, CallInv
<1>2. SessionType' /\ Talk' /\ Harmless' /\ BeforeInv' /\ FrameInv'
  BY <1>1 DEF SessionType, Talk, Harmless, BeforeInv, FrameInv, FramesAreWhole
<1>3. CallInv'
  BY <1>1 DEF ApplyInv, RestoreInv, RestoreOnlyInv, RecoverInv, TargetInv, SampleInv, Calling
<1>4. SettingsInv'
  BY <1>1 DEF SettingsInv, Calling
<1>5. view = Backend /\ view' = Backend'
  BY <1>1 DEF view
<1>6. Closed(Backend) \in HwType
  BY BackendIs, DisturbedType
<1>7. Backend' = Closed(Backend)
  <2>1. /\ Backend \in HwType /\ Backend.live = live /\ Backend.settings = SettingsNow
        /\ \A z \in Zones : Backend.zone[z] = IF z \in vouched THEN HeldIn(ec, z) ELSE Unsure
    BY BackendIs
  <2>2. /\ Backend' \in HwType /\ Backend'.live = FALSE /\ Backend'.settings = Backend.settings
        /\ \A z \in Zones : Backend'.zone[z] = Backend.zone[z]
    BY <1>1, <1>2, <2>1, NextBackendIs DEF SettingsNow
  <2>3. /\ Closed(Backend).live = FALSE /\ Closed(Backend).settings = Backend.settings
        /\ Closed(Backend).zone = Backend.zone
    BY <2>1, HwFields
  <2> QED
    BY <1>6, <2>2, <2>3, SameHw, ZenonT(60)
<1>8. Calls!Close
  BY <1>1, <1>5, <1>7, SameOutcomes DEF Calls!Close
<1> QED
  BY <1>2, <1>3, <1>4, <1>8 DEF CoreStep

LEMMA SleepKeeps ==
    ASSUME SessionInv, Sleep
    PROVE  SessionInv' /\ CoreStep
<1>1. /\ UNCHANGED <<live, call, todo, sent, attempt, failed, before, ok, misled>>
      /\ call = None /\ vouched' = {} /\ settled' = None
      /\ \/ ec' = PowerOn /\ slot' = None /\ answer' = None
         \/ UNCHANGED <<ec, slot, answer>>
  BY DEF Sleep, device, progress
<1> USE DEF SessionInv, CallInv
<1>2. SessionType'
  BY <1>1, PowerOnAssumption DEF SessionType
<1>3. Talk' /\ Harmless' /\ BeforeInv'
  BY <1>1 DEF Talk, Harmless, BeforeInv
<1>4. CallInv'
  BY <1>1 DEF ApplyInv, RestoreInv, RestoreOnlyInv, RecoverInv, TargetInv, SampleInv, Calling
<1>5. SettingsInv'
  BY <1>1 DEF SettingsInv
<1>6. FrameInv'
  <2>1. None # ShowFrame
    BY NoneIsNothing DEF Wire, SettingRequests, LightingRequests
  <2> QED
    BY <1>1, <2>1, PowerOnAssumption DEF FrameInv, FramesAreWhole
<1>7. view = Backend /\ view' = Backend'
  BY <1>1 DEF view
<1>8. Disturbed(Backend) \in HwType
  BY BackendIs, DisturbedType
<1>9. Backend' = Disturbed(Backend)
  <2>1. Backend \in HwType /\ Backend.live = live
    BY BackendIs
  <2>2. /\ Backend' \in HwType /\ Backend'.live = live /\ Backend'.settings = Unsure
        /\ \A z \in Zones : Backend'.zone[z] = Unsure
    BY <1>1, <1>2, <1>3, NextBackendIs
  <2>3. /\ Disturbed(Backend).live = live /\ Disturbed(Backend).settings = Unsure
        /\ \A z \in Zones : Disturbed(Backend).zone[z] = Unsure
    BY <2>1, HwFields
  <2> QED
    BY <1>8, <2>2, <2>3, SameHw
<1>10. Calls!Sleep
  BY <1>1, <1>7, <1>9, SameOutcomes DEF Calls!Sleep
<1> QED
  BY <1>2, <1>3, <1>4, <1>5, <1>6, <1>10 DEF CoreStep

-----------------------------------------------------------------------------
(* A call begins.                                                           *)

\* A call that has to exchange reports.
Starts(c) ==
    /\ call = None /\ call' = c /\ todo' = ReportsOf(c)
    /\ sent' = FALSE /\ attempt' = 1 /\ failed' = FALSE /\ before' = Backend
    /\ UNCHANGED <<ec, slot, answer, live, vouched, settled, ok, misled>>

LEMMA Started ==
    ASSUME SessionInv, NEW c \in BackendCalls, Starts(c), CallInv', todo' \in Seq(Wire), todo' # << >>
    PROVE  SessionInv' /\ UNCHANGED <<view, ok>>
<1> USE DEF SessionInv, Starts
<1>1. call' # None
  BY NoneIsNothing
<1>2. SessionType'
  BY DEF SessionType
<1>3. Talk' /\ Harmless' /\ FrameInv'
  BY <1>1 DEF Talk, Harmless, FrameInv, FramesAreWhole
<1>4. BeforeInv'
  BY BackendIs DEF BeforeInv
<1>5. SettingsInv'
  BY DEF SettingsInv, Calling
<1> QED
  BY <1>1, <1>2, <1>3, <1>4, <1>5 DEF view

LEMMA ApplyStarts ==
    ASSUME SessionInv, live, NEW st \in Applied, Starts([op |-> "apply", st |-> st])
    PROVE  SessionInv' /\ UNCHANGED <<view, ok>>
<1> DEFINE c == [op |-> "apply", st |-> st]
<1>1. c \in BackendCalls /\ c.op = "apply" /\ c.st = st
  BY DEF BackendCalls
<1>2. ReportsOf(c) = ApplyReports(st)
  BY <1>1 DEF ReportsOf
<1> HIDE DEF c
<1>3. call' = c /\ Starts(c)
  BY DEF Starts, c
<1>4. todo' = ApplyReports(st)
  BY <1>2, <1>3 DEF Starts
<1>5. /\ todo' \in Seq(Wire) /\ todo' # << >> /\ Elements(todo') = Writes(st) /\ Ordered(todo')
  BY <1>4, ApplyReportsAre
<1>6. ShowFrame \notin Writes(st) => Writes(st) \cap FrameRowRequests = {}
  <2> SUFFICES ASSUME ShowFrame \notin Writes(st), NEW r \in Writes(st), r \in FrameRowRequests
               PROVE  FALSE
    OBVIOUS
  <2>1. r \in SettingWrites(st)
    BY FanWritesAre, FrameIsApart DEF Writes
  <2>2. r \in SettingRequests /\ Cell(r) = "rows"
    BY <2>1, SettingWritesAre, CellsAre
  <2>3. ShowFrame \notin KeyboardWrites(st.kbd_effect)
    BY DEF Writes, SettingWrites
  <2>4. KeyboardWrites(st.kbd_effect) = {SetKbdEffect(st.kbd_effect)}
    BY <2>3 DEF KeyboardWrites
  <2>5. \A logo : \A x \in LogoWrites(logo) : Cell(x) # "rows"
    BY CellOf DEF LogoWrites
  <2> QED
    BY <2>1, <2>2, <2>4, <2>5, CellOf, AppliedIs DEF SettingWrites
<1>7. before' \in HwType /\ before'.live = TRUE /\ failed' = FALSE
  BY BackendIs DEF Starts, SessionInv, SessionType
<1>8. ApplyInv'
  BY <1>1, <1>3, <1>5, <1>6, <1>7 DEF ApplyInv, Starts, Calling
<1>9. CallInv'
  BY <1>1, <1>3, <1>8 DEF CallInv, RestoreInv, RestoreOnlyInv, RecoverInv, TargetInv, SampleInv, Calling
<1> QED
  BY <1>1, <1>3, <1>5, <1>9, Started

LEMMA HeldInFirmware ==
    ASSUME NEW e \in Registers, NEW z \in Zones, NEW mode \in PerfMode,
           e.zone[ZoneByte(z)].mode \in {0, 1, 4}
    PROVE  HeldIn(e, z) = ZoneSetting(mode, Firmware) <=> Done(e, SetPowerMode(z, mode, FALSE))
<1>1. Done(e, SetPowerMode(z, mode, FALSE)) <=>
          e.zone[ZoneByte(z)].mode = ModeByte(mode) /\ e.zone[ZoneByte(z)].manual = 0
  BY FanDone DEF Bit
<1>2. ZoneSetting(mode, Firmware) = [mode |-> EcMode(mode), fan |-> Firmware]
  BY DEF ZoneSetting
<1>3. HeldIn(e, z) = [mode |-> HeldIn(e, z).mode, fan |-> HeldIn(e, z).fan]
  BY DEF HeldIn
<1>4. /\ EcMode(mode) = HeldIn(e, z).mode <=> e.zone[ZoneByte(z)].mode = ModeByte(mode)
      /\ HeldIn(e, z).fan = Firmware <=> e.zone[ZoneByte(z)].manual = 0
  BY HeldInIs
<1>5. \A a, b, c, d : [mode |-> a, fan |-> b] = [mode |-> c, fan |-> d] <=> a = c /\ b = d
  OBVIOUS
<1>6. HeldIn(e, z) = ZoneSetting(mode, Firmware) <=>
          HeldIn(e, z).mode = EcMode(mode) /\ HeldIn(e, z).fan = Firmware
  BY <1>2, <1>3, <1>5
<1> QED
  BY <1>1, <1>4, <1>6

\* A power mode that was acknowledged without manual control is a setting.
LEMMA ResetHeld ==
    ASSUME NEW e \in Registers, NEW z \in Zones, NEW mode \in PerfMode,
           Done(e, SetPowerMode(z, mode, FALSE))
    PROVE  HeldIn(e, z) = ZoneSetting(mode, Firmware) /\ e.zone[ZoneByte(z)].mode \in {0, 1, 4}
<1>1. e.zone[ZoneByte(z)].mode = ModeByte(mode)
  BY FanDone
<1>2. e.zone[ZoneByte(z)].mode \in {0, 1, 4}
  BY <1>1, Bytes
<1> QED
  BY <1>2, HeldInFirmware

LEMMA RestoreStarts ==
    ASSUME SessionInv, live, NEW mode \in {st.perf_mode : st \in Applied},
           Starts([op |-> "restore", mode |-> mode])
    PROVE  SessionInv' /\ UNCHANGED <<view, ok>>
<1> DEFINE c == [op |-> "restore", mode |-> mode]
<1>1. c \in BackendCalls /\ c.op = "restore" /\ c.mode = mode /\ mode \in PerfMode
  BY AppliedIs DEF BackendCalls
<1>2. ReportsOf(c) = RestoreReports(mode)
  BY <1>1 DEF ReportsOf
<1> HIDE DEF c
<1>3. call' = c /\ Starts(c)
  BY DEF Starts, c
<1> DEFINE r1 == SetPowerMode("fan1", mode, FALSE)
           r2 == SetPowerMode("fan2", mode, FALSE)
<1>4. todo' = <<r1, r2>>
  BY <1>1, <1>2, <1>3, RestoreReportsAre DEF Starts
<1>5. r1 \in Wire /\ r2 \in Wire
  BY <1>1, FanReportsAreWire DEF Zones
<1>6. Reset("fan1")' = r1 /\ Reset("fan2")' = r2 /\ \A z \in Zones : Reset(z)' = SetPowerMode(z, mode, FALSE)
  BY <1>1, <1>3 DEF Reset
<1> HIDE DEF r1, r2
<1>7. todo' \in Seq(Wire) /\ todo' # << >> /\ Len(todo') = 2
  BY <1>4, <1>5, ShortReports
<1>8. /\ before' \in HwType /\ before'.live = TRUE /\ before'.settings = SettingsNow'
      /\ failed' = FALSE /\ live' = TRUE
  BY BackendIs DEF Starts, SessionInv, SessionType, SettingsNow
<1>9. \A z \in Zones : Kept(z)' => z \in vouched' /\ Done(ec', Reset(z)')
  <2> SUFFICES ASSUME NEW z \in Zones, Backend.zone[z] = ZoneSetting(mode, Firmware)
               PROVE  z \in vouched /\ Done(ec, SetPowerMode(z, mode, FALSE))
    BY <1>1, <1>3, <1>6 DEF Kept, Starts
  <2>1. ZoneSetting(mode, Firmware) # Unsure
    BY <1>1, ZoneSettingType
  <2>2. z \in vouched /\ HeldIn(ec, z) = ZoneSetting(mode, Firmware)
    BY <2>1, BackendIs DEF SessionInv
  <2>3. ec \in Registers /\ ec.zone[ZoneByte(z)].mode \in {0, 1, 4}
    BY <2>2 DEF SessionInv, SessionType, Harmless
  <2> QED
    BY <1>1, <2>2, <2>3, HeldInFirmware
<1>10. RestoreInv'
  BY <1>4, <1>6, <1>7, <1>8 DEF RestoreInv
<1>11. RestoreOnlyInv'
  BY <1>7, <1>8, <1>9 DEF RestoreOnlyInv, Zones
<1>12. CallInv'
  BY <1>1, <1>3, <1>10, <1>11 DEF CallInv, ApplyInv, RecoverInv, TargetInv, SampleInv, Calling
<1> QED
  BY <1>1, <1>3, <1>7, <1>12, Started

LEMMA TargetStarts ==
    ASSUME SessionInv, live, NEW rpm \in Targets, Calls!MaySetTarget(view),
           Starts([op |-> "target", rpm |-> rpm])
    PROVE  SessionInv' /\ UNCHANGED <<view, ok>>
<1> DEFINE c == [op |-> "target", rpm |-> rpm]
           n == (Clamp(rpm, MinRpm, MaxRpm) \div 100) % 256
<1>1. c \in BackendCalls /\ c.op = "target" /\ c.rpm = rpm
  BY DEF BackendCalls
<1>2. ReportsOf(c) = <<SetFanRpm("fan1", n), SetFanRpm("fan2", n)>>
  BY <1>1 DEF ReportsOf, TargetReports
<1> HIDE DEF c
<1>3. call' = c /\ Starts(c)
  BY DEF Starts, c
<1>4. \A z : Speed(z)' = SetFanRpm(z, n)
  BY <1>1, <1>3 DEF Speed
<1>5. n \in Speeds
  BY TargetSpeed
<1> HIDE DEF n
<1>6. SetFanRpm("fan1", n) \in Wire /\ SetFanRpm("fan2", n) \in Wire
  BY <1>5, FanReportsAreWire DEF Zones
<1>7. todo' = <<SetFanRpm("fan1", n), SetFanRpm("fan2", n)>>
  BY <1>2, <1>3 DEF Starts
<1>8. todo' \in Seq(Wire) /\ todo' # << >> /\ Len(todo') = 2
  BY <1>6, <1>7, ShortReports
<1>9. view = Backend /\ Calls!Zones = Zones
  BY DEF view, Starts, Calls!Zones, Zones
<1>a. MayTarget(Backend)
  BY <1>9 DEF Calls!MaySetTarget, MayTarget
<1>10. \A z \in Zones : Backend.zone[z] # Unsure /\ Backend.zone[z].fan # Firmware
  BY <1>a DEF MayTarget
<1>11. \A z \in Zones : /\ z \in vouched /\ Backend.zone[z] = HeldIn(ec, z)
                        /\ ec.zone[ZoneByte(z)].mode \in {0, 1, 4}
  BY <1>10, BackendIs DEF SessionInv, Harmless
<1>12. \A z \in Zones : /\ ec.zone[ZoneByte(z)].manual = 1
                        /\ Backend.zone[z] = [mode |-> HeldIn(ec, z).mode, fan |-> Backend.zone[z].fan]
  <2> SUFFICES ASSUME NEW z \in Zones
               PROVE  /\ ec.zone[ZoneByte(z)].manual = 1
                      /\ Backend.zone[z] = [mode |-> HeldIn(ec, z).mode, fan |-> Backend.zone[z].fan]
    OBVIOUS
  <2>1. ec \in Registers /\ ec.zone[ZoneByte(z)].manual \in {0, 1}
    BY Bytes DEF SessionInv, SessionType, Registers
  <2>2. HeldIn(ec, z).fan # Firmware
    BY <1>10, <1>11
  <2>3. ec.zone[ZoneByte(z)].manual = 1
    BY <1>11, <2>1, <2>2, HeldInIs
  <2>4. HeldIn(ec, z) = [mode |-> HeldIn(ec, z).mode, fan |-> HeldIn(ec, z).fan]
    BY DEF HeldIn
  <2> QED
    BY <1>11, <2>3, <2>4
<1>13. vouched = Zones
  BY <1>11 DEF SessionInv, SessionType
<1>14. /\ before' = Backend /\ ec' = ec /\ vouched' = Zones /\ live' = TRUE /\ failed' = FALSE
       /\ before'.live = TRUE /\ before'.settings = SettingsNow'
       /\ \A z \in Zones : ZoneHeld(z)'.mode = HeldIn(ec, z).mode
  BY <1>13, BackendIs DEF Starts, SessionInv, SessionType, SettingsNow, ZoneHeld, HeldIn
<1>15. TargetInv'
  BY <1>4, <1>7, <1>8, <1>a, <1>12, <1>14 DEF TargetInv
<1>16. CallInv'
  BY <1>1, <1>3, <1>15 DEF CallInv, ApplyInv, RestoreInv, RestoreOnlyInv, RecoverInv, SampleInv, Calling
<1> QED
  BY <1>1, <1>3, <1>8, <1>16, Started

LEMMA SampleStarts ==
    ASSUME SessionInv, Starts([op |-> "sample"])
    PROVE  SessionInv' /\ UNCHANGED <<view, ok>>
<1> DEFINE c == [op |-> "sample"]
<1>1. c \in BackendCalls /\ c.op = "sample"
  BY DEF BackendCalls
<1>2. ReportsOf(c) = <<GetFanRpm("fan1"), GetFanRpm("fan2")>>
  BY <1>1 DEF ReportsOf, SampleReports
<1> HIDE DEF c
<1>3. call' = c /\ Starts(c)
  BY DEF Starts, c
<1>4. todo' = <<GetFanRpm("fan1"), GetFanRpm("fan2")>>
  BY <1>2, <1>3 DEF Starts
<1>5. GetFanRpm("fan1") \in Wire /\ GetFanRpm("fan2") \in Wire
  BY FanReportsAreWire DEF Zones
<1>6. todo' \in Seq(Wire) /\ todo' # << >>
  BY <1>4, <1>5, ShortReports
<1>7. before' = Backend /\ Backend' = Backend
  BY DEF Starts, Backend, ZoneHeld
<1>8. SampleInv'
  BY <1>4, <1>7 DEF SampleInv
<1>9. CallInv'
  BY <1>1, <1>3, <1>8 DEF CallInv, ApplyInv, RestoreInv, RestoreOnlyInv, RecoverInv, TargetInv, Calling
<1> QED
  BY <1>1, <1>3, <1>6, <1>9, Started

\* Without a handle a call returns at once.
LEMMA FailsAtOnce ==
    ASSUME SessionInv, call = None, ~live, ok' = FALSE,
           UNCHANGED <<device, live, progress, beliefs, before, misled>>
    PROVE  /\ SessionInv' /\ view' = view
           /\ \A st \in Applied : Calls!Returns(ApplyOutcomes(view, st))
           /\ \A mode : Calls!Returns(RestoreOutcomes(view, mode))
           /\ \A rpm : Calls!Returns(TargetOutcomes(view, rpm))
<1>1. UNCHANGED <<ec, slot, answer, live, call, todo, sent, attempt, failed, vouched, settled, before, misled>>
  BY DEF device, progress, beliefs
<1>2. Backend' = Backend
  BY <1>1 DEF Backend, ZoneHeld
<1>3. view' = view /\ view = Backend
  BY <1>1, <1>2 DEF view
<1>4. ~view.live
  BY <1>3 DEF Backend
<1>5. FailWith(view).h = view' /\ FailWith(view).ok = ok'
  BY <1>3 DEF FailWith
<1>6. /\ \A st \in Applied : FailWith(view) \in ApplyOutcomes(view, st)
      /\ \A mode : FailWith(view) \in RestoreOutcomes(view, mode)
      /\ \A rpm : FailWith(view) \in TargetOutcomes(view, rpm)
  BY <1>4 DEF ApplyOutcomes, RestoreOutcomes, TargetOutcomes
<1>7. /\ \A st \in Applied : Calls!Returns(ApplyOutcomes(view, st))
      /\ \A mode : Calls!Returns(RestoreOutcomes(view, mode))
      /\ \A rpm : Calls!Returns(TargetOutcomes(view, rpm))
  BY <1>5, <1>6 DEF Calls!Returns
<1>8. SessionInv'
  <2> USE DEF SessionInv, CallInv
  <2>1. SessionType' /\ Talk' /\ Harmless' /\ BeforeInv' /\ FrameInv'
    BY <1>1 DEF SessionType, Talk, Harmless, BeforeInv, FrameInv, FramesAreWhole
  <2>2. CallInv'
    BY <1>1 DEF ApplyInv, RestoreInv, RestoreOnlyInv, RecoverInv, TargetInv, SampleInv, Calling
  <2>3. SettingsInv'
    BY <1>1 DEF SettingsInv, Calling
  <2> QED
    BY <2>1, <2>2, <2>3
<1> QED
  BY <1>3, <1>7, <1>8

LEMMA BeginSomeKeeps ==
    ASSUME SessionInv, BeginSome
    PROVE  SessionInv' /\ CoreStep
<1>1. ASSUME NEW c, Begin(c)
      PROVE  \/ /\ call = None /\ ~live /\ c.op # "sample" /\ ok' = FALSE
                /\ UNCHANGED <<device, live, progress, beliefs, before, misled>>
             \/ Starts(c) /\ live
             \/ Starts(c) /\ c.op = "sample"
  BY <1>1 DEF Begin, Idle, Starts, device, beliefs
<1>2. ASSUME NEW st \in Applied, Begin([op |-> "apply", st |-> st])
      PROVE  SessionInv' /\ CoreStep
  <2>1. CASE Starts([op |-> "apply", st |-> st]) /\ live
    BY <2>1, ApplyStarts DEF CoreStep
  <2>2. CASE /\ call = None /\ ~live /\ ok' = FALSE
             /\ UNCHANGED <<device, live, progress, beliefs, before, misled>>
    <3>1. SessionInv' /\ Calls!Returns(ApplyOutcomes(view, st))
      BY <2>2, FailsAtOnce
    <3>2. Calls!Call
      BY <3>1, SameOutcomes DEF Calls!Call
    <3> QED
      BY <3>1, <3>2 DEF CoreStep
  <2> DEFINE c == [op |-> "apply", st |-> st]
  <2>3. Begin(c) /\ c.op = "apply"
    BY <1>2
  <2> HIDE DEF c
  <2>4. \/ Starts(c) /\ live
        \/ /\ call = None /\ ~live /\ ok' = FALSE
           /\ UNCHANGED <<device, live, progress, beliefs, before, misled>>
    BY <1>1, <2>3
  <2> QED
    BY <2>1, <2>2, <2>4 DEF c
<1>3. ASSUME NEW st \in Applied, Begin([op |-> "restore", mode |-> st.perf_mode])
      PROVE  SessionInv' /\ CoreStep
  <2>1. CASE Starts([op |-> "restore", mode |-> st.perf_mode]) /\ live
    BY <2>1, RestoreStarts DEF CoreStep
  <2>2. CASE /\ call = None /\ ~live /\ ok' = FALSE
             /\ UNCHANGED <<device, live, progress, beliefs, before, misled>>
    <3>1. SessionInv' /\ Calls!Returns(RestoreOutcomes(view, st.perf_mode))
      BY <2>2, FailsAtOnce
    <3>2. Calls!Call
      BY <3>1, SameOutcomes DEF Calls!Call
    <3> QED
      BY <3>1, <3>2 DEF CoreStep
  <2> DEFINE c == [op |-> "restore", mode |-> st.perf_mode]
  <2>3. Begin(c) /\ c.op = "restore"
    BY <1>3
  <2> HIDE DEF c
  <2>4. \/ Starts(c) /\ live
        \/ /\ call = None /\ ~live /\ ok' = FALSE
           /\ UNCHANGED <<device, live, progress, beliefs, before, misled>>
    BY <1>1, <2>3
  <2> QED
    BY <2>1, <2>2, <2>4 DEF c
<1>4. ASSUME NEW rpm \in Targets, Calls!MaySetTarget(view), Begin([op |-> "target", rpm |-> rpm])
      PROVE  SessionInv' /\ CoreStep
  <2>1. CASE Starts([op |-> "target", rpm |-> rpm]) /\ live
    BY <1>4, <2>1, TargetStarts DEF CoreStep
  <2>2. CASE /\ call = None /\ ~live /\ ok' = FALSE
             /\ UNCHANGED <<device, live, progress, beliefs, before, misled>>
    <3>1. SessionInv' /\ Calls!Returns(TargetOutcomes(view, rpm))
      BY <2>2, FailsAtOnce
    <3>2. Calls!Call
      BY <1>4, <3>1, SameOutcomes DEF Calls!Call
    <3> QED
      BY <3>1, <3>2 DEF CoreStep
  <2> DEFINE c == [op |-> "target", rpm |-> rpm]
  <2>3. Begin(c) /\ c.op = "target"
    BY <1>4
  <2> HIDE DEF c
  <2>4. \/ Starts(c) /\ live
        \/ /\ call = None /\ ~live /\ ok' = FALSE
           /\ UNCHANGED <<device, live, progress, beliefs, before, misled>>
    BY <1>1, <2>3
  <2> QED
    BY <2>1, <2>2, <2>4 DEF c
<1>5. ASSUME Begin([op |-> "sample"])
      PROVE  SessionInv' /\ CoreStep
  BY <1>1, <1>5, SampleStarts DEF CoreStep
<1> QED
  BY <1>2, <1>3, <1>4, <1>5 DEF BeginSome

-----------------------------------------------------------------------------
(* A report is done with: acknowledged, given up, or lost with the handle.  *)

\* What the ends of all exchanges have in common.
Exchanged ==
    /\ call # None /\ UNCHANGED <<ec, before, misled>>
    /\ slot' \in {slot, todo[1]} /\ answer' = None /\ sent' = FALSE /\ attempt' = 1

Returned(result) ==
    /\ call' = None /\ todo' = << >> /\ failed' = FALSE
    /\ ok' = IF call.op = "sample" THEN ok ELSE result

Advanced(fails) == todo' = Tail(todo) /\ failed' = fails /\ UNCHANGED <<call, ok>>

LEMMA ExchangeKeeps ==
    ASSUME SessionInv, Exchanged,
           live' \in BOOLEAN, failed' \in BOOLEAN, ok' \in BOOLEAN,
           vouched' \in SUBSET Zones, settled' \in Applied \cup {None},
           call' \in BackendCalls \cup {None}, todo' \in Seq(Wire), call' = None <=> todo' = << >>,
           Harmless', CallInv', SettingsInv'
    PROVE  SessionInv'
<1>1. todo[1] \in Wire
  BY NextReport DEF Exchanged
<1>2. slot' \in Wire \cup {None} /\ attempt' \in Nat
  BY <1>1 DEF Exchanged, SessionInv, SessionType
<1>3. SessionType'
  BY <1>2 DEF Exchanged, SessionInv, SessionType
<1>4. Talk'
  BY DEF Exchanged, Talk
<1>5. BeforeInv'
  BY DEF Exchanged, SessionInv, BeforeInv
<1>6. FrameInv'
  BY RowsAreReady DEF Exchanged, SessionInv, FrameInv, FramesAreWhole, Uniform
<1> QED
  BY <1>3, <1>4, <1>5, <1>6 DEF SessionInv

LEMMA NoCall ==
    ASSUME call' = None
    PROVE  CallInv'
BY DEF CallInv, ApplyInv, RestoreInv, RestoreOnlyInv, RecoverInv, TargetInv, SampleInv, Calling

LEMMA Pairs ==
    /\ \A a, b : Tail(<<a, b>>) = <<b>> /\ Len(<<a, b>>) = 2 /\ <<a, b>>[1] = a
    /\ \A a : Len(<<a>>) = 1 /\ <<a>>[1] = a
OBVIOUS

LEMMA TailIs ==
    ASSUME NEW s \in Seq(Wire), s # << >>, Len(s) # 1
    PROVE  /\ Tail(s) \in Seq(Wire) /\ Tail(s) # << >>
           /\ Elements(s) = Elements(Tail(s)) \cup {s[1]}
           /\ Ordered(s) => /\ Ordered(Tail(s))
                            /\ s[1] = ShowFrame => Elements(Tail(s)) \cap FrameRowRequests = {}
<1> DEFINE t == Tail(s)
           n == Len(s)
<1>a. Len(s) \in Nat /\ Len(s) # 0
  BY LenProperties, EmptySeq
<1>b. \A k \in Nat : k # 0 /\ k # 1 => k > 1
  OBVIOUS
<1>1. n \in Nat /\ n > 1
  BY <1>a, <1>b, Zenon
<1>2. t \in Seq(Wire) /\ Len(t) = n - 1 /\ \A i \in 1..n - 1 : t[i] = s[i + 1]
  BY <1>1, HeadTailProperties
<1> HIDE DEF t, n
<1>3. Elements(s) = {s[i] : i \in 1..n} /\ Elements(t) = {t[i] : i \in 1..n - 1}
  BY <1>2 DEF Elements, n
<1>4. \A i \in 1..n : i = 1 \/ (i - 1 \in 1..n - 1 /\ t[i - 1] = s[i])
  BY <1>1, <1>2
<1>5. \A i \in 1..n - 1 : i + 1 \in 1..n /\ t[i] = s[i + 1]
  BY <1>1, <1>2
<1>6. Elements(s) \subseteq Elements(t) \cup {s[1]}
  BY <1>3, <1>4
<1>7. Elements(t) \subseteq Elements(s) /\ s[1] \in Elements(s)
  BY <1>1, <1>3, <1>5
<1>8. ASSUME Ordered(s)
      PROVE  /\ Ordered(t)
             /\ s[1] = ShowFrame => Elements(t) \cap FrameRowRequests = {}
  <2>1. \A i, j \in 1..n : s[i] = ShowFrame /\ s[j] \in FrameRowRequests => j < i
    BY <1>8 DEF Ordered, n
  <2>2. \A i, j \in 1..n - 1 : t[i] = ShowFrame /\ t[j] \in FrameRowRequests => j + 1 < i + 1
    BY <1>5, <2>1
  <2>3. Ordered(t)
    BY <1>2, <2>2 DEF Ordered
  <2>4. ASSUME s[1] = ShowFrame, NEW j \in 1..n - 1, t[j] \in FrameRowRequests
        PROVE  FALSE
    BY <1>1, <1>5, <2>1, <2>4
  <2> QED
    BY <1>3, <2>3, <2>4
<1>9. t # << >>
  BY <1>1, <1>2, ShortReports
<1>10. Elements(s) = Elements(t) \cup {s[1]}
  BY <1>6, <1>7
<1> QED
  BY <1>2, <1>8, <1>9, <1>10 DEF t

\* An apply goes on, or is complete.
LEMMA ApplyGoesOn ==
    ASSUME SessionInv, Exchanged, Calling({"apply"}), slot' = slot, slot \in {None, todo[1]},
           Done(ec, todo[1]), live' = live, UNCHANGED <<vouched, settled>>,
           Len(todo) # 1, Advanced(failed)
    PROVE  SessionInv' /\ UNCHANGED <<view, ok>>
<1> USE DEF SessionInv
<1>1. ApplyInv /\ todo \in Seq(Wire) /\ todo # << >> /\ todo' = Tail(todo) /\ UNCHANGED <<call, ok, failed, ec, before>>
  BY NextReport DEF CallInv, Calling, Advanced, Exchanged
<1>2. /\ todo' \in Seq(Wire) /\ todo' # << >> /\ Elements(todo) = Elements(todo') \cup {todo[1]}
      /\ Ordered(todo')
      /\ todo[1] = ShowFrame => Elements(todo') \cap FrameRowRequests = {}
  BY <1>1, TailIs DEF ApplyInv
<1>3. ApplyInv'
  <2>1. ShowFrame \notin Elements(todo') => Elements(todo') \cap FrameRowRequests = {}
    BY <1>1, <1>2 DEF ApplyInv
  <2>2. \A r \in Writes(call.st) \ Elements(todo') : Done(ec, r)
    BY <1>1, <1>2 DEF ApplyInv
  <2>3. slot = None \/ Done(ec, slot)
    OBVIOUS
  <2> QED
    BY <1>1, <1>2, <2>1, <2>2, <2>3 DEF ApplyInv, Calling
<1>4. CallInv'
  BY <1>1, <1>3 DEF CallInv, RestoreInv, RestoreOnlyInv, RecoverInv, TargetInv, SampleInv, Calling
<1>5. Harmless'
  BY <1>1 DEF Harmless
<1>6. SettingsInv'
  BY <1>1 DEF SettingsInv, Calling
<1>7. SessionInv'
  BY <1>1, <1>2, <1>4, <1>5, <1>6, ExchangeKeeps DEF SessionType, Calling
<1> QED
  BY <1>1, <1>7 DEF view, Calling

LEMMA AppliedZone ==
    ASSUME NEW e \in Registers, NEW st \in Applied, NEW z \in Zones, \A r \in FanWrites(st) : Done(e, r)
    PROVE  /\ HeldIn(e, z) = ZoneSetting(st.perf_mode, StartFan(st))
           /\ e.zone[ZoneByte(z)].mode \in {0, 1, 4}
<1> DEFINE m == st.perf_mode
           manual == st.fan # AutoFan
           n == MaxRpm \div 100
<1>1. m \in PerfMode /\ manual \in BOOLEAN /\ n \in Speeds /\ 100 * n = MaxRpm
  BY AppliedIs, PowerOnSpeed
<1>2. Done(e, SetPowerMode(z, m, manual))
  BY DEF FanWrites
<1>3. manual => Done(e, SetFanRpm(z, n))
  BY DEF FanWrites
<1>4. e.zone[ZoneByte(z)].mode = ModeByte(m) /\ e.zone[ZoneByte(z)].manual = Bit(manual)
  BY <1>1, <1>2, FanDone, ZenonT(60)
<1>5. e.zone[ZoneByte(z)].mode \in {0, 1, 4}
  BY <1>1, <1>4, Bytes
<1>6. HeldIn(e, z).mode = EcMode(m)
  BY <1>1, <1>4, <1>5, HeldInIs
<1>7. HeldIn(e, z).fan = IF manual THEN MaxRpm ELSE Firmware
  <2>1. CASE manual
    <3>1. e.zone[ZoneByte(z)].manual = 1
      BY <1>4, <2>1 DEF Bit
    <3>2. e.zone[ZoneByte(z)].rpm = 100 * n
      BY <1>1, <1>3, <2>1, FanDone
    <3> QED
      BY <1>1, <2>1, <3>1, <3>2 DEF HeldIn
  <2>2. CASE ~manual
    <3>1. e.zone[ZoneByte(z)].manual = 0
      BY <1>4, <2>2 DEF Bit
    <3> QED
      BY <2>2, <3>1 DEF HeldIn
  <2> QED
    BY <2>1, <2>2
<1>8. StartFan(st) = IF manual THEN MaxRpm ELSE Firmware
  BY DEF StartFan
<1>9. HeldIn(e, z) = [mode |-> HeldIn(e, z).mode, fan |-> HeldIn(e, z).fan]
  BY DEF HeldIn
<1>10. ZoneSetting(m, StartFan(st)) = [mode |-> EcMode(m), fan |-> StartFan(st)]
  BY DEF ZoneSetting
<1> HIDE DEF m, manual, n
<1>11. HeldIn(e, z) = ZoneSetting(m, StartFan(st))
  BY <1>6, <1>7, <1>8, <1>9, <1>10
<1> QED
  BY <1>5, <1>11 DEF m

LEMMA ApplyIsComplete ==
    ASSUME SessionInv, Exchanged, Calling({"apply"}), slot' = slot, slot \in {None, todo[1]},
           Done(ec, todo[1]), live' = live, vouched' = Zones, settled' = call.st,
           Len(todo) = 1, Returned(TRUE)
    PROVE  SessionInv' /\ CoreStep
<1> USE DEF SessionInv
<1> DEFINE st == call.st
<1>1. /\ ApplyInv /\ todo \in Seq(Wire) /\ call.op = "apply" /\ st \in Applied
      /\ ec \in Registers /\ before \in HwType
  BY NextReport, CallIs DEF CallInv, Calling, SessionType, BeforeInv
<1>2. UNCHANGED <<ec, before>> /\ call' = None /\ todo' = << >> /\ failed' = FALSE /\ ok' = TRUE
  BY <1>1 DEF Exchanged, Returned
<1>3. \A r \in Writes(st) : Done(ec, r)
  <2>1. Elements(todo) = {todo[1]}
    BY DEF Elements
  <2> QED
    BY <1>1, <2>1 DEF ApplyInv, Calling
<1>4. live = TRUE /\ before.live = TRUE
  BY <1>1 DEF ApplyInv, SessionType
<1> HIDE DEF st
<1>5. \A z \in Zones : /\ HeldIn(ec, z) = ZoneSetting(st.perf_mode, StartFan(st))
                       /\ ec.zone[ZoneByte(z)].mode \in {0, 1, 4}
  BY <1>1, <1>3, AppliedZone DEF Writes
<1>6. Harmless'
  BY <1>2, <1>5 DEF Harmless, SessionType
<1>7. SettingsInv'
  BY <1>2, <1>3, NoneIsNothing DEF SettingsInv, Writes, Wire, st
<1>8. SessionInv'
  BY <1>1, <1>2, <1>6, <1>7, NoCall, ShortReports, ExchangeKeeps DEF SessionType, st
<1>9. Backend' = FullyApplied(before, st)
  <2> DEFINE k == FullyApplied(before, st)
  <2>1. /\ k \in HwType /\ k.live = TRUE /\ k.settings = EcSettings(st)
        /\ \A z \in Zones : k.zone[z] = ZoneSetting(st.perf_mode, StartFan(st))
    BY <1>1, <1>4, AppliedFields
  <2>2. settled' # None
    BY <1>1, NoneIsNothing DEF st
  <2>3. /\ Backend' \in HwType /\ Backend'.live = TRUE /\ Backend'.settings = EcSettings(st)
        /\ \A z \in Zones : Backend'.zone[z] = HeldIn(ec, z)
    BY <1>2, <1>4, <1>8, <2>2, NextBackendIs DEF st
  <2> HIDE DEF k
  <2>4. /\ Backend'.live = k.live /\ Backend'.settings = k.settings
        /\ \A z \in Zones : Backend'.zone[z] = k.zone[z]
    BY <1>5, <2>1, <2>3
  <2>5. Backend' = k
    BY <2>1, <2>3, <2>4, SameHw
  <2> QED
    BY <2>5 DEF k
<1>10. OkWith(FullyApplied(before, st)) \in ApplyOutcomes(before, st)
  BY <1>4 DEF ApplyOutcomes
<1>11. view = before /\ view' = FullyApplied(before, st)
  BY <1>2, <1>9 DEF view, Calling
<1>12. Calls!Returns(ApplyOutcomes(view, st))
  BY <1>2, <1>10, <1>11 DEF Calls!Returns, OkWith
<1>13. Calls!Call
  BY <1>1, <1>12, SameOutcomes DEF Calls!Call
<1> QED
  BY <1>8, <1>13 DEF CoreStep

\* An apply that cannot go on returns the fans to the firmware.
LEMMA ApplyRecovers ==
    ASSUME SessionInv, Exchanged, Calling({"apply"}), StartRecovery, live' \in {live, FALSE},
           vouched' = {}, settled' = None
    PROVE  SessionInv' /\ UNCHANGED <<view, ok>>
<1> USE DEF SessionInv
<1> DEFINE m == call.st.perf_mode
           r1 == SetPowerMode("fan1", m, FALSE)
           r2 == SetPowerMode("fan2", m, FALSE)
<1>1. ApplyInv /\ call.op = "apply" /\ call.st \in Applied /\ m \in PerfMode
  BY CallIs DEF CallInv, Calling, SessionType
<1>2. /\ call' \in BackendCalls /\ call'.op = "recover" /\ call'.mode = m /\ call' # None
      /\ failed' = TRUE /\ UNCHANGED <<ok, before>> /\ todo' = RestoreReports(m)
  BY <1>1, NoneIsNothing DEF StartRecovery, BackendCalls
<1>3. todo' = <<r1, r2>>
  BY <1>1, <1>2, RestoreReportsAre
<1>4. r1 \in Wire /\ r2 \in Wire /\ Reset("fan1")' = r1 /\ Reset("fan2")' = r2
  BY <1>1, <1>2, FanReportsAreWire DEF Reset, Zones
<1> HIDE DEF r1, r2
<1>5. todo' \in Seq(Wire) /\ todo' # << >> /\ Len(todo') = 2
  BY <1>3, <1>4, ShortReports
<1>6. RestoreInv' /\ RecoverInv'
  BY <1>1, <1>2, <1>3, <1>4, <1>5 DEF RestoreInv, RecoverInv, ApplyInv
<1>7. CallInv'
  BY <1>2, <1>6 DEF CallInv, ApplyInv, RestoreOnlyInv, TargetInv, SampleInv, Calling
<1>8. Harmless' /\ SettingsInv'
  BY DEF Harmless, SettingsInv
<1>9. SessionInv'
  BY <1>2, <1>5, <1>7, <1>8, ExchangeKeeps DEF SessionType
<1> QED
  BY <1>2, <1>9 DEF view, Calling

LEMMA ZonesAre ==
    /\ \A mode, manual : /\ ZonesOf(<<SetPowerMode("fan1", mode, manual)>>) = {"fan1"}
                         /\ ZonesOf(<<SetPowerMode("fan2", mode, manual)>>) = {"fan2"}
    /\ \A n : /\ ZonesOf(<<SetFanRpm("fan1", n), SetFanRpm("fan2", n)>>) = Zones
              /\ ZonesOf(<<SetFanRpm("fan2", n)>>) = {"fan2"}
<1>1. /\ \A z, mode, manual : SetPowerMode(z, mode, manual).args[2] = ZoneByte(z)
      /\ \A z, n : SetFanRpm(z, n).args[2] = ZoneByte(z)
  BY DEF SetPowerMode, SetFanRpm, Report
<1>2. \A r : ZonesOf(<<r>>) = {z \in Zones : r.args[2] = ZoneByte(z)}
  BY DEF ZonesOf
<1>3. \A r, s : ZonesOf(<<r, s>>) = {z \in Zones : r.args[2] = ZoneByte(z) \/ s.args[2] = ZoneByte(z)}
  <2> SUFFICES ASSUME NEW r, NEW s
               PROVE  ZonesOf(<<r, s>>) = {z \in Zones : r.args[2] = ZoneByte(z) \/ s.args[2] = ZoneByte(z)}
    OBVIOUS
  <2>1. DOMAIN <<r, s>> = {1, 2} /\ <<r, s>>[1] = r /\ <<r, s>>[2] = s
    OBVIOUS
  <2> QED
    BY <2>1 DEF ZonesOf
<1>4. \A y, z \in Zones : ZoneByte(y) = ZoneByte(z) <=> y = z
  BY ZoneOfReport
<1> QED
  BY <1>1, <1>2, <1>3, <1>4 DEF Zones

LEMMA RestoreNow ==
    ASSUME SessionInv, Calling({"restore", "recover"})
    PROVE  /\ call.mode \in PerfMode /\ \E st \in Applied : st.perf_mode = call.mode
           /\ \A z \in Zones : Reset(z) \in Wire /\ \A y \in Zones : Rezones(Reset(z), y) <=> y = z
           /\ Len(todo) = 2 => /\ todo[1] = Reset("fan1") /\ Tail(todo) = <<Reset("fan2")>>
                               /\ ZonesOf(<<todo[1]>>) = {"fan1"}
           /\ Len(todo) # 2 => /\ todo[1] = Reset("fan2") /\ Len(todo) = 1
                               /\ ZonesOf(<<todo[1]>>) = {"fan2"}
           /\ call.op = "restore" \/ call.op = "recover"
<1>1. call \in BackendCalls /\ (call.op = "restore" \/ call.op = "recover")
  BY DEF SessionInv, SessionType, Calling
<1>2. call.mode \in {st.perf_mode : st \in Applied}
  BY <1>1 DEF BackendCalls
<1>3. call.mode \in PerfMode
  BY <1>1, CallIs
<1>4. \A z \in Zones : Reset(z) \in Wire /\ \A y \in Zones : Rezones(Reset(z), y) <=> y = z
  BY <1>3, FanReportsAreWire, ZoneOfReport DEF Reset
<1>5. ZonesOf(<<Reset("fan1")>>) = {"fan1"} /\ ZonesOf(<<Reset("fan2")>>) = {"fan2"}
  BY ZonesAre DEF Reset
<1>6. todo = <<Reset("fan1"), Reset("fan2")>> \/ todo = <<Reset("fan2")>>
  BY DEF SessionInv, CallInv, RestoreInv
<1>7. \E st \in Applied : st.perf_mode = call.mode
  BY <1>2
<1> DEFINE r1 == Reset("fan1")
           r2 == Reset("fan2")
<1>8. CASE todo = <<r1, r2>>
  <2> HIDE DEF r1, r2
  <2>1. todo[1] = r1 /\ Tail(todo) = <<r2>> /\ Len(todo) = 2
    BY <1>8, Pairs
  <2> QED
    BY <1>1, <1>3, <1>4, <1>5, <1>7, <2>1 DEF r1, r2
<1>9. CASE todo = <<r2>>
  <2> HIDE DEF r1, r2
  <2>1. todo[1] = r2 /\ Len(todo) = 1
    BY <1>9, Pairs
  <2> QED
    BY <1>1, <1>3, <1>4, <1>5, <1>7, <2>1 DEF r1, r2
<1> QED
  BY <1>6, <1>8, <1>9

\* After the first fan comes the second.
LEMMA RestoreGoesOn ==
    ASSUME SessionInv, Exchanged, Calling({"restore", "recover"}), Len(todo) = 2,
           NEW f \in BOOLEAN, Advanced(f), call.op = "recover" => f,
           vouched' \in SUBSET Zones, settled' \in {settled, None}, live' \in {live, FALSE},
           ~live' => vouched' = {} /\ settled' = None /\ f,
           live' => settled' = settled /\ slot' = slot /\ slot \in {None, todo[1]},
           "fan1" \in vouched' => Done(ec, Reset("fan1")),
           ~f => "fan1" \in vouched',
           "fan2" \in vouched' <=> live' /\ "fan2" \in vouched,
           call.op = "restore" /\ live' /\ f => ("fan1" \in vouched' <=> Kept("fan1"))
    PROVE  SessionInv' /\ UNCHANGED <<view, ok>>
<1> USE DEF SessionInv
<1>1. /\ UNCHANGED <<ec, before, call, ok>> /\ failed' = f /\ call # None
      /\ todo[1] = Reset("fan1") /\ todo' = <<Reset("fan2")>> /\ Len(todo') = 1
      /\ Reset("fan1") \in Wire /\ Reset("fan2") \in Wire /\ call.mode \in PerfMode
      /\ call.op = "restore" \/ call.op = "recover"
      /\ ec \in Registers /\ Zones = {"fan1", "fan2"}
  BY RestoreNow, Pairs DEF Exchanged, Advanced, SessionType, Calling, Zones
<1>2. todo' \in Seq(Wire) /\ todo' # << >>
  BY <1>1, ShortReports
<1>3. /\ \A z : Reset(z)' = Reset(z) /\ Kept(z)' = Kept(z)
      /\ Rezones(Reset("fan1"), "fan1") /\ ~Rezones(Reset("fan1"), "fan2")
  BY <1>1, RestoreNow DEF Reset, Kept
<1>4. RestoreInv'
  BY <1>1, <1>3 DEF CallInv, RestoreInv, Calling
<1>5. RestoreOnlyInv'
  BY <1>1, <1>3 DEF CallInv, RestoreOnlyInv, Calling, SettingsNow, SessionType
<1>6. RecoverInv'
  BY <1>1 DEF CallInv, RecoverInv, Calling
<1>7. CallInv'
  BY <1>1, <1>4, <1>5, <1>6 DEF CallInv, ApplyInv, TargetInv, SampleInv, Calling
<1>8. Harmless'
  <2> SUFFICES ASSUME NEW z \in vouched'
               PROVE  /\ ec.zone[ZoneByte(z)].mode \in {0, 1, 4}
                      /\ slot # None /\ Rezones(slot, z) => Done(ec, slot)
    BY <1>1 DEF Harmless
  <2>1. live' /\ slot \in {None, Reset("fan1")}
    BY <1>1
  <2>2. CASE z = "fan1"
    <3>1. Done(ec, SetPowerMode("fan1", call.mode, FALSE))
      BY <2>2 DEF Reset
    <3>2. ec.zone[ZoneByte("fan1")].mode \in {0, 1, 4}
      BY <1>1, <3>1, ResetHeld
    <3> QED
      BY <2>1, <2>2, <3>2
  <2>3. CASE z = "fan2"
    BY <1>3, <2>1, <2>3 DEF Harmless
  <2> QED
    BY <1>1, <2>2, <2>3
<1>9. SettingsInv'
  BY <1>1 DEF SettingsInv, Calling
<1>10. SessionInv'
  BY <1>1, <1>2, <1>7, <1>8, <1>9, ExchangeKeeps DEF SessionType
<1> QED
  BY <1>1, <1>10 DEF view

LEMMA LostBackend ==
    ASSUME SessionType', Harmless', live' = FALSE, vouched' = {}, settled' = None,
           NEW g \in HwType
    PROVE  Backend' = Lost(g)
<1>1. /\ Lost(g) \in HwType /\ Lost(g).live = FALSE /\ Lost(g).settings = Unsure
      /\ \A z \in Zones : Lost(g).zone[z] = Unsure
  BY HwFields, DisturbedType
<1>2. /\ Backend' \in HwType /\ Backend'.live = FALSE /\ Backend'.settings = Unsure
      /\ \A z \in Zones : Backend'.zone[z] = Unsure
  BY NextBackendIs
<1>3. /\ Backend'.live = Lost(g).live /\ Backend'.settings = Lost(g).settings
      /\ \A z \in Zones : Backend'.zone[z] = Lost(g).zone[z]
  BY <1>1, <1>2
<1> QED
  BY <1>1, <1>2, <1>3, SameHw

\* The second fan is the last one.
LEMMA RestoreEnds ==
    ASSUME SessionInv, Exchanged, Calling({"restore", "recover"}), Len(todo) = 1,
           NEW result \in BOOLEAN, Returned(result), call.op = "recover" => ~result,
           vouched' \in SUBSET Zones, settled' \in {settled, None}, live' \in {live, FALSE},
           ~live' => vouched' = {} /\ settled' = None /\ ~result,
           live' => settled' = settled /\ slot' = slot /\ slot \in {None, todo[1]},
           \A z \in vouched' : Done(ec, Reset(z)),
           NEW acked \in SUBSET Zones, result <=> acked = Zones,
           call.op = "restore" /\ live' => \A z \in Zones : z \in vouched' <=> z \in acked \/ Kept(z),
           slot # None /\ live' => ("fan2" \in vouched' => Done(ec, slot))
    PROVE  SessionInv' /\ CoreStep
<1> USE DEF SessionInv
<1> DEFINE m == call.mode
<1>1. /\ UNCHANGED <<ec, before>> /\ call' = None /\ todo' = << >> /\ failed' = FALSE /\ ok' = result
      /\ todo[1] = Reset("fan2") /\ m \in PerfMode /\ ec \in Registers /\ before \in HwType
      /\ ~Rezones(Reset("fan2"), "fan1") /\ Zones = {"fan1", "fan2"} /\ before.live = TRUE
      /\ call.op = "restore" \/ call.op = "recover"
  <2>1. UNCHANGED <<ec, before>> /\ call' = None /\ todo' = << >> /\ failed' = FALSE
    BY DEF Exchanged, Returned
  <2>2. /\ todo[1] = Reset("fan2") /\ m \in PerfMode /\ Zones = {"fan1", "fan2"}
        /\ \A y \in Zones : Rezones(Reset("fan2"), y) <=> y = "fan2"
        /\ call.op = "restore" \/ call.op = "recover"
    BY RestoreNow DEF Zones
  <2>3. ok' = result
    BY <2>2 DEF Returned
  <2>4. ec \in Registers /\ before \in HwType /\ before.live = TRUE
    BY DEF SessionType, BeforeInv, CallInv, RestoreInv
  <2>5. ~Rezones(Reset("fan2"), "fan1")
    BY <2>2
  <2> QED
    BY <2>1, <2>2, <2>3, <2>4, <2>5
<1>2. \A z \in vouched' : /\ HeldIn(ec, z) = ZoneSetting(m, Firmware)
                          /\ ec.zone[ZoneByte(z)].mode \in {0, 1, 4}
  BY <1>1, ResetHeld DEF Reset
<1>3. Harmless'
  BY <1>1, <1>2 DEF Harmless
<1>4. SettingsInv'
  BY <1>1 DEF SettingsInv, Calling
<1>5. SessionInv'
  BY <1>1, <1>3, <1>4, NoCall, ShortReports, ExchangeKeeps DEF SessionType
<1>6. view = before /\ view' = Backend'
  BY <1>1 DEF view, Exchanged
<1>7. PICK st \in Applied : st.perf_mode = m
  BY RestoreNow
<1> HIDE DEF m
<1>8. CASE ~live'
  <2>1. Backend' = Lost(before)
    BY <1>1, <1>5, <1>8, LostBackend DEF SessionType
  <2>2. /\ FailWith(Lost(before)) \in RestoreOutcomes(before, m)
        /\ FailWith(Lost(before)) \in ApplyOutcomes(before, st)
    BY <1>1 DEF RestoreOutcomes, ApplyOutcomes
  <2>3. ok' = FALSE
    BY <1>1, <1>8
  <2>4. Calls!Returns(RestoreOutcomes(view, m))
    BY <1>6, <2>1, <2>2, <2>3 DEF Calls!Returns, FailWith
  <2> QED
    BY <1>5, <1>7, <2>4, SameOutcomes DEF CoreStep, Calls!Call
<1>9. CASE live' /\ call.op = "restore"
  <2> DEFINE k == InFirmware(before, m, acked)
             setting == ZoneSetting(m, Firmware)
  <2>1. /\ k \in HwType /\ k.live = before.live /\ k.settings = before.settings
        /\ \A z \in Zones : k.zone[z] = IF z \in acked \/ before.zone[z] = setting THEN setting ELSE Unsure
    BY <1>1, RestoredFields
  <2>2. /\ Backend' \in HwType /\ Backend'.live = live' /\ Backend'.settings = SettingsNow
        /\ \A z \in Zones : Backend'.zone[z] = IF z \in vouched' THEN HeldIn(ec, z) ELSE Unsure
    BY <1>1, <1>5, <1>9, NextBackendIs DEF SettingsNow
  <2>3. before.settings = SettingsNow /\ live' = TRUE
    BY <1>9 DEF CallInv, RestoreOnlyInv, Calling, Exchanged, SessionType
  <2>4. \A z \in Zones : z \in vouched' <=> z \in acked \/ before.zone[z] = setting
    BY <1>9 DEF Kept, m
  <2> HIDE DEF k, setting
  <2>5. \A z \in Zones : Backend'.zone[z] = k.zone[z]
    BY <1>2, <2>1, <2>2, <2>4 DEF setting
  <2>6. Backend'.live = k.live /\ Backend'.settings = k.settings
    BY <1>1, <2>1, <2>2, <2>3
  <2>7. Backend' = k
    BY <2>1, <2>2, <2>5, <2>6, SameHw
  <2>8. [ok |-> result, h |-> k] \in RestoreOutcomes(before, m)
    <3>1. CASE result
      <4>1. [ok |-> result, h |-> k] = OkWith(InFirmware(before, m, Zones))
        BY <3>1 DEF OkWith, k
      <4> QED
        BY <1>1, <4>1 DEF RestoreOutcomes
    <3>2. CASE ~result
      <4>1. acked \in (SUBSET Zones) \ {Zones}
        BY <3>2
      <4>2. [ok |-> result, h |-> k] = FailWith(InFirmware(before, m, acked))
        BY <3>2 DEF FailWith, k
      <4> QED
        BY <1>1, <4>1, <4>2 DEF RestoreOutcomes
    <3> QED
      BY <3>1, <3>2
  <2>9. Calls!Returns(RestoreOutcomes(view, m))
    BY <1>1, <1>6, <2>7, <2>8 DEF Calls!Returns
  <2> QED
    BY <1>5, <1>7, <2>9, SameOutcomes DEF CoreStep, Calls!Call
<1>10. CASE live' /\ call.op = "recover"
  <2> DEFINE d == Disturbed(before)
             v == vouched'
             k == InFirmware(d, m, v)
             setting == ZoneSetting(m, Firmware)
  <2>1. d \in HwType /\ d.live = TRUE /\ d.settings = Unsure /\ \A z \in Zones : d.zone[z] = Unsure
    BY <1>1, HwFields, DisturbedType
  <2>2. setting # Unsure
    BY <1>1, ZoneSettingType
  <2> HIDE DEF d
  <2>3. /\ k \in HwType /\ k.live = d.live /\ k.settings = d.settings
        /\ \A z \in Zones : k.zone[z] = IF z \in v \/ d.zone[z] = setting THEN setting ELSE Unsure
    BY <1>1, <2>1, RestoredFields
  <2>4. settled' = None /\ result = FALSE /\ live' = TRUE
    BY <1>10 DEF CallInv, RecoverInv, Calling, Exchanged, SessionType
  <2>5. /\ Backend' \in HwType /\ Backend'.live = TRUE /\ Backend'.settings = Unsure
        /\ \A z \in Zones : Backend'.zone[z] = IF z \in v THEN HeldIn(ec, z) ELSE Unsure
    BY <1>1, <1>5, <2>4, NextBackendIs
  <2>6. \A z \in v : HeldIn(ec, z) = setting
    BY <1>2
  <2> HIDE DEF k, setting, v
  <2>7. /\ Backend'.live = k.live /\ Backend'.settings = k.settings
        /\ \A z \in Zones : Backend'.zone[z] = k.zone[z]
    BY <2>1, <2>2, <2>3, <2>5, <2>6
  <2>8. Backend' = k
    BY <2>3, <2>5, <2>7, SameHw
  <2>9. \E q \in RestoreOutcomes(d, st.perf_mode) : q.h = k
    <3>1. v \in SUBSET Zones /\ ~(~d.live) /\ st.perf_mode = m
      BY <1>7, <2>1 DEF v
    <3>2. CASE v = Zones
      <4>1. OkWith(k) \in RestoreOutcomes(d, st.perf_mode)
        BY <3>1, <3>2 DEF RestoreOutcomes, k
      <4> QED
        BY <4>1 DEF OkWith
    <3>3. CASE v # Zones
      <4>1. FailWith(k) \in RestoreOutcomes(d, st.perf_mode)
        BY <3>1, <3>3 DEF RestoreOutcomes, k
      <4> QED
        BY <4>1 DEF FailWith
    <3> QED
      BY <3>2, <3>3
  <2>10. FailWith(k) \in ApplyOutcomes(before, st)
    BY <1>1, <2>9 DEF ApplyOutcomes, d
  <2>11. Calls!Returns(ApplyOutcomes(view, st))
    BY <1>1, <1>6, <2>4, <2>8, <2>10 DEF Calls!Returns, FailWith
  <2> QED
    BY <1>5, <2>11, SameOutcomes DEF CoreStep, Calls!Call
<1> QED
  BY <1>1, <1>8, <1>9, <1>10 DEF SessionType

LEMMA RestoreAcknowledged ==
    ASSUME SessionInv, Exchanged, Calling({"restore", "recover"}), live, live' = live, slot' = slot,
           slot \in {None, todo[1]}, Done(ec, todo[1]), Advance(failed),
           vouched' = vouched \cup ZonesOf(<<todo[1]>>), settled' = settled
    PROVE  SessionInv' /\ CoreStep
<1>1. /\ RestoreInv /\ RestoreOnlyInv /\ RecoverInv /\ failed \in BOOLEAN
      /\ vouched \in SUBSET Zones /\ live = TRUE
  BY DEF SessionInv, SessionType, CallInv
<1>2. CASE Len(todo) = 2
  <2>1. Advanced(failed)
    BY <1>2 DEF Advance, Return, Returned, Advanced
  <2>2. vouched' = vouched \cup {"fan1"} /\ todo[1] = Reset("fan1")
    BY <1>2, RestoreNow
  <2>3. vouched' \in SUBSET Zones
    BY <1>1, <2>2 DEF Zones
  <2>4. call.op = "recover" => failed = TRUE
    BY <1>1 DEF RecoverInv, Calling
  <2>5. call.op = "restore" => failed = FALSE
    BY <1>1, <1>2 DEF RestoreOnlyInv, Calling
  <2>6. SessionInv' /\ UNCHANGED <<view, ok>>
    BY <1>1, <1>2, <2>1, <2>2, <2>3, <2>4, <2>5, RestoreGoesOn
  <2> QED
    BY <2>6 DEF CoreStep
<1>3. CASE Len(todo) # 2
  <2> DEFINE result == ~failed
             acked == IF failed THEN {"fan2"} ELSE Zones
  <2>1. Len(todo) = 1 /\ vouched' = vouched \cup {"fan2"} /\ todo[1] = Reset("fan2")
    BY <1>3, RestoreNow
  <2>2. Returned(result)
    BY <2>1 DEF Advance, Return, Returned, Advanced
  <2>3. result \in BOOLEAN /\ acked \in SUBSET Zones /\ (result <=> acked = Zones)
    BY <1>1 DEF Zones
  <2>4. call.op = "recover" => ~result
    BY <1>1 DEF RecoverInv, Calling
  <2>5. vouched' \in SUBSET Zones
    BY <1>1, <2>1 DEF Zones
  <2>6. \A z \in vouched' : Done(ec, Reset(z))
    BY <1>1, <2>1 DEF RestoreInv, Zones
  <2>7. ASSUME call.op = "restore"
        PROVE  \A z \in Zones : z \in vouched' <=> z \in acked \/ Kept(z)
    <3>1. failed => ("fan1" \in vouched <=> Kept("fan1"))
      BY <1>1, <2>1, <2>7 DEF RestoreOnlyInv, Calling
    <3>2. ~failed => "fan1" \in vouched
      BY <1>1, <2>1 DEF RestoreInv
    <3> QED
      BY <2>1, <3>1, <3>2 DEF Zones
  <2>8. slot # None => Done(ec, slot)
    BY <2>1
  <2> HIDE DEF result, acked
  <2> QED
    BY <1>1, <2>1, <2>2, <2>3, <2>4, <2>5, <2>6, <2>7, <2>8, RestoreEnds
<1> QED
  BY <1>2, <1>3

LEMMA RestoreGivesUp ==
    ASSUME SessionInv, Exchanged, Calling({"restore", "recover"}), live' = live, slot' = slot,
           live => slot \in {None, todo[1]}, Advance(TRUE),
           vouched' = vouched \ (ZonesOf(<<todo[1]>>) \ {z \in Zones : call.op = "restore" /\ Kept(z)}),
           settled' = settled
    PROVE  SessionInv' /\ CoreStep
<1>1. /\ RestoreInv /\ RestoreOnlyInv /\ RecoverInv /\ failed \in BOOLEAN
      /\ vouched \in SUBSET Zones /\ live \in BOOLEAN
  BY DEF SessionInv, SessionType, CallInv
<1>2. vouched' \in SUBSET Zones /\ (~live => vouched' = {} /\ settled' = None)
  BY <1>1 DEF RestoreInv
<1>3. CASE Len(todo) = 2
  <2>1. Advanced(TRUE)
    BY <1>3 DEF Advance, Return, Returned, Advanced
  <2>2. /\ vouched' = vouched \ ({"fan1"} \ {z \in Zones : call.op = "restore" /\ Kept(z)})
        /\ todo[1] = Reset("fan1")
    BY <1>3, RestoreNow
  <2>3. call.op = "restore" /\ Kept("fan1") => "fan1" \in vouched /\ Done(ec, Reset("fan1"))
    BY <1>1, <1>3 DEF RestoreOnlyInv, Calling
  <2>4. "fan1" \in vouched' <=> call.op = "restore" /\ Kept("fan1")
    <3>1. "fan1" \in vouched' <=> "fan1" \in vouched /\ call.op = "restore" /\ Kept("fan1")
      BY <2>2 DEF Zones
    <3> QED
      BY <2>3, <3>1
  <2>5. "fan2" \in vouched' <=> live /\ "fan2" \in vouched
    BY <1>1, <2>2 DEF RestoreInv
  <2>6. SessionInv' /\ UNCHANGED <<view, ok>>
    BY <1>1, <1>2, <1>3, <2>1, <2>3, <2>4, <2>5, RestoreGoesOn
  <2> QED
    BY <2>6 DEF CoreStep
<1>4. CASE Len(todo) # 2
  <2> DEFINE acked == IF failed THEN {} ELSE {"fan1"}
  <2>1. /\ Len(todo) = 1 /\ todo[1] = Reset("fan2")
        /\ vouched' = vouched \ ({"fan2"} \ {z \in Zones : call.op = "restore" /\ Kept(z)})
    BY <1>4, RestoreNow
  <2>2. Returned(FALSE)
    BY <2>1 DEF Advance, Return, Returned, Advanced
  <2>3. acked \in SUBSET Zones /\ acked # Zones
    BY <1>1 DEF Zones
  <2>4. live /\ call.op = "restore" /\ Kept("fan2") => "fan2" \in vouched /\ Done(ec, Reset("fan2"))
    BY <1>1 DEF RestoreOnlyInv, Calling
  <2>5. "fan2" \in vouched' => live /\ call.op = "restore" /\ Kept("fan2")
    BY <1>1, <2>1 DEF RestoreInv
  <2>6. "fan1" \in vouched' <=> "fan1" \in vouched
    BY <2>1
  <2>7. \A z \in vouched' : Done(ec, Reset(z))
    BY <1>1, <1>2, <2>1, <2>4, <2>5, <2>6 DEF RestoreInv, Zones
  <2>8. ASSUME call.op = "restore", live
        PROVE  \A z \in Zones : z \in vouched' <=> z \in acked \/ Kept(z)
    <3>1. failed => ("fan1" \in vouched <=> Kept("fan1"))
      BY <1>1, <2>1, <2>8 DEF RestoreOnlyInv, Calling
    <3>2. ~failed => "fan1" \in vouched
      BY <1>1, <2>1 DEF RestoreInv
    <3>3. Kept("fan2") => "fan2" \in vouched'
      BY <2>1, <2>4, <2>8 DEF Zones
    <3> QED
      BY <2>5, <2>6, <3>1, <3>2, <3>3 DEF Zones
  <2>9. slot # None /\ live /\ "fan2" \in vouched' => Done(ec, slot)
    BY <2>1, <2>4, <2>5
  <2> HIDE DEF acked
  <2> QED
    BY <1>1, <1>2, <2>1, <2>2, <2>3, <2>7, <2>8, <2>9, RestoreEnds
<1> QED
  BY <1>3, <1>4

LEMMA RestoreLosesHandle ==
    ASSUME SessionInv, Exchanged, Calling({"restore", "recover"}), live' = FALSE, Advance(TRUE),
           vouched' = {}, settled' = None
    PROVE  SessionInv' /\ CoreStep
<1>1. live \in BOOLEAN
  BY DEF SessionInv, SessionType
<1>2. CASE Len(todo) = 2
  <2>1. Advanced(TRUE)
    BY <1>2 DEF Advance, Return, Returned, Advanced
  <2>2. SessionInv' /\ UNCHANGED <<view, ok>>
    BY <1>1, <1>2, <2>1, RestoreGoesOn
  <2> QED
    BY <2>2 DEF CoreStep
<1>3. CASE Len(todo) # 2
  <2>1. Len(todo) = 1
    BY <1>3, RestoreNow
  <2>2. Returned(FALSE)
    BY <2>1 DEF Advance, Return, Returned, Advanced
  <2>3. {} \in SUBSET Zones /\ {} # Zones
    BY DEF Zones
  <2> QED
    BY <1>1, <2>1, <2>2, <2>3, RestoreEnds
<1> QED
  BY <1>2, <1>3

LEMMA TargetNow ==
    ASSUME SessionInv, Calling({"target"})
    PROVE  /\ TargetInv /\ call.op = "target" /\ call # None
           /\ call.rpm \in Targets /\ call.rpm \in Nat /\ live = TRUE /\ failed = FALSE
           /\ before \in HwType /\ before.live = TRUE /\ before.settings = SettingsNow
           /\ MayTarget(before) /\ vouched = Zones /\ ec \in Registers
           /\ \A z \in Zones : /\ Speed(z) \in Wire /\ \A y \in Zones : Rezones(Speed(z), y) <=> y = z
                               /\ ec.zone[ZoneByte(z)].mode \in {0, 1, 4}
                               /\ Done(ec, Speed(z)) =>
                                      HeldIn(ec, z) = [before.zone[z] EXCEPT !.fan = call.rpm]
           /\ Len(todo) = 2 => /\ todo[1] = Speed("fan1") /\ Tail(todo) = <<Speed("fan2")>>
                               /\ ZonesOf(todo) = Zones
           /\ Len(todo) # 2 => /\ todo[1] = Speed("fan2") /\ Len(todo) = 1
                               /\ ZonesOf(todo) = {"fan2"}
<1>1. /\ TargetInv /\ call \in BackendCalls /\ call.op = "target" /\ call # None
      /\ live \in BOOLEAN /\ failed = FALSE /\ ec \in Registers /\ before \in HwType /\ Harmless
  BY DEF SessionInv, SessionType, CallInv, TargetInv, BeforeInv, Calling
<1>2. /\ call.rpm \in Targets /\ live = TRUE /\ before.live = TRUE /\ before.settings = SettingsNow
      /\ MayTarget(before) /\ vouched = Zones
  BY <1>1, CallIs DEF TargetInv, Calling
<1> DEFINE n == (Clamp(call.rpm, MinRpm, MaxRpm) \div 100) % 256
<1>3. n \in Speeds /\ 100 * n = call.rpm /\ call.rpm \in Nat
  BY <1>2, TargetSpeed
<1>4. \A z : Speed(z) = SetFanRpm(z, n)
  BY DEF Speed
<1> HIDE DEF n
<1>5. \A z \in Zones : Speed(z) \in Wire /\ \A y \in Zones : Rezones(Speed(z), y) <=> y = z
  BY <1>3, <1>4, FanReportsAreWire, ZoneOfReport
<1>6. ASSUME NEW z \in Zones
      PROVE  /\ ec.zone[ZoneByte(z)].mode \in {0, 1, 4}
             /\ Done(ec, Speed(z)) => HeldIn(ec, z) = [before.zone[z] EXCEPT !.fan = call.rpm]
  <2>1. ec.zone[ZoneByte(z)].mode \in {0, 1, 4}
    BY <1>1, <1>2 DEF Harmless
  <2>2. ASSUME Done(ec, Speed(z))
        PROVE  HeldIn(ec, z) = [before.zone[z] EXCEPT !.fan = call.rpm]
    <3>1. ec.zone[ZoneByte(z)].rpm = call.rpm
      BY <1>1, <1>3, <1>4, <2>2, FanDone
    <3>2. /\ ec.zone[ZoneByte(z)].manual = 1
          /\ before.zone[z] = [mode |-> HeldIn(ec, z).mode, fan |-> before.zone[z].fan]
      BY <1>1 DEF TargetInv, Calling, ZoneHeld, HeldIn
    <3>3. HeldIn(ec, z).fan = call.rpm
      BY <1>1, <2>1, <3>1, <3>2, HeldInIs
    <3>4. HeldIn(ec, z) = [mode |-> HeldIn(ec, z).mode, fan |-> HeldIn(ec, z).fan]
      BY DEF HeldIn
    <3>5. \A a, b, c : [[mode |-> a, fan |-> b] EXCEPT !.fan = c] = [mode |-> a, fan |-> c]
      OBVIOUS
    <3> DEFINE a == HeldIn(ec, z).mode
               b == before.zone[z].fan
    <3>6. [[mode |-> a, fan |-> b] EXCEPT !.fan = call.rpm] = [mode |-> a, fan |-> call.rpm]
      BY <3>5
    <3>7. before.zone[z] = [mode |-> a, fan |-> b] /\ HeldIn(ec, z) = [mode |-> a, fan |-> call.rpm]
      BY <3>2, <3>3, <3>4
    <3> HIDE DEF a, b
    <3> QED
      BY <3>6, <3>7
  <2> QED
    BY <2>1, <2>2
<1> DEFINE r1 == Speed("fan1")
           r2 == Speed("fan2")
<1>7. ZonesOf(<<r1, r2>>) = Zones /\ ZonesOf(<<r2>>) = {"fan2"}
  BY <1>4, ZonesAre
<1>8. todo = <<r1, r2>> \/ todo = <<r2>>
  BY <1>1 DEF TargetInv, Calling
<1>9. /\ Len(todo) = 2 => todo[1] = r1 /\ Tail(todo) = <<r2>> /\ ZonesOf(todo) = Zones
      /\ Len(todo) # 2 => todo[1] = r2 /\ Len(todo) = 1 /\ ZonesOf(todo) = {"fan2"}
  <2> HIDE DEF r1, r2
  <2>1. CASE todo = <<r1, r2>>
    BY <1>7, <2>1, Pairs
  <2>2. CASE todo = <<r2>>
    BY <1>7, <2>2, Pairs
  <2> QED
    BY <1>8, <2>1, <2>2
<1>10. \A z \in Zones :
           /\ ec.zone[ZoneByte(z)].mode \in {0, 1, 4}
           /\ Done(ec, Speed(z)) => HeldIn(ec, z) = [before.zone[z] EXCEPT !.fan = call.rpm]
  BY <1>6
<1> HIDE DEF r1, r2
<1> QED
  BY <1>1, <1>2, <1>3, <1>5, <1>9, <1>10 DEF r1, r2

LEMMA TargetGoesOn ==
    ASSUME SessionInv, Exchanged, Calling({"target"}), Len(todo) = 2, Advanced(failed),
           live' = live, slot' = slot, slot \in {None, todo[1]}, Done(ec, todo[1]),
           UNCHANGED <<vouched, settled>>
    PROVE  SessionInv' /\ UNCHANGED <<view, ok>>
<1> USE DEF SessionInv
<1>1. /\ UNCHANGED <<ec, before, call, ok, failed>> /\ call # None /\ call.op = "target"
      /\ todo[1] = Speed("fan1") /\ todo' = <<Speed("fan2")>> /\ Len(todo') = 1
      /\ Speed("fan2") \in Wire
  BY TargetNow, Pairs DEF Exchanged, Advanced, Zones
<1>2. todo' \in Seq(Wire) /\ todo' # << >>
  BY <1>1, ShortReports
<1>3. /\ \A z : Speed(z)' = Speed(z) /\ ZoneHeld(z)' = ZoneHeld(z)
      /\ SettingsNow' = SettingsNow
  BY <1>1 DEF Speed, ZoneHeld, SettingsNow
<1>4. TargetInv'
  BY <1>1, <1>3, TargetNow DEF TargetInv, Calling
<1>5. CallInv'
  BY <1>1, <1>4 DEF CallInv, ApplyInv, RestoreInv, RestoreOnlyInv, RecoverInv, SampleInv, Calling
<1>6. Harmless'
  BY <1>1 DEF Harmless
<1>7. SettingsInv'
  BY <1>1 DEF SettingsInv, Calling
<1>8. SessionInv'
  BY <1>1, <1>2, <1>5, <1>6, <1>7, ExchangeKeeps DEF SessionType
<1> QED
  BY <1>1, <1>8 DEF view

LEMMA TargetEnds ==
    ASSUME SessionInv, Exchanged, Calling({"target"}), NEW result \in BOOLEAN, Returned(result),
           live' = live, settled' = settled, slot' = slot, slot \in {None, todo[1]},
           NEW acked, acked \in {Zones, {}, {"fan1"}}, result <=> acked = Zones, vouched' = acked,
           \A z \in acked : /\ Done(ec, Speed(z))
                            /\ slot # None /\ Rezones(slot, z) => Done(ec, slot)
    PROVE  SessionInv' /\ CoreStep
<1> USE DEF SessionInv
<1> DEFINE rpm == call.rpm
           k == WithTarget(before, rpm, acked)
<1>1. /\ UNCHANGED <<ec, before>> /\ call' = None /\ todo' = << >> /\ failed' = FALSE /\ ok' = result
      /\ call.op = "target" /\ call # None /\ rpm \in Targets /\ rpm \in Nat /\ acked \in SUBSET Zones
      /\ live = TRUE /\ before \in HwType /\ before.live = TRUE /\ MayTarget(before)
      /\ before.settings = SettingsNow
  <2>1. UNCHANGED <<ec, before>> /\ call' = None /\ todo' = << >> /\ failed' = FALSE
    BY DEF Exchanged, Returned
  <2>2. /\ call.op = "target" /\ call # None /\ rpm \in Targets /\ rpm \in Nat
        /\ live = TRUE /\ before \in HwType /\ before.live = TRUE /\ MayTarget(before)
        /\ before.settings = SettingsNow
    BY TargetNow
  <2>3. ok' = result /\ acked \in SUBSET Zones
    BY <2>2 DEF Returned, Zones
  <2> QED
    BY <2>1, <2>2, <2>3
<1>2. \A z \in acked : /\ ec.zone[ZoneByte(z)].mode \in {0, 1, 4}
                       /\ HeldIn(ec, z) = [before.zone[z] EXCEPT !.fan = rpm]
  BY <1>1, TargetNow
<1>3. Harmless'
  BY <1>1, <1>2 DEF Harmless
<1>4. SettingsInv'
  BY <1>1 DEF SettingsInv, Calling
<1>5. SessionInv'
  BY <1>1, <1>3, <1>4, NoCall, ShortReports, ExchangeKeeps DEF SessionType
<1>6. /\ k \in HwType /\ k.live = before.live /\ k.settings = before.settings
      /\ \A z \in Zones : k.zone[z] = IF before.zone[z] = Unsure \/ z \notin acked THEN Unsure
                                      ELSE [before.zone[z] EXCEPT !.fan = rpm]
  BY <1>1, TargetFields
<1>7. /\ Backend' \in HwType /\ Backend'.live = TRUE /\ Backend'.settings = before.settings
      /\ \A z \in Zones : Backend'.zone[z] = IF z \in acked THEN HeldIn(ec, z) ELSE Unsure
  BY <1>1, <1>5, NextBackendIs DEF SettingsNow
<1>8. \A z \in Zones : before.zone[z] # Unsure
  BY <1>1 DEF MayTarget
<1> HIDE DEF k
<1>9. Backend'.live = k.live /\ Backend'.settings = k.settings
  BY <1>1, <1>6, <1>7
<1> HIDE DEF rpm
<1>10. \A z \in Zones : Backend'.zone[z] = k.zone[z]
  <2> SUFFICES ASSUME NEW z \in Zones PROVE Backend'.zone[z] = k.zone[z]
    OBVIOUS
  <2>1. CASE z \in acked
    <3>1. Backend'.zone[z] = HeldIn(ec, z)
      BY <1>7, <2>1
    <3>2. k.zone[z] = [before.zone[z] EXCEPT !.fan = rpm]
      BY <1>6, <1>8, <2>1
    <3>3. HeldIn(ec, z) = [before.zone[z] EXCEPT !.fan = rpm]
      BY <1>2, <2>1
    <3> QED
      BY <3>1, <3>2, <3>3
  <2>2. CASE z \notin acked
    BY <1>6, <1>7, <2>2
  <2> QED
    BY <2>1, <2>2
<1>11. Backend' = k
  BY <1>6, <1>7, <1>9, <1>10, SameHw
<1>12. [ok |-> result, h |-> k] \in TargetOutcomes(before, rpm)
  <2>1. CASE acked = Zones
    <3>1. [ok |-> result, h |-> k] = OkWith(WithTarget(before, rpm, Zones))
      BY <2>1 DEF OkWith, k
    <3> QED
      BY <1>1, <3>1 DEF TargetOutcomes
  <2>2. CASE acked # Zones
    <3>1. [ok |-> result, h |-> k] = FailWith(k)
      BY <2>2 DEF FailWith
    <3>2. k \in {WithTarget(before, rpm, a) : a \in {{}, {"fan1"}}}
      BY <2>2 DEF k
    <3>3. FailWith(k) \in TargetOutcomes(before, rpm)
      BY <1>1, <3>2 DEF TargetOutcomes
    <3> QED
      BY <3>1, <3>3
  <2> QED
    BY <2>1, <2>2
<1>13. view = before /\ view' = k
  BY <1>1, <1>11 DEF view
<1>14. Calls!Returns(TargetOutcomes(view, rpm))
  BY <1>1, <1>12, <1>13 DEF Calls!Returns
<1>15. Calls!MaySetTarget(view)
  BY <1>1, <1>13 DEF Calls!MaySetTarget, MayTarget, Calls!Zones, Zones
<1> QED
  BY <1>1, <1>5, <1>14, <1>15, SameOutcomes DEF CoreStep, Calls!Call

LEMMA TargetAcknowledged ==
    ASSUME SessionInv, Exchanged, Calling({"target"}), live' = live, slot' = slot,
           slot \in {None, todo[1]}, Done(ec, todo[1]), Advance(failed), UNCHANGED <<vouched, settled>>
    PROVE  SessionInv' /\ CoreStep
<1>1. CASE Len(todo) = 2
  <2>1. Advanced(failed)
    BY <1>1 DEF Advance, Return, Returned, Advanced
  <2>2. SessionInv' /\ UNCHANGED <<view, ok>>
    BY <1>1, <2>1, TargetGoesOn
  <2> QED
    BY <2>2 DEF CoreStep
<1>2. CASE Len(todo) # 2
  <2>1. /\ Len(todo) = 1 /\ todo[1] = Speed("fan2") /\ failed = FALSE /\ vouched = Zones
        /\ TargetInv /\ call # None
    BY <1>2, TargetNow
  <2>2. Returned(TRUE)
    BY <2>1 DEF Advance, Return, Returned
  <2>3. \A z \in Zones : Done(ec, Speed(z))
    BY <2>1 DEF TargetInv, Zones
  <2> QED
    BY <2>1, <2>2, <2>3, TargetEnds
<1> QED
  BY <1>1, <1>2

LEMMA TargetGivesUp ==
    ASSUME SessionInv, Exchanged, Calling({"target"}), live' = live, slot' = slot,
           slot \in {None, todo[1]}, Return(FALSE), vouched' = vouched \ ZonesOf(todo), settled' = settled
    PROVE  SessionInv' /\ CoreStep
<1>1. Returned(FALSE) /\ vouched = Zones /\ Zones = {"fan1", "fan2"} /\ TargetInv
  BY TargetNow DEF Return, Returned, Zones
<1>2. CASE Len(todo) = 2
  <2>1. vouched' = {} /\ {} # Zones
    BY <1>1, <1>2, TargetNow
  <2> QED
    BY <1>1, <2>1, TargetEnds
<1>3. CASE Len(todo) # 2
  <2>1. /\ ZonesOf(todo) = {"fan2"} /\ Len(todo) = 1 /\ todo[1] = Speed("fan2")
        /\ ~Rezones(Speed("fan2"), "fan1")
    BY <1>1, <1>3, TargetNow
  <2>2. vouched' = {"fan1"} /\ {"fan1"} # Zones
    BY <1>1, <2>1
  <2>3. Done(ec, Speed("fan1"))
    BY <1>1, <2>1 DEF TargetInv
  <2>4. \A z \in {"fan1"} : Done(ec, Speed(z)) /\ ~Rezones(todo[1], z)
    BY <2>1, <2>3
  <2> QED
    BY <1>1, <2>2, <2>4, TargetEnds
<1> QED
  BY <1>2, <1>3

LEMMA TargetLosesHandle ==
    ASSUME SessionInv, Exchanged, Calling({"target"}), live' = FALSE, Return(FALSE),
           vouched' = {}, settled' = None
    PROVE  SessionInv' /\ CoreStep
<1>1. /\ UNCHANGED <<ec, before>> /\ call' = None /\ todo' = << >> /\ failed' = FALSE /\ ok' = FALSE
      /\ call.rpm \in Targets /\ before \in HwType /\ before.live = TRUE /\ MayTarget(before)
      /\ call # None
  BY TargetNow DEF Exchanged, Return
<1>2. Harmless' /\ SettingsInv'
  BY <1>1 DEF Harmless, SettingsInv
<1>3. SessionInv'
  BY <1>1, <1>2, NoCall, ShortReports, ExchangeKeeps DEF SessionInv, SessionType
<1>4. Backend' = Lost(before)
  BY <1>1, <1>3, LostBackend DEF SessionInv
<1>5. view = before /\ view' = Lost(before)
  BY <1>1, <1>4 DEF view
<1>6. FailWith(Lost(before)) \in TargetOutcomes(before, call.rpm)
  BY <1>1 DEF TargetOutcomes
<1>7. Calls!Returns(TargetOutcomes(view, call.rpm))
  BY <1>1, <1>5, <1>6 DEF Calls!Returns, FailWith
<1>8. Calls!MaySetTarget(view)
  BY <1>1, <1>5 DEF Calls!MaySetTarget, MayTarget, Calls!Zones, Zones
<1> QED
  BY <1>1, <1>3, <1>7, <1>8, SameOutcomes DEF CoreStep, Calls!Call

LEMMA SampleAdvances ==
    ASSUME SessionInv, Exchanged, Calling({"sample"}), NEW f \in BOOLEAN, Advance(f),
           live' \in BOOLEAN, vouched' \in SUBSET Zones, settled' \in Applied \cup {None},
           Harmless', SettingsInv', Backend' \in {before, Lost(before)}
    PROVE  SessionInv' /\ CoreStep
<1> USE DEF SessionInv
<1> DEFINE r1 == GetFanRpm("fan1")
           r2 == GetFanRpm("fan2")
<1>1. call # None /\ call.op = "sample" /\ UNCHANGED before /\ call \in BackendCalls /\ ok \in BOOLEAN
  BY DEF Exchanged, Calling, SessionType
<1>2. todo = <<r1, r2>> \/ todo = <<r2>>
  BY DEF CallInv, SampleInv
<1>3. r1 \in Wire /\ r2 \in Wire
  BY FanReportsAreWire DEF Zones
<1> HIDE DEF r1, r2
<1>4. CASE todo = <<r1, r2>>
  <2>1. Len(todo) # 1 /\ Tail(todo) = <<r2>>
    BY <1>4, Pairs
  <2>2. todo' = <<r2>> /\ failed' = f /\ UNCHANGED <<call, ok>>
    BY <2>1 DEF Advance
  <2>3. todo' \in Seq(Wire) /\ todo' # << >>
    BY <1>3, <2>2, ShortReports
  <2>4. SampleInv'
    BY <1>1, <2>2 DEF SampleInv, r2
  <2>5. CallInv'
    BY <1>1, <2>2, <2>4 DEF CallInv, ApplyInv, RestoreInv, RestoreOnlyInv, RecoverInv, TargetInv, Calling
  <2>6. SessionInv'
    BY <1>1, <2>2, <2>3, <2>5, ExchangeKeeps
  <2>7. UNCHANGED <<view, ok>>
    BY <1>1, <2>2 DEF view
  <2> QED
    BY <2>6, <2>7 DEF CoreStep
<1>5. CASE todo = <<r2>>
  <2>1. Len(todo) = 1
    BY <1>5, Pairs
  <2>2. call' = None /\ todo' = << >> /\ failed' = FALSE /\ ok' = ok
    BY <1>1, <2>1 DEF Advance, Return
  <2>3. SessionInv'
    BY <1>1, <2>2, NoCall, ShortReports, ExchangeKeeps
  <2>4. view = before /\ view' = Backend'
    BY <1>1, <2>2 DEF view
  <2>5. view' \in SampleOutcomes(view)
    BY <2>4 DEF SampleOutcomes
  <2>6. Calls!Sample
    BY <2>2, <2>5, SameOutcomes DEF Calls!Sample
  <2> QED
    BY <2>3, <2>6 DEF CoreStep
<1> QED
  BY <1>2, <1>4, <1>5

LEMMA SampleGoesOn ==
    ASSUME SessionInv, Exchanged, Calling({"sample"}), Advance(failed),
           live' = live, slot' = slot, UNCHANGED <<vouched, settled>>
    PROVE  SessionInv' /\ CoreStep
<1>1. /\ UNCHANGED <<ec, before>> /\ call # None /\ call.op = "sample" /\ SessionType /\ Harmless
      /\ SettingsInv /\ SampleInv
  BY DEF Exchanged, Calling, SessionInv, CallInv
<1>2. \A z \in Zones : ~Rezones(todo[1], z)
  <2>1. todo[1] \in {GetFanRpm("fan1"), GetFanRpm("fan2")}
    BY <1>1, Pairs DEF SampleInv, Calling
  <2> QED
    BY <2>1, ZoneOfReport DEF Zones
<1>3. Harmless'
  BY <1>1, <1>2 DEF Harmless, SessionType
<1>4. SettingsInv'
  BY <1>1 DEF SettingsInv, Calling
<1>5. Backend' = Backend /\ Backend \in {before, Lost(before)}
  BY <1>1 DEF Backend, ZoneHeld, SampleInv
<1>6. failed \in BOOLEAN /\ live' \in BOOLEAN /\ vouched' \in SUBSET Zones /\ settled' \in Applied \cup {None}
  BY <1>1 DEF SessionType
<1> QED
  BY <1>3, <1>4, <1>5, <1>6, SampleAdvances

LEMMA SampleLosesHandle ==
    ASSUME SessionInv, Exchanged, Calling({"sample"}), Advance(FALSE),
           live' = FALSE, vouched' = {}, settled' = None
    PROVE  SessionInv' /\ CoreStep
<1>1. Harmless' /\ SettingsInv'
  BY DEF Harmless, SettingsInv
<1>2. before \in HwType /\ ec' \in Registers
  BY DEF SessionInv, BeforeInv, SessionType, Exchanged
<1> DEFINE k == BackendWith(ec', FALSE, {}, None)
<1>3. Backend' = k
  BY DEF Backend, BackendWith
<1>4. /\ k \in HwType /\ k.live = FALSE /\ k.settings = Unsure
      /\ \A z \in Zones : k.zone[z] = Unsure
  <2>1. k = [live |-> FALSE, zone |-> [z \in Zones |-> Unsure], settings |-> Unsure]
    BY DEF BackendWith
  <2> HIDE DEF k
  <2>2. k.live = FALSE /\ k.settings = Unsure /\ \A z \in Zones : k.zone[z] = Unsure
    BY <2>1
  <2>3. k \in HwType
    BY <2>1 DEF HwType, Zone
  <2> QED
    BY <2>2, <2>3
<1> HIDE DEF k
<1>5. /\ Lost(before) \in HwType /\ Lost(before).live = FALSE /\ Lost(before).settings = Unsure
      /\ \A z \in Zones : Lost(before).zone[z] = Unsure
  BY <1>2, HwFields, DisturbedType
<1>6. /\ k.live = Lost(before).live /\ k.settings = Lost(before).settings
      /\ \A z \in Zones : k.zone[z] = Lost(before).zone[z]
  BY <1>4, <1>5
<1>7. k = Lost(before)
  BY <1>4, <1>5, <1>6, SameHw
<1>8. Backend' \in {before, Lost(before)} /\ vouched' \in SUBSET Zones
  BY <1>3, <1>7
<1> QED
  BY <1>1, <1>8, SampleAdvances

-----------------------------------------------------------------------------
(* The steps of an exchange.                                                *)

LEMMA CallKinds ==
    ASSUME SessionInv, call # None
    PROVE  \/ Calling({"apply"}) /\ call.op = "apply"
           \/ Calling({"restore", "recover"}) /\ call.op \in {"restore", "recover"}
           \/ Calling({"target"}) /\ call.op = "target"
           \/ Calling({"sample"}) /\ call.op = "sample"
BY CallIs DEF SessionInv, SessionType, Calling

LEMMA Attempted ==
    /\ \A f : Advance(f) => UNCHANGED before /\ sent' = FALSE /\ attempt' = 1
    /\ \A f : Return(f) => UNCHANGED before /\ sent' = FALSE /\ attempt' = 1
    /\ StartRecovery => UNCHANGED before /\ sent' = FALSE /\ attempt' = 1
BY DEF Advance, Return, StartRecovery

LEMMA GiveUpKeeps ==
    ASSUME SessionInv, call # None, GiveUp, answer' = None, UNCHANGED <<ec, slot, live, misled>>,
           live => slot \in {None, todo[1]}
    PROVE  SessionInv' /\ CoreStep
<1>1. CASE Calling({"apply"}) /\ call.op = "apply"
  <2>1. StartRecovery /\ vouched' = {} /\ settled' = None
    BY <1>1 DEF GiveUp
  <2>2. Exchanged
    BY <2>1, Attempted DEF Exchanged
  <2> QED
    BY <1>1, <2>1, <2>2, ApplyRecovers DEF CoreStep
<1>2. CASE Calling({"target"}) /\ call.op = "target"
  <2>1. Return(FALSE) /\ vouched' = vouched \ ZonesOf(todo) /\ settled' = settled
    BY <1>2 DEF GiveUp
  <2>2. Exchanged
    BY <2>1, Attempted DEF Exchanged
  <2>3. live = TRUE
    BY <1>2, TargetNow
  <2> QED
    BY <1>2, <2>1, <2>2, <2>3, TargetGivesUp
<1>3. CASE Calling({"restore", "recover"}) /\ call.op \in {"restore", "recover"}
  <2>1. /\ Advance(TRUE) /\ settled' = settled
        /\ vouched' = vouched \ (ZonesOf(<<todo[1]>>) \ {z \in Zones : call.op = "restore" /\ Kept(z)})
    BY <1>3 DEF GiveUp, Kept
  <2>2. Exchanged
    BY <2>1 DEF Exchanged, Advance, Return
  <2> QED
    BY <1>3, <2>1, <2>2, RestoreGivesUp
<1>4. CASE Calling({"sample"}) /\ call.op = "sample"
  <2>1. Advance(failed) /\ UNCHANGED <<vouched, settled>>
    BY <1>4 DEF GiveUp, beliefs
  <2>2. Exchanged
    BY <2>1, Attempted DEF Exchanged
  <2> QED
    BY <1>4, <2>1, <2>2, SampleGoesOn
<1> QED
  BY <1>1, <1>2, <1>3, <1>4, CallKinds

LEMMA LoseHandleKeeps ==
    ASSUME SessionInv, call # None, LoseHandle, answer' = None, UNCHANGED <<ec, misled>>,
           slot' \in {slot, todo[1]}
    PROVE  SessionInv' /\ CoreStep
<1>1. live' = FALSE /\ vouched' = {} /\ settled' = None
  BY DEF LoseHandle
<1>2. CASE Calling({"apply"}) /\ call.op = "apply"
  <2>1. StartRecovery
    BY <1>2 DEF LoseHandle
  <2>2. Exchanged
    BY <2>1, Attempted DEF Exchanged
  <2> QED
    BY <1>1, <1>2, <2>1, <2>2, ApplyRecovers DEF CoreStep
<1>3. CASE Calling({"target"}) /\ call.op = "target"
  <2>1. Return(FALSE)
    BY <1>3 DEF LoseHandle
  <2>2. Exchanged
    BY <2>1, Attempted DEF Exchanged
  <2> QED
    BY <1>1, <1>3, <2>1, <2>2, TargetLosesHandle
<1>4. CASE Calling({"restore", "recover"}) /\ call.op \in {"restore", "recover"}
  <2>1. Advance(TRUE)
    BY <1>4 DEF LoseHandle
  <2>2. Exchanged
    BY <2>1 DEF Exchanged, Advance, Return
  <2> QED
    BY <1>1, <1>4, <2>1, <2>2, RestoreLosesHandle
<1>5. CASE Calling({"sample"}) /\ call.op = "sample"
  <2>1. Advance(FALSE)
    BY <1>5 DEF LoseHandle
  <2>2. Exchanged
    BY <2>1 DEF Exchanged, Advance, Return
  <2> QED
    BY <1>1, <1>5, <2>1, <2>2, SampleLosesHandle
<1> QED
  BY <1>2, <1>3, <1>4, <1>5, CallKinds

LEMMA SuccessKeeps ==
    ASSUME SessionInv, ~StaleAnswers, ReceiveSuccess
    PROVE  SessionInv' /\ CoreStep
<1>1. /\ call # None /\ live = TRUE /\ slot \in {None, todo[1]} /\ answer.to = todo[1] /\ Done(ec, todo[1])
      /\ misled = FALSE
  BY DEF ReceiveSuccess, Intact, SessionInv, Talk, SessionType
<1>2. /\ UNCHANGED <<ec, slot, live, misled>> /\ answer' = None /\ Acknowledged
  BY <1>1 DEF ReceiveSuccess, Forgotten
<1>3. Advance(failed)
  BY <1>2 DEF Acknowledged
<1>4. Exchanged
  BY <1>1, <1>2, <1>3, Attempted DEF Exchanged
<1>5. CASE Calling({"apply"}) /\ call.op = "apply"
  <2>1. failed = FALSE
    BY <1>5 DEF SessionInv, CallInv, ApplyInv
  <2>2. CASE Len(todo) = 1
    <3>1. Returned(TRUE)
      BY <1>3, <2>1, <2>2 DEF Advance, Return, Returned
    <3>2. vouched' = Zones /\ settled' = call.st
      BY <1>2, <1>5, <2>2 DEF Acknowledged
    <3> QED
      BY <1>1, <1>2, <1>4, <1>5, <2>2, <3>1, <3>2, ApplyIsComplete
  <2>3. CASE Len(todo) # 1
    <3>1. Advanced(failed)
      BY <1>3, <2>3 DEF Advance, Advanced
    <3>2. UNCHANGED <<vouched, settled>>
      BY <1>2, <1>5, <2>3 DEF Acknowledged, beliefs
    <3> QED
      BY <1>1, <1>2, <1>4, <1>5, <2>3, <3>1, <3>2, ApplyGoesOn DEF CoreStep
  <2> QED
    BY <2>2, <2>3
<1>6. CASE Calling({"restore", "recover"}) /\ call.op \in {"restore", "recover"}
  <2>1. vouched' = vouched \cup ZonesOf(<<todo[1]>>) /\ settled' = settled
    BY <1>2, <1>6 DEF Acknowledged
  <2> QED
    BY <1>1, <1>2, <1>3, <1>4, <1>6, <2>1, RestoreAcknowledged
<1>7. CASE Calling({"target"}) /\ call.op = "target"
  <2>1. UNCHANGED <<vouched, settled>>
    BY <1>2, <1>7 DEF Acknowledged, beliefs
  <2> QED
    BY <1>1, <1>2, <1>3, <1>4, <1>7, <2>1, TargetAcknowledged
<1>8. CASE Calling({"sample"}) /\ call.op = "sample"
  <2>1. UNCHANGED <<vouched, settled>>
    BY <1>2, <1>8 DEF Acknowledged, beliefs
  <2> QED
    BY <1>2, <1>3, <1>4, <1>8, <2>1, SampleGoesOn
<1> QED
  BY <1>1, <1>5, <1>6, <1>7, <1>8, CallKinds

LEMMA ExchangeStep ==
    ASSUME SessionInv, ~StaleAnswers, Exchange
    PROVE  SessionInv' /\ CoreStep
<1>1. ASSUME sent PROVE call # None /\ live = TRUE /\ slot \in {None, todo[1]}
  BY <1>1 DEF SessionInv, SessionType, Talk
<1>2. CASE Send
  BY <1>2, SendKeeps DEF CoreStep
<1>3. CASE SendFails
  <2>1. /\ call # None /\ LoseHandle /\ answer' = None /\ UNCHANGED <<ec, misled>>
        /\ slot' \in {slot, todo[1]}
    BY <1>3 DEF SendFails, Idle, Forgotten
  <2> QED
    BY <2>1, LoseHandleKeeps
<1>4. CASE ReceiveFails
  <2>1. /\ call # None /\ LoseHandle /\ answer' = None /\ UNCHANGED <<ec, misled>>
        /\ slot' \in {slot, todo[1]}
    BY <1>1, <1>4 DEF ReceiveFails, Forgotten
  <2> QED
    BY <2>1, LoseHandleKeeps
<1>5. CASE NoHandle
  <2>1. /\ call # None /\ ~live /\ GiveUp /\ UNCHANGED <<ec, slot, answer, live, misled>>
    BY <1>5 DEF NoHandle, Idle, device
  <2>2. answer' = None
    BY <2>1 DEF SessionInv, Talk
  <2> QED
    BY <2>1, <2>2, GiveUpKeeps
<1>6. ASSUME sent, Retry, UNCHANGED <<ec, slot, live, misled>>
      PROVE  SessionInv' /\ CoreStep
  BY <1>6, RetryKeeps DEF CoreStep
<1>7. ASSUME sent, Reject, UNCHANGED <<ec, slot, live, misled>>
      PROVE  SessionInv' /\ CoreStep
  <2>1. GiveUp /\ answer' = None
    BY <1>7 DEF Reject, Forgotten
  <2> QED
    BY <1>1, <1>7, <2>1, GiveUpKeeps
<1>8. CASE ReceiveInvalid
  BY <1>6, <1>7, <1>8 DEF ReceiveInvalid
<1>9. CASE ReceiveBusy
  BY <1>6, <1>7, <1>9 DEF ReceiveBusy
<1>10. CASE ReceiveFailure
  BY <1>7, <1>10 DEF ReceiveFailure
<1>11. CASE ReceiveSuccess
  BY <1>11, SuccessKeeps
<1> QED
  BY <1>2, <1>3, <1>4, <1>5, <1>8, <1>9, <1>10, <1>11 DEF Exchange

LEMMA BothReset ==
    ASSUME NEW a, NEW b, NEW c, NEW d, NEW e
    PROVE  [[live |-> a, zone |-> b, settings |-> c] EXCEPT !.zone = d, !.settings = e]
               = [live |-> a, zone |-> d, settings |-> e]
<1> DEFINE r == [live |-> a, zone |-> b, settings |-> c]
<1>1. [r EXCEPT !.zone = d] = [live |-> a, zone |-> d, settings |-> c]
  OBVIOUS
<1>2. [[live |-> a, zone |-> d, settings |-> c] EXCEPT !.settings = e]
          = [live |-> a, zone |-> d, settings |-> e]
  OBVIOUS
<1> HIDE DEF r
<1>3. [r EXCEPT !.zone = d, !.settings = e] = [[r EXCEPT !.zone = d] EXCEPT !.settings = e]
  OBVIOUS
<1> QED
  BY <1>1, <1>2, <1>3 DEF r

LEMMA SessionBegins ==
    ASSUME SessionInit
    PROVE  SessionInv /\ Calls!Init
<1> USE DEF SessionInit
<1>1. SessionType
  BY PowerOnAssumption, ShortReports DEF SessionType
<1>2. Talk /\ Harmless /\ SettingsInv
  BY DEF Talk, Harmless, SettingsInv
<1>3. CallInv
  BY DEF CallInv, ApplyInv, RestoreInv, RestoreOnlyInv, RecoverInv, TargetInv, SampleInv, Calling
<1>4. FrameInv
  <2>1. None # ShowFrame
    BY NoneIsNothing DEF Wire, SettingRequests, LightingRequests
  <2> QED
    BY <2>1, PowerOnAssumption DEF FrameInv, FramesAreWhole
<1> DEFINE k == [live |-> FALSE, zone |-> [z \in Zones |-> Unsure], settings |-> Unsure]
<1>5. Calls!NoBackend = k
  <2>1. Calls!NoBackend = [[live |-> FALSE, zone |-> Unsure, settings |-> Unsure]
                              EXCEPT !.zone = [z \in Zones |-> Unsure], !.settings = Unsure]
    BY DEF Calls!NoBackend, Calls!Disturbed, Calls!Zones, Zones
  <2> QED
    BY <2>1, BothReset
<1>6. k \in HwType
  BY DEF HwType, Zone
<1>7. BeforeInv
  BY <1>5, <1>6 DEF BeforeInv
<1>8. Backend = k
  BY DEF Backend
<1>9. Calls!Init
  BY <1>5, <1>8 DEF Calls!Init, view
<1> QED
  BY <1>1, <1>2, <1>3, <1>4, <1>7, <1>9 DEF SessionInv

LEMMA SessionStep ==
    ASSUME SessionInv, ~StaleAnswers, [SessionNext]_sessionVars
    PROVE  SessionInv' /\ CoreStep
<1>1. CASE BeginSome
  BY <1>1, BeginSomeKeeps
<1>2. CASE Exchange
  BY <1>2, ExchangeStep
<1>3. CASE Open \/ Close \/ Sleep
  BY <1>3, OpenKeeps, CloseKeeps, SleepKeeps
<1>4. CASE Process
  <2>1. SessionInv' /\ (call = None => Backend' = Backend)
    BY <1>4, ProcessKeeps
  <2>2. UNCHANGED <<view, ok>>
    BY <1>4, <2>1 DEF view, Process, progress
  <2> QED
    BY <2>1, <2>2 DEF CoreStep
<1>5. CASE Refuse \/ Busy
  BY <1>5, RefuseKeeps, BusyKeeps DEF CoreStep
<1>6. CASE UNCHANGED sessionVars
  <2>1. /\ UNCHANGED <<ec, slot, answer, live, call, todo, sent, attempt, failed>>
        /\ UNCHANGED <<vouched, settled, before, ok, misled>>
    BY <1>6 DEF sessionVars, device, progress, beliefs
  <2>2. SessionType' /\ Talk'
    BY <2>1 DEF SessionInv, SessionType, Talk
  <2>3. Harmless' /\ CallInv' /\ BeforeInv' /\ SettingsInv' /\ FrameInv' /\ Backend' = Backend
    BY <2>1, OnlyTheSlot
  <2> QED
    BY <2>1, <2>2, <2>3 DEF SessionInv, CoreStep, view
<1> QED
  BY <1>1, <1>2, <1>3, <1>4, <1>5, <1>6 DEF SessionNext

-----------------------------------------------------------------------------
(* What holds for every laptop of the table, every set of preferences and   *)
(* every schedule of the bus.                                               *)

\* The invariant: what the daemon vouches for is in the controller, between
\* any two steps of a call, its retries and its recovery (razer.rs 211-377).
THEOREM SessionIsInvariant ==
    ASSUME ~StaleAnswers
    PROVE  SessionSpec => []SessionInv
<1>1. SessionInit => SessionInv
  BY SessionBegins
<1>2. SessionInv /\ [SessionNext]_sessionVars => SessionInv'
  BY SessionStep
<1> QED
  BY <1>1, <1>2, PTL DEF SessionSpec

\* Refinement: seen from the core, every call of the backend, however its
\* reports are retried, lost, answered late or given up, is one step of EcCalls
\* with an outcome EcDevice lists (razer.rs 253-292, 326-347).
THEOREM CallsRefineEcDevice ==
    ASSUME ~StaleAnswers
    PROVE  SessionSpec => CallsAreAsEcDeviceSays
<1>1. SessionInit => SessionInv /\ Calls!Init
  BY SessionBegins
<1>2. SessionInv /\ [SessionNext]_sessionVars =>
          /\ SessionInv'
          /\ [Calls!Sample \/ Calls!Call \/ Calls!Open \/ Calls!Close \/ Calls!Sleep]_<<view, ok>>
  BY SessionStep DEF CoreStep
<1> QED
  BY <1>1, <1>2, PTL DEF SessionSpec, CallsAreAsEcDeviceSays, Calls!Spec

\* A frame the keyboard shows has one colour: the rows of an effect that was
\* given up are never activated (lighting.rs 11-23).
THEOREM FramesStayWhole ==
    ASSUME ~StaleAnswers
    PROVE  SessionSpec => []FramesAreWhole
<1>1. SessionInv => FramesAreWhole
  BY DEF SessionInv, FrameInv
<1> QED
  BY <1>1, SessionIsInvariant, PTL

LEMMA LogoIsShown ==
    ASSUME NEW st \in Applied, HasLogo, ec \in Registers,
           \A r \in LogoWrites(st.logo_led) : Done(ec, r)
    PROVE  LogoShown = st.logo_led
<1>1. st.logo_led \in {"off", "static", "breathing"}
  BY AppliedIs DEF LogoMode
<1>2. CASE st.logo_led = "off"
  <2>1. Done(ec, SetLogoState(FALSE))
    BY <1>2 DEF LogoWrites
  <2>2. ec.logo_on = 0
    BY <2>1, SettingDone DEF Bit
  <2> QED
    BY <1>2, <2>2 DEF LogoShown
<1>3. CASE st.logo_led = "breathing"
  <2>1. Done(ec, SetLogoState(TRUE)) /\ Done(ec, SetLogoEffect(2))
    BY <1>3 DEF LogoWrites
  <2>2. ec.logo_on = 1 /\ ec.logo_effect = 2
    BY <2>1, SettingDone DEF Bit
  <2> QED
    BY <1>3, <2>2 DEF LogoShown
<1>4. CASE st.logo_led = "static"
  <2>1. Done(ec, SetLogoState(TRUE)) /\ Done(ec, SetLogoEffect(0))
    BY <1>4 DEF LogoWrites
  <2>2. ec.logo_on = 1 /\ ec.logo_effect = 0
    BY <2>1, SettingDone DEF Bit
  <2> QED
    BY <1>4, <2>2 DEF LogoShown
<1> QED
  BY <1>1, <1>2, <1>3, <1>4

LEMMA KeyboardIsShown ==
    ASSUME NEW st \in Applied, ec \in Registers,
           \A r \in KeyboardWrites(st.kbd_effect) : Done(ec, r)
    PROVE  ec.shown = [i \in Rows |-> st.kbd_effect]
<1>1. st.kbd_effect \in Effects
  BY AppliedIs
<1>2. CASE Pid = FramePid /\ st.kbd_effect \in StaticColours
  <2>1. Done(ec, ShowFrame) /\ \A row \in Rows : Done(ec, FrameRow(row, st.kbd_effect))
    BY <1>2 DEF KeyboardWrites
  <2>2. /\ Done(ec, ShowFrame) <=> ec.shown = ec.rows
        /\ \A row \in Rows, colour \in Effects : Done(ec, FrameRow(row, colour)) <=> ec.rows[row] = colour
    BY SettingDone
  <2>3. ec.shown = ec.rows /\ \A row \in Rows : ec.rows[row] = st.kbd_effect
    BY <1>1, <2>1, <2>2, Zenon
  <2> QED
    BY <2>3 DEF Registers
<1>3. CASE ~(Pid = FramePid /\ st.kbd_effect \in StaticColours)
  <2>1. Done(ec, SetKbdEffect(st.kbd_effect)) /\ ~Ignores(st.kbd_effect)
    BY <1>3 DEF KeyboardWrites, Ignores
  <2>2. \A effect \in Effects : ~Ignores(effect) =>
            (Done(ec, SetKbdEffect(effect)) <=> ec.shown = [i \in Rows |-> effect])
    BY SettingDone
  <2> QED
    BY <1>1, <2>1, <2>2, Zenon
<1> QED
  BY <1>2, <1>3

LEMMA SettledIsShown ==
    ASSUME SessionInv
    PROVE  SettingsHold
<1> SUFFICES ASSUME settled # None, Idle \/ call.op # "apply"
             PROVE  /\ EcBoosts(settled) # None =>
                           /\ ec.cpu = BoostByte(EcBoosts(settled)[1])
                           /\ ec.gpu = BoostByte(EcBoosts(settled)[2])
                    /\ HasBho => ec.bho = BhoByte(settled.bho_enabled, settled.bho_threshold)
                    /\ ec.brightness = ByteOf(settled.kbd_brightness)
                    /\ ec.shown = [i \in Rows |-> settled.kbd_effect]
                    /\ HasLogo => LogoShown = settled.logo_led
  BY DEF SettingsHold
<1>1. settled \in Applied /\ ec \in Registers
  BY DEF SessionInv, SessionType
<1>2. \A r \in SettingWrites(settled) : Done(ec, r)
  BY DEF SessionInv, SettingsInv, Calling, Idle
<1>3. ASSUME EcBoosts(settled) # None
      PROVE  /\ ec.cpu = BoostByte(EcBoosts(settled)[1])
             /\ ec.gpu = BoostByte(EcBoosts(settled)[2])
  <2>1. /\ Done(ec, SetCpuBoost(EcBoosts(settled)[1])) /\ Done(ec, SetGpuBoost(EcBoosts(settled)[2]))
        /\ EcBoosts(settled)[1] \in Boost /\ EcBoosts(settled)[2] \in Boost
    BY <1>1, <1>2, <1>3, AppliedIs DEF SettingWrites
  <2> QED
    BY <1>1, <2>1, SettingDone
<1>4. ASSUME HasBho
      PROVE  ec.bho = BhoByte(settled.bho_enabled, settled.bho_threshold)
  <2>1. Done(ec, SetBho(settled.bho_enabled, settled.bho_threshold))
    BY <1>2, <1>4 DEF SettingWrites
  <2>2. \A enabled \in BOOLEAN, threshold \in Nat :
            Done(ec, SetBho(enabled, threshold)) <=> ec.bho = BhoByte(enabled, threshold)
    BY <1>1, SettingDone
  <2>3. settled.bho_enabled \in BOOLEAN /\ settled.bho_threshold \in Nat
    BY <1>1, AppliedIs
  <2> QED
    BY <2>1, <2>2, <2>3, Zenon
<1>5. ec.brightness = ByteOf(settled.kbd_brightness)
  <2>1. Done(ec, SetBrightness(ByteOf(settled.kbd_brightness)))
    BY <1>2 DEF SettingWrites
  <2> QED
    BY <1>1, <2>1, AppliedIs, SettingDone
<1>6. ec.shown = [i \in Rows |-> settled.kbd_effect]
  BY <1>1, <1>2, KeyboardIsShown DEF SettingWrites
<1>7. HasLogo => LogoShown = settled.logo_led
  BY <1>1, <1>2, LogoIsShown DEF SettingWrites
<1> QED
  BY <1>3, <1>4, <1>5, <1>6, <1>7

\* Everything the last complete apply set beside the fans is still in the
\* controller, through every later restore, target and sample and every report
\* dealt with late (razer.rs 253-292).
THEOREM SettingsStayApplied ==
    ASSUME ~StaleAnswers
    PROVE  SessionSpec => []SettingsHold
<1>1. SessionInv => SettingsHold
  BY SettledIsShown
<1> QED
  BY <1>1, SessionIsInvariant, PTL
=============================================================================
