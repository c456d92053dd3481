------------------------------ MODULE Laptops ------------------------------
(***************************************************************************)
(* The laptops fangd controls (models.rs) and how it tells one from other   *)
(* Razer devices (razer.rs parse_approved_pid, choose_laptop, open).  A     *)
(* product is named by its four hexadecimal digits.                         *)
(***************************************************************************)
EXTENDS Naturals, Sequences, TLC

\* The limits and features of a model; a speed is in RPM.
Limits(min, max, features) ==
    [min |-> min, max |-> max, oc |-> "oc" \in features, bho |-> "bho" \in features,
     logo |-> "logo" \in features]

Lid == {"logo"}

\* MODELS, in the order of the table.
Until2018 ==
    [pid \in {"0205", "020F", "0210", "0220", "0224", "0225", "022D", "022F", "0232", "0233"} |->
        Limits(3500, 5000, Lid)]

In2019 ==
    [pid \in {"0234", "0239", "023A", "023B", "0240", "0245", "0246", "024A", "024B", "024C", "024D"} |->
        Limits(3500, IF pid \in {"023B", "0240", "0246", "024A"} THEN 5000 ELSE 5300, Lid)]

In2020 ==
    [pid \in {"0252", "0253", "0255", "0256", "0259", "0268", "026A"} |->
        Limits(3500, IF pid \in {"0253", "0256"} THEN 5300 ELSE 5000,
               (IF pid = "026A" THEN {} ELSE Lid) \cup (IF pid = "0253" THEN {"oc"} ELSE {}))]

In2021 ==
    [pid \in {"026D", "026E", "026F", "0270", "0276", "0279", "027A"} |->
        LET pro == pid \in {"026E", "0279"}
            oc == IF pid \in {"026D", "026E", "0276", "0279"} THEN {"oc"} ELSE {}
        IN  IF pro THEN Limits(2300, 4300, Lid \cup oc) ELSE Limits(3500, 5000, Lid \cup oc)]

In2022 ==
    [pid \in {"028A", "028B", "028C"} |->
        Limits(3500, 5000, Lid \cup {"oc"} \cup IF pid = "028B" THEN {} ELSE {"bho"})]

Since2023 ==
    [pid \in {"029D", "029E", "029F", "02A0", "02B6", "02B7", "02B8", "02C5", "02C6", "02C7", "02E0"} |->
        Limits(2200, 5000, {"oc", "bho", "logo"})]

Models == Until2018 @@ In2019 @@ In2020 @@ In2021 @@ In2022 @@ Since2023
FALLBACK == Limits(2200, 5000, {})

Known(pid) == pid \in DOMAIN Models
ModelOf(pid) == IF Known(pid) THEN Models[pid] ELSE FALLBACK

\* Each model satisfies what FanPolicy assumes of the limits, and each speed
\* within them fits the byte of a report.
ASSUME TableAssumption ==
    \A m \in {Models[pid] : pid \in DOMAIN Models} \cup {FALLBACK} :
        /\ 0 < m.min /\ m.min < m.max
        /\ m.min % 100 = 0 /\ m.max % 100 = 0
        /\ m.max \div 100 < 256

\* FANGD_ALLOW_UNVERIFIED_PID is [digits, hex, pid]: how many characters it
\* has after 0x, whether they are all hexadecimal, and the product they name.
Approved(value) ==
    IF value.digits \in 1..4 /\ value.hex /\ value.pid # "0000" THEN {value.pid} ELSE {}

\* choose_laptop: of the interfaces [pid, vendor] in the order of the bus, the
\* first of a known laptop, else the first approved one that is the vendor's.
ChooseLaptop(interfaces, approved) ==
    LET First(fits) == CHOOSE i \in fits : \A j \in fits : i <= j
        known == {i \in DOMAIN interfaces : Known(interfaces[i].pid)}
        allowed == {i \in DOMAIN interfaces :
                       interfaces[i].pid \in approved /\ interfaces[i].vendor}
    IN  CASE known # {} -> {interfaces[First(known)].pid}
          [] known = {} /\ allowed # {} -> {interfaces[First(allowed)].pid}
          [] OTHER -> {}
=============================================================================
