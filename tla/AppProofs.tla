----------------------------- MODULE AppProofs -----------------------------
(***************************************************************************)
(* Proofs about the app: its connection to the daemon, for any number of    *)
(* calls and connections and any size of the queue; its settings; the       *)
(* refresh rate, for any monitors and modes; the page.                      *)
(***************************************************************************)
EXTENDS StatusFeed, DaemonClient, UiSettings, DisplayMode, WellFoundedInduction, TLAPS

\* The app never changes a daemon of another version: whenever a command given to
\* one daemon reaches the next, that one refuses it (server.rs 301-308).
THEOREM OtherVersionsAreSafe == ClientSpec => []IncompatibleDaemonsAreNotChanged
<1>1. ClientInit => IncompatibleDaemonsAreNotChanged
  BY DEF ClientInit, IncompatibleDaemonsAreNotChanged
<1>2. IncompatibleDaemonsAreNotChanged /\ [ClientNext]_clientVars => IncompatibleDaemonsAreNotChanged'
  <2> SUFFICES ASSUME changed \subseteq {Mine}, [ClientNext]_clientVars
               PROVE  changed' \subseteq {Mine}
    BY DEF IncompatibleDaemonsAreNotChanged
  <2>1. CASE Process
    BY <2>1 DEF Process, Admits
  <2>2. CASE ~Process
    <3>1. UNCHANGED changed
      BY <2>2 DEF ClientNext, clientVars, Give, Enter, TimeOut, Offline, Open, Take, Close, Read, Publish
    <3> QED
      BY <3>1
  <2> QED
    BY <2>1, <2>2
<1> QED
  BY <1>1, <1>2, PTL DEF ClientSpec

-----------------------------------------------------------------------------
(* Ids.                                                                     *)

Requests == [id : Nat, what : Calls \cup {Subscribe, GetStatus}]
Lines == [id : Nat \cup {Unknown}, what : Calls \cup {Subscribe, GetStatus, Unknown},
          ok : BOOLEAN, api : {Mine, Another, Unknown}]

States == {"new", "queuing", "waiting", "ok", "failed"}

ClientTypeOK ==
    /\ mutates \in [Calls -> BOOLEAN]
    /\ at \in [Calls -> States]
    /\ DOMAIN answer = Calls
    /\ queue \in Seq(Calls)
    /\ daemon \in {Mine, Another, Unknown}
    /\ nextId \in Nat
    /\ DOMAIN pending \subseteq Nat
    /\ \A id \in DOMAIN pending : pending[id] \in Calls
    /\ outgoing \in Seq(Requests)
    /\ incoming \in Seq(Lines)

\* No id was given away twice: what is under way is numbered below the next
\* one, and an id that is awaited belongs to the awaited command.
OutgoingIsNumbered ==
    \A i \in 1..Len(outgoing) :
        /\ outgoing[i].id < nextId
        /\ outgoing[i].id \in DOMAIN pending => outgoing[i].what = pending[outgoing[i].id]

IncomingIsNumbered ==
    \A i \in 1..Len(incoming) :
        /\ incoming[i].id # Unknown => incoming[i].id < nextId
        /\ incoming[i].id \in DOMAIN pending => incoming[i].what = pending[incoming[i].id]

IdInv ==
    /\ ClientTypeOK
    /\ OutgoingIsNumbered
    /\ IncomingIsNumbered
    /\ AnswersAreTheirs

LEMMA InitIds == ClientInit => IdInv
BY DEF ClientInit, IdInv, ClientTypeOK, States, OutgoingIsNumbered, IncomingIsNumbered, AnswersAreTheirs,
   NoCalls

LEMMA TailKeepsNumbers ==
    ASSUME NEW S, NEW s \in Seq(S), s # << >>
    PROVE  /\ Tail(s) \in Seq(S) /\ Head(s) \in S /\ Head(s) = s[1] /\ 1 \in 1..Len(s)
           /\ \A i \in 1..Len(Tail(s)) : i + 1 \in 1..Len(s) /\ Tail(s)[i] = s[i + 1]
<1>1. Len(s) \in Nat /\ Len(s) # 0
  OBVIOUS
<1>2. Len(Tail(s)) = Len(s) - 1 /\ \A i \in 1..(Len(s) - 1) : Tail(s)[i] = s[i + 1]
  BY <1>1
<1> QED
  BY <1>1, <1>2

LEMMA AppendKeepsNumbers ==
    ASSUME NEW S, NEW s \in Seq(S), NEW e \in S
    PROVE  /\ Append(s, e) \in Seq(S) /\ Len(Append(s, e)) = Len(s) + 1 /\ Len(s) \in Nat
           /\ \A i \in 1..Len(Append(s, e)) :
                 \/ i \in 1..Len(s) /\ Append(s, e)[i] = s[i]
                 \/ i = Len(s) + 1 /\ Append(s, e)[i] = e
<1>1. Len(s) \in Nat
  OBVIOUS
<1>2. Append(s, e) \in Seq(S) /\ Len(Append(s, e)) = Len(s) + 1
  BY <1>1
<1>3. ASSUME NEW i \in 1..Len(s) PROVE Append(s, e)[i] = s[i]
  BY <1>1
<1>4. Append(s, e)[Len(s) + 1] = e
  BY <1>1
<1>5. \A i \in 1..(Len(s) + 1) : i \in 1..Len(s) \/ i = Len(s) + 1
  BY <1>1
<1>6. ASSUME NEW i \in 1..Len(Append(s, e))
      PROVE  (i \in 1..Len(s) /\ Append(s, e)[i] = s[i]) \/ (i = Len(s) + 1 /\ Append(s, e)[i] = e)
  <2>1. i \in 1..Len(s) \/ i = Len(s) + 1
    BY <1>2, <1>5
  <2> QED
    BY <1>3, <1>4, <2>1
<1> QED
  BY <1>1, <1>2, <1>6

\* Telling callers the outcome touches no answer but theirs.
LEMMA TellingFails ==
    ASSUME ClientTypeOK, AnswersAreTheirs, NEW told, Tell(told, "failed"), answer' = answer
    PROVE  at' \in [Calls -> States] /\ AnswersAreTheirs'
BY DEF ClientTypeOK, AnswersAreTheirs, Tell, States

LEMMA CallersKeepIds ==
    ASSUME IdInv, NEW c \in Calls, Give(c) \/ Enter(c) \/ TimeOut(c)
    PROVE  IdInv'
<1>1. UNCHANGED <<mutates, answer, connectionVars>> /\ at' \in [Calls -> States]
  BY DEF Give, Enter, TimeOut, connectionVars, IdInv, ClientTypeOK, States
<1>2. queue' \in Seq(Calls)
  <2>1. queue \in Seq(Calls)
    BY DEF IdInv, ClientTypeOK
  <2>2. queue' = queue \/ queue' = Append(queue, c)
    BY DEF Give, Enter, TimeOut
  <2> QED
    BY <2>1, <2>2
<1>3. AnswersAreTheirs'
  BY DEF Give, Enter, TimeOut, IdInv, ClientTypeOK, AnswersAreTheirs
<1> QED
  BY <1>1, <1>2, <1>3 DEF IdInv, ClientTypeOK, OutgoingIsNumbered, IncomingIsNumbered, connectionVars

LEMMA OfflineKeepsIds == IdInv /\ Offline => IdInv'
<1> SUFFICES ASSUME IdInv, Offline PROVE IdInv'
  OBVIOUS
<1>1. at' \in [Calls -> States] /\ AnswersAreTheirs'
  BY TellingFails DEF Offline, IdInv
<1> QED
  BY <1>1 DEF Offline, IdInv, ClientTypeOK, OutgoingIsNumbered, IncomingIsNumbered, connectionVars

LEMMA OpenKeepsIds == IdInv /\ Open => IdInv'
<1> SUFFICES ASSUME IdInv, Open PROVE IdInv'
  OBVIOUS
<1>1. /\ outgoing' = <<Request(1, Subscribe), Request(2, GetStatus)>> /\ incoming' = << >>
      /\ nextId' = 3 /\ pending' = NoCalls /\ daemon' \in {Mine, Another}
      /\ UNCHANGED <<callVars, queue>>
  BY DEF Open, Prime
<1>2. outgoing' \in Seq(Requests) /\ incoming' \in Seq(Lines)
  BY <1>1 DEF Request, Requests
<1>3. ClientTypeOK'
  BY <1>1, <1>2 DEF IdInv, ClientTypeOK, NoCalls, callVars
<1>4. OutgoingIsNumbered' /\ IncomingIsNumbered'
  BY <1>1 DEF OutgoingIsNumbered, IncomingIsNumbered, NoCalls, Request
<1> QED
  BY <1>1, <1>3, <1>4 DEF IdInv, AnswersAreTheirs, callVars

LEMMA TakeKeepsIds == IdInv /\ Take => IdInv'
<1> SUFFICES ASSUME IdInv, Take PROVE IdInv'
  OBVIOUS
<1>1. /\ queue # << >> /\ queue' = Tail(queue)
      /\ outgoing' = Append(outgoing, Request(nextId, Head(queue))) /\ incoming' = incoming
      /\ pending' = [id \in DOMAIN pending \cup {nextId} |->
                        IF id = nextId THEN Head(queue) ELSE pending[id]]
      /\ nextId' = nextId + 1 /\ UNCHANGED <<callVars, daemon>>
  BY DEF Take
<1>2. queue' \in Seq(Calls) /\ Head(queue) \in Calls
  BY <1>1, TailKeepsNumbers DEF IdInv, ClientTypeOK
<1>3. Request(nextId, Head(queue)) \in Requests
  BY <1>2 DEF Request, Requests, IdInv, ClientTypeOK
<1>4. ClientTypeOK'
  BY <1>1, <1>2, <1>3, AppendKeepsNumbers DEF IdInv, ClientTypeOK, callVars
<1>5. OutgoingIsNumbered'
  <2> SUFFICES ASSUME NEW i \in 1..Len(outgoing')
               PROVE  /\ outgoing'[i].id < nextId'
                      /\ outgoing'[i].id \in DOMAIN pending' => outgoing'[i].what = pending'[outgoing'[i].id]
    BY DEF OutgoingIsNumbered
  <2>1. CASE i \in 1..Len(outgoing) /\ outgoing'[i] = outgoing[i]
    <3>1. outgoing[i].id \in Nat /\ outgoing[i].id < nextId
      <4>1. outgoing[i] \in Requests
        BY <2>1 DEF IdInv, ClientTypeOK
      <4> QED
        BY <2>1, <4>1 DEF IdInv, OutgoingIsNumbered, Requests
    <3>2. outgoing[i].id \in DOMAIN pending => outgoing[i].what = pending[outgoing[i].id]
      BY <2>1 DEF IdInv, OutgoingIsNumbered
    <3> QED
      BY <1>1, <2>1, <3>1, <3>2 DEF IdInv, ClientTypeOK
  <2>2. CASE outgoing'[i] = Request(nextId, Head(queue))
    BY <1>1, <2>2 DEF Request, IdInv, ClientTypeOK
  <2> QED
    BY <1>1, <1>3, <2>1, <2>2, AppendKeepsNumbers DEF IdInv, ClientTypeOK
<1>6. IncomingIsNumbered'
  <2> SUFFICES ASSUME NEW i \in 1..Len(incoming)
               PROVE  /\ incoming[i].id # Unknown => incoming[i].id < nextId'
                      /\ incoming[i].id \in DOMAIN pending' => incoming[i].what = pending'[incoming[i].id]
    BY <1>1 DEF IncomingIsNumbered
  <2>1. incoming[i].id \in Nat \cup {Unknown} /\ nextId \in Nat /\ nextId # Unknown
    <3>1. incoming[i] \in Lines /\ nextId \in Nat
      BY DEF IdInv, ClientTypeOK
    <3> QED
      BY <3>1, ClientAssumption DEF Lines
  <2>2. incoming[i].id # Unknown => incoming[i].id < nextId
    BY DEF IdInv, IncomingIsNumbered
  <2>3. incoming[i].id \in DOMAIN pending => incoming[i].what = pending[incoming[i].id]
    BY DEF IdInv, IncomingIsNumbered
  <2> QED
    BY <1>1, <2>1, <2>2, <2>3
<1> QED
  BY <1>1, <1>4, <1>5, <1>6 DEF IdInv, AnswersAreTheirs, callVars

LEMMA CloseKeepsIds == IdInv /\ Close => IdInv'
<1> SUFFICES ASSUME IdInv, Close PROVE IdInv'
  OBVIOUS
<1>1. /\ outgoing' = << >> /\ incoming' = << >> /\ pending' = NoCalls /\ daemon' = Unknown
      /\ UNCHANGED <<mutates, answer, nextId>>
  BY DEF Close
<1>2. at' \in [Calls -> States] /\ AnswersAreTheirs'
  BY TellingFails DEF Close, IdInv
<1>3. queue' \in Seq(Calls)
  <2>1. queue \in Seq(Calls)
    BY DEF IdInv, ClientTypeOK
  <2>2. queue # << >> => Tail(queue) \in Seq(Calls)
    BY <2>1, TailKeepsNumbers
  <2> QED
    BY <2>1, <2>2 DEF Close
<1> QED
  BY <1>1, <1>2, <1>3 DEF IdInv, ClientTypeOK, OutgoingIsNumbered, IncomingIsNumbered, NoCalls

LEMMA ReadKeepsIds == IdInv /\ Read => IdInv'
<1> SUFFICES ASSUME IdInv, Read PROVE IdInv'
  OBVIOUS
<1> DEFINE line == Head(incoming)
           call == pending[line.id]
<1>1. /\ incoming # << >> /\ incoming' = Tail(incoming)
      /\ UNCHANGED <<mutates, queue, daemon, nextId, outgoing>>
  BY DEF Read
<1>2. /\ incoming' \in Seq(Lines) /\ line = incoming[1] /\ 1 \in 1..Len(incoming)
      /\ \A i \in 1..Len(incoming') : i + 1 \in 1..Len(incoming) /\ incoming'[i] = incoming[i + 1]
  BY <1>1, TailKeepsNumbers DEF IdInv, ClientTypeOK
<1>3. DOMAIN pending' \subseteq DOMAIN pending /\ \A id \in DOMAIN pending' : pending'[id] = pending[id]
  BY DEF Read
<1>4. at' \in [Calls -> States] /\ DOMAIN answer' = Calls /\ AnswersAreTheirs'
  <2>1. CASE line.id \notin DOMAIN pending
    BY <2>1 DEF Read, IdInv, ClientTypeOK, AnswersAreTheirs
  <2>2. CASE line.id \in DOMAIN pending
    <3>1. call \in Calls /\ line.what = call
      BY <1>2, <2>2 DEF IdInv, ClientTypeOK, IncomingIsNumbered
    <3>2. /\ Tell({call}, IF line.ok THEN "ok" ELSE "failed")
          /\ answer' = IF at[call] = "waiting" /\ line.ok
                       THEN [answer EXCEPT ![call] = line.what] ELSE answer
      BY <2>2 DEF Read
    <3> QED
      BY <3>1, <3>2 DEF IdInv, ClientTypeOK, AnswersAreTheirs, Tell, States
  <2> QED
    BY <2>1, <2>2
<1>5. ClientTypeOK'
  BY <1>1, <1>2, <1>3, <1>4 DEF IdInv, ClientTypeOK
<1>6. OutgoingIsNumbered'
  BY <1>1, <1>3 DEF IdInv, OutgoingIsNumbered
<1>7. IncomingIsNumbered'
  BY <1>1, <1>2, <1>3 DEF IdInv, IncomingIsNumbered
<1> QED
  BY <1>4, <1>5, <1>6, <1>7 DEF IdInv

LEMMA ArrivalKeepsIds ==
    ASSUME IdInv, NEW line \in Lines, incoming' = Append(incoming, line),
           line.id # Unknown => line.id < nextId,
           line.id \in DOMAIN pending => line.what = pending[line.id],
           outgoing' \in Seq(Requests), OutgoingIsNumbered',
           UNCHANGED <<callVars, queue, daemon, pending, nextId>>
    PROVE  IdInv'
<1>1. incoming' \in Seq(Lines)
  BY AppendKeepsNumbers DEF IdInv, ClientTypeOK
<1>2. IncomingIsNumbered'
  <2> SUFFICES ASSUME NEW i \in 1..Len(incoming')
               PROVE  /\ incoming'[i].id # Unknown => incoming'[i].id < nextId
                      /\ incoming'[i].id \in DOMAIN pending => incoming'[i].what = pending[incoming'[i].id]
    BY DEF IncomingIsNumbered
  <2>1. incoming'[i] = line \/ (i \in 1..Len(incoming) /\ incoming'[i] = incoming[i])
    BY AppendKeepsNumbers DEF IdInv, ClientTypeOK
  <2> QED
    BY <2>1 DEF IdInv, IncomingIsNumbered
<1> QED
  BY <1>1, <1>2 DEF IdInv, ClientTypeOK, AnswersAreTheirs, callVars

LEMMA ProcessKeepsIds == IdInv /\ Process => IdInv'
<1> SUFFICES ASSUME IdInv, Process PROVE IdInv'
  OBVIOUS
<1> DEFINE request == Head(outgoing)
<1>1. PICK ok \in BOOLEAN :
        incoming' = Append(incoming, Line(request.id, request.what, ok,
                                          IF request.what = GetStatus THEN daemon ELSE Unknown))
  BY DEF Process, Admits, IdInv, ClientTypeOK
<1>2. /\ outgoing # << >> /\ outgoing' = Tail(outgoing)
      /\ UNCHANGED <<callVars, queue, daemon, pending, nextId>>
  BY DEF Process
<1>3. /\ outgoing' \in Seq(Requests) /\ request \in Requests /\ request = outgoing[1] /\ 1 \in 1..Len(outgoing)
      /\ \A i \in 1..Len(outgoing') : i + 1 \in 1..Len(outgoing) /\ outgoing'[i] = outgoing[i + 1]
  BY <1>2, TailKeepsNumbers DEF IdInv, ClientTypeOK
<1>4. OutgoingIsNumbered'
  BY <1>2, <1>3 DEF IdInv, OutgoingIsNumbered
<1>5. request.id < nextId /\ (request.id \in DOMAIN pending => request.what = pending[request.id])
  BY <1>3 DEF IdInv, OutgoingIsNumbered
<1> DEFINE line == Line(request.id, request.what, ok,
                        IF request.what = GetStatus THEN daemon ELSE Unknown)
<1>6. line \in Lines /\ line.id = request.id /\ line.what = request.what
  BY <1>3 DEF Line, Lines, Requests, IdInv, ClientTypeOK
<1> QED
  BY <1>1, <1>2, <1>3, <1>4, <1>5, <1>6, ArrivalKeepsIds

LEMMA PublishKeepsIds == IdInv /\ Publish => IdInv'
<1> SUFFICES ASSUME IdInv, Publish PROVE IdInv'
  OBVIOUS
<1> DEFINE line == Line(Unknown, Unknown, TRUE, daemon)
<1>1. line \in Lines /\ line.id = Unknown /\ Unknown \notin DOMAIN pending
  BY ClientAssumption DEF Line, Lines, IdInv, ClientTypeOK
<1>2. incoming' = Append(incoming, line) /\ UNCHANGED <<callVars, queue, daemon, pending, nextId, outgoing>>
  BY DEF Publish, IdInv, ClientTypeOK
<1>3. outgoing' \in Seq(Requests) /\ OutgoingIsNumbered'
  BY <1>2 DEF IdInv, ClientTypeOK, OutgoingIsNumbered
<1> QED
  BY <1>1, <1>2, <1>3, ArrivalKeepsIds

\* A call that succeeds got the answer to its own command (client.rs 141-227):
\* however many connections, timeouts and requests of the client itself there are.
THEOREM CallsGetTheirAnswers == ClientSpec => []AnswersAreTheirs
<1>1. IdInv /\ [ClientNext]_clientVars => IdInv'
  <2> SUFFICES ASSUME IdInv, [ClientNext]_clientVars PROVE IdInv'
    OBVIOUS
  <2>1. CASE UNCHANGED clientVars
    BY <2>1 DEF clientVars, callVars, connectionVars, IdInv, ClientTypeOK, OutgoingIsNumbered,
       IncomingIsNumbered, AnswersAreTheirs
  <2> QED
    BY <2>1, CallersKeepIds, OfflineKeepsIds, OpenKeepsIds, TakeKeepsIds, CloseKeepsIds, ReadKeepsIds,
       ProcessKeepsIds, PublishKeepsIds DEF ClientNext
<1>2. IdInv => AnswersAreTheirs
  BY DEF IdInv
<1> QED
  BY InitIds, <1>1, <1>2, PTL DEF ClientSpec

-----------------------------------------------------------------------------
(* The app's settings: the inductive invariant.                             *)

Answered == [ok : BOOLEAN, settings : Settings]

UiType ==
    /\ autostart \in BOOLEAN /\ previous \in BOOLEAN
    /\ file \in Settings \cup {Absent} /\ memory \in Settings \cup {Absent}
    /\ step \in {"idle", "read", "apply", "save", "undo"}
    /\ next \in Settings \cup {Absent} /\ (step # "idle" => next \in Settings)
    /\ saves \in Seq(Settings) /\ answers \in Seq(Answered)
    /\ shown \in Settings /\ confirmed \in Settings /\ known \in BOOLEAN
    /\ revision \in Nat
    /\ doubt \in BOOLEAN /\ raced \in BOOLEAN

\* An app that does not run is doing nothing.
EndedInv ==
    memory = Absent =>
        /\ step = "idle" /\ saves = << >> /\ answers = << >> /\ snapshot = Absent
        /\ ~known /\ ~raced

\* What a save has done so far, unless autostart changed outside of the app.
SaveInv ==
    /\ raced => doubt
    /\ step = "apply" /\ ~raced => previous = autostart
    /\ step = "save" /\ ~raced => autostart = next.autostart
    /\ step = "undo" => Changes

\* What the app keeps is in the file and in the operating system; during a save,
\* what it can go back to.
CopiesInv ==
    memory # Absent /\ ~doubt =>
        /\ memory = Saved
        /\ step \in {"idle", "read", "apply"} => memory.autostart = autostart
        /\ step \in {"apply", "save", "undo"} => memory.autostart = previous

\* No answer that is still on its way tells of a save that succeeded, after i.
NoneAfter(i) == \A j \in 1..Len(answers) : j > i => ~answers[j].ok

\* The last success on its way to the page, or else what it has confirmed, is
\* what the app keeps; a snapshot that was not overtaken is, too.
PageInv ==
    /\ shown = confirmed
    /\ \A i \in 1..Len(answers) : answers[i].ok /\ NoneAfter(i) => answers[i].settings = memory
    /\ NoneAfter(0) /\ known => confirmed = memory
    /\ snapshot # Absent => snapshot.revision \in Nat /\ snapshot.revision <= revision
    /\ snapshot # Absent /\ snapshot.settings # Absent => snapshot.settings \in Settings
    /\ snapshot # Absent /\ snapshot.settings # Absent /\ snapshot.revision = revision =>
           (NoneAfter(0) => snapshot.settings = memory)

UiInv == UiType /\ EndedInv /\ SaveInv /\ CopiesInv /\ PageInv

LEMMA UiBegins == UiInit => UiInv
<1> SUFFICES ASSUME UiInit PROVE UiInv
  OBVIOUS
<1>1. Default \in Settings
  BY DEF Default, Settings
<1>2. UiType
  <2>1. << >> \in Seq(Settings) /\ << >> \in Seq(Answered)
    OBVIOUS
  <2> QED
    BY <1>1, <2>1 DEF UiInit, UiType
<1>3. EndedInv /\ SaveInv /\ CopiesInv
  BY DEF UiInit, EndedInv, SaveInv, CopiesInv
<1>4. PageInv
  BY DEF UiInit, PageInv
<1> QED
  BY <1>2, <1>3, <1>4 DEF UiInv

\* Steps that leave what is on its way to the page alone.
LEMMA PageKeeps ==
    ASSUME UiInv, UNCHANGED <<answers, shown, confirmed, known, revision, snapshot>>,
           memory' = memory
    PROVE  PageInv'
BY DEF UiInv, PageInv, NoneAfter

LEMMA Reconciled ==
    ASSUME NEW s \in Settings, NEW b \in BOOLEAN
    PROVE  /\ [s EXCEPT !.autostart = b] \in Settings
           /\ [s EXCEPT !.autostart = b].autostart = b
BY DEF Settings

LEMMA StartKeeps == UiInv /\ Start => UiInv'
<1> SUFFICES ASSUME UiInv, Start PROVE UiInv'
  OBVIOUS
<1> USE DEF UiInv
<1> DEFINE actual == [Saved EXCEPT !.autostart = autostart]
<1>1. Saved \in Settings
  BY DEF UiType, Saved, Default, Settings
<1>2. actual \in Settings /\ actual.autostart = autostart
  BY <1>1, Reconciled DEF UiType
<1>3. /\ memory = Absent /\ step = "idle" /\ answers = << >> /\ snapshot = Absent /\ ~known /\ ~raced
      /\ UNCHANGED <<autostart, step, next, previous, uiPageVars, raced, budget>>
      /\ \/ /\ memory' = actual /\ doubt' = FALSE
            /\ file' = IF actual # Saved THEN actual ELSE file
         \/ memory' = actual /\ doubt' = TRUE /\ file' = file
         \/ memory' = Saved /\ doubt' = TRUE /\ file' = file
  BY DEF Start, EndedInv
<1>4. memory' \in Settings /\ file' \in Settings \cup {Absent} /\ doubt' \in BOOLEAN
  BY <1>1, <1>2, <1>3 DEF UiType
<1>5. ~doubt' => memory' = Saved' /\ memory'.autostart = autostart
  <2> SUFFICES ASSUME ~doubt' PROVE memory' = Saved' /\ memory'.autostart = autostart
    OBVIOUS
  <2>1. memory' = actual /\ file' = IF actual # Saved THEN actual ELSE file
    BY <1>3
  <2>2. actual # Absent
    BY <1>2, UiAssumption
  <2> HIDE DEF actual
  <2>3. Saved' = actual
    BY <2>1, <2>2 DEF Saved
  <2> QED
    BY <1>2, <2>1, <2>3
<1> HIDE DEF actual
<1>6. UiType'
  BY <1>3, <1>4 DEF UiType, uiPageVars
<1>7. EndedInv'
  BY <1>4, UiAssumption DEF EndedInv
<1>8. SaveInv' /\ CopiesInv'
  BY <1>3, <1>5 DEF SaveInv, CopiesInv
<1>9. PageInv'
  BY <1>3 DEF PageInv, NoneAfter, uiPageVars
<1> QED
  BY <1>6, <1>7, <1>8, <1>9

LEMMA EndKeeps == UiInv /\ End => UiInv'
<1> SUFFICES ASSUME UiInv, End PROVE UiInv'
  OBVIOUS
<1>1. Default \in Settings
  BY DEF Default, Settings
<1>2. UiType'
  <2>1. << >> \in Seq(Settings) /\ << >> \in Seq(Answered)
    OBVIOUS
  <2> QED
    BY <1>1, <2>1 DEF End, UiInv, UiType
<1>3. EndedInv' /\ SaveInv' /\ CopiesInv'
  BY DEF End, EndedInv, SaveInv, CopiesInv
<1>4. PageInv'
  BY DEF End, PageInv
<1> QED
  BY <1>2, <1>3, <1>4 DEF UiInv

LEMMA ChangeOutsideKeeps == UiInv /\ ChangeOutside => UiInv'
<1> SUFFICES ASSUME UiInv, ChangeOutside PROVE UiInv'
  OBVIOUS
<1>1. /\ autostart' = ~autostart /\ doubt' = (memory # Absent) /\ raced' = (step # "idle")
      /\ UNCHANGED <<file, memory, step, next, previous, uiPageVars>>
  BY DEF ChangeOutside
<1>2. UiType' /\ PageInv'
  BY <1>1, PageKeeps DEF UiInv, UiType, uiPageVars
<1>3. EndedInv' /\ CopiesInv'
  BY <1>1 DEF UiInv, EndedInv, CopiesInv, uiPageVars
<1>4. SaveInv'
  BY <1>1 DEF UiInv, EndedInv, SaveInv, Changes
<1> QED
  BY <1>2, <1>3, <1>4 DEF UiInv

LEMMA BeginSaveKeeps == UiInv /\ BeginSave => UiInv'
<1> SUFFICES ASSUME UiInv, BeginSave PROVE UiInv'
  OBVIOUS
<1>1. /\ memory # Absent /\ step = "idle" /\ saves # << >>
      /\ step' = "read" /\ next' = Head(saves) /\ saves' = Tail(saves)
      /\ UNCHANGED <<autostart, file, memory, previous, answers, shown, confirmed, known, revision,
                     snapshot, doubt, raced>>
  BY DEF BeginSave
<1>2. next' \in Settings /\ saves' \in Seq(Settings)
  BY <1>1 DEF UiInv, UiType
<1>3. UiType' /\ PageInv'
  BY <1>1, <1>2, PageKeeps DEF UiInv, UiType
<1>4. EndedInv' /\ CopiesInv' /\ SaveInv'
  BY <1>1 DEF UiInv, EndedInv, CopiesInv, SaveInv, Saved
<1> QED
  BY <1>3, <1>4 DEF UiInv

\* What a save returns to the page.
LEMMA ReturnKeepsPage ==
    ASSUME UiInv, step # "idle", NEW ok \in BOOLEAN, Return(ok)
    PROVE  /\ PageInv' /\ memory' \in Settings /\ memory # Absent
           /\ answers' \in Seq(Answered)
<1> DEFINE a == [ok |-> ok, settings |-> next]
<1>1. /\ answers' = Append(answers, a) /\ memory' = IF ok THEN next ELSE memory
      /\ UNCHANGED <<next, saves, shown, confirmed, known, revision, snapshot>>
  BY DEF Return
<1>2. a \in Answered /\ a.ok = ok /\ a.settings = next /\ answers \in Seq(Answered) /\ next \in Settings
  BY DEF UiInv, UiType, Answered
<1> HIDE DEF a
<1>3. /\ answers' \in Seq(Answered) /\ Len(answers') = Len(answers) + 1
      /\ \A i \in 1..Len(answers) : answers'[i] = answers[i]
      /\ answers'[Len(answers) + 1] = a
  BY <1>1, <1>2
<1>4. memory # Absent /\ memory' \in Settings
  BY <1>1, <1>2 DEF UiInv, EndedInv, UiType
<1> DEFINE n == Len(answers)
<1>5. n \in Nat /\ n + 1 \in 1..Len(answers') /\ n + 1 > 0
  BY <1>2, <1>3
<1>8. \A i \in 1..Len(answers') : i # n + 1 => i \in 1..n /\ n + 1 > i
  BY <1>3, <1>5
<1>6. CASE ok
  <2>1. memory' = next /\ ~NoneAfter(0)'
    BY <1>1, <1>2, <1>3, <1>5, <1>6, Zenon DEF NoneAfter
  <2>2. ASSUME NEW i \in 1..Len(answers'), answers'[i].ok, NoneAfter(i)'
        PROVE  answers'[i].settings = memory'
    <3>1. i = Len(answers) + 1
      BY <1>2, <1>3, <1>5, <1>6, <1>8, <2>2, Zenon DEF NoneAfter
    <3> QED
      BY <1>2, <1>3, <2>1, <3>1
  <2> QED
    BY <1>1, <1>3, <1>4, <2>1, <2>2 DEF UiInv, PageInv
<1>7. CASE ~ok
  <2>1. memory' = memory /\ \A i \in 0..Len(answers) : NoneAfter(i)' => NoneAfter(i)
    BY <1>1, <1>3, <1>5, <1>7 DEF NoneAfter
  <2>2. ASSUME NEW i \in 1..Len(answers'), answers'[i].ok, NoneAfter(i)'
        PROVE  answers'[i].settings = memory'
    <3>1. i \in 1..Len(answers)
      BY <1>2, <1>3, <1>5, <1>7, <2>2
    <3> QED
      BY <1>3, <2>1, <2>2, <3>1 DEF UiInv, PageInv
  <2>3. NoneAfter(0)' => NoneAfter(0)
    BY <1>5, <2>1
  <2> QED
    BY <1>1, <1>3, <1>4, <2>1, <2>2, <2>3 DEF UiInv, PageInv
<1> QED
  BY <1>6, <1>7

LEMMA ContinueKeepsPage ==
    ASSUME UiInv, NEW at_, Continue(at_)
    PROVE  PageInv' /\ step' = at_ /\ memory' = memory /\ next' = next /\ UNCHANGED uiPageVars
BY PageKeeps DEF Continue, uiPageVars

LEMMA ReadAutostartKeeps == UiInv /\ ReadAutostart => UiInv'
<1> SUFFICES ASSUME UiInv, ReadAutostart PROVE UiInv'
  OBVIOUS
<1>1. step = "read" /\ UNCHANGED <<autostart, file, doubt>> /\ memory # Absent
  BY DEF ReadAutostart, UiInv, EndedInv
<1>2. CASE Continue("apply") /\ previous' = autostart /\ raced' = FALSE
  <2>1. PageInv' /\ step' = "apply" /\ memory' = memory /\ next' = next /\ UNCHANGED uiPageVars
    BY <1>2, ContinueKeepsPage
  <2> QED
    BY <1>1, <1>2, <2>1 DEF UiInv, UiType, EndedInv, SaveInv, CopiesInv, Saved, uiPageVars
<1>3. CASE Return(FALSE) /\ UNCHANGED <<previous, raced>>
  <2>1. PageInv' /\ memory' \in Settings /\ answers' \in Seq(Answered)
    BY <1>1, <1>3, ReturnKeepsPage
  <2>2. /\ step' = "idle" /\ memory' = memory
        /\ UNCHANGED <<next, saves, shown, confirmed, known, revision, snapshot>>
    BY <1>3 DEF Return
  <2> QED
    BY <1>1, <1>3, <2>1, <2>2 DEF UiInv, UiType, EndedInv, SaveInv, CopiesInv, Saved
<1> QED
  BY <1>2, <1>3 DEF ReadAutostart

LEMMA ApplyAutostartKeeps == UiInv /\ ApplyAutostart => UiInv'
<1> SUFFICES ASSUME UiInv, ApplyAutostart PROVE UiInv'
  OBVIOUS
<1>1. step = "apply" /\ UNCHANGED <<file, previous, doubt, raced>> /\ memory # Absent
      /\ next \in Settings /\ next.autostart \in BOOLEAN
  BY DEF ApplyAutostart, UiInv, UiType, EndedInv, Settings
<1>2. ASSUME Continue("save"), autostart' = next.autostart \/ (~Changes /\ autostart' = autostart)
      PROVE  UiInv'
  <2>1. PageInv' /\ step' = "save" /\ memory' = memory /\ next' = next /\ UNCHANGED uiPageVars
    BY <1>2, ContinueKeepsPage
  <2>2. ~raced => autostart' = next.autostart
    BY <1>1, <1>2 DEF UiInv, SaveInv, Changes
  <2>3. autostart' \in BOOLEAN
    BY <1>1, <1>2 DEF UiInv, UiType
  <2> QED
    BY <1>1, <2>1, <2>2, <2>3 DEF UiInv, UiType, EndedInv, SaveInv, CopiesInv, Saved, uiPageVars
<1>3. CASE Return(FALSE) /\ autostart' = autostart
  <2>1. PageInv' /\ memory' \in Settings /\ answers' \in Seq(Answered)
    BY <1>1, <1>3, ReturnKeepsPage
  <2>2. /\ step' = "idle" /\ memory' = memory
        /\ UNCHANGED <<next, saves, shown, confirmed, known, revision, snapshot>>
    BY <1>3 DEF Return
  <2> QED
    BY <1>1, <1>3, <2>1, <2>2 DEF UiInv, UiType, EndedInv, SaveInv, CopiesInv, Saved
<1> QED
  BY <1>2, <1>3 DEF ApplyAutostart

LEMMA SaveSucceedsKeeps == UiInv /\ SaveSucceeds => UiInv'
<1> SUFFICES ASSUME UiInv, SaveSucceeds PROVE UiInv'
  OBVIOUS
<1>1. /\ step = "save" /\ file' = next /\ doubt' = raced /\ Return(TRUE)
      /\ UNCHANGED <<autostart, previous, raced>> /\ next \in Settings
  BY DEF SaveSucceeds, UiInv, UiType
<1>2. PageInv' /\ memory' \in Settings /\ answers' \in Seq(Answered)
  BY <1>1, ReturnKeepsPage
<1>3. /\ step' = "idle" /\ memory' = next
      /\ UNCHANGED <<next, saves, shown, confirmed, known, revision, snapshot>>
  BY <1>1 DEF Return
<1>4. UiType' /\ SaveInv'
  BY <1>1, <1>2, <1>3 DEF UiInv, UiType, SaveInv
<1>5. EndedInv'
  BY <1>2, UiAssumption DEF EndedInv
<1>6. CopiesInv'
  <2>1. next # Absent
    BY <1>1, UiAssumption
  <2> QED
    BY <1>1, <1>3, <2>1 DEF UiInv, SaveInv, CopiesInv, Saved
<1> QED
  BY <1>2, <1>4, <1>5, <1>6 DEF UiInv

LEMMA SaveFailsKeeps == UiInv /\ SaveFails => UiInv'
<1> SUFFICES ASSUME UiInv, SaveFails PROVE UiInv'
  OBVIOUS
<1>1. step = "save" /\ UNCHANGED <<autostart, file, previous, doubt, raced>> /\ memory # Absent
  BY DEF SaveFails, UiInv, EndedInv
<1>2. CASE Changes /\ Continue("undo")
  <2>1. PageInv' /\ step' = "undo" /\ memory' = memory /\ next' = next /\ UNCHANGED uiPageVars
    BY <1>2, ContinueKeepsPage
  <2> QED
    BY <1>1, <1>2, <2>1 DEF UiInv, UiType, EndedInv, SaveInv, CopiesInv, Saved, Changes, uiPageVars
<1>3. CASE ~Changes /\ Return(FALSE)
  <2>1. PageInv' /\ memory' \in Settings /\ answers' \in Seq(Answered)
    BY <1>1, <1>3, ReturnKeepsPage
  <2>2. /\ step' = "idle" /\ memory' = memory
        /\ UNCHANGED <<next, saves, shown, confirmed, known, revision, snapshot>>
    BY <1>3 DEF Return
  <2> QED
    BY <1>1, <1>3, <2>1, <2>2 DEF UiInv, UiType, EndedInv, SaveInv, CopiesInv, Saved, Changes
<1> QED
  BY <1>2, <1>3 DEF SaveFails

LEMMA UndoKeeps == UiInv /\ Undo => UiInv'
<1> SUFFICES ASSUME UiInv, Undo PROVE UiInv'
  OBVIOUS
<1>1. /\ step = "undo" /\ Return(FALSE) /\ UNCHANGED <<file, previous, raced>> /\ memory # Absent
      /\ (autostart' = previous /\ doubt' = doubt) \/ (doubt' = TRUE /\ autostart' = autostart)
  BY DEF Undo, UiInv, EndedInv
<1>2. PageInv' /\ memory' \in Settings /\ answers' \in Seq(Answered)
  BY <1>1, ReturnKeepsPage
<1>3. /\ step' = "idle" /\ memory' = memory
      /\ UNCHANGED <<next, saves, shown, confirmed, known, revision, snapshot>>
  BY <1>1 DEF Return
<1>4. autostart' \in BOOLEAN /\ doubt' \in BOOLEAN
  BY <1>1 DEF UiInv, UiType
<1>5. UiType'
  BY <1>1, <1>2, <1>3, <1>4 DEF UiInv, UiType
<1>6. EndedInv' /\ SaveInv'
  BY <1>1, <1>3 DEF UiInv, EndedInv, SaveInv
<1>7. CopiesInv'
  BY <1>1, <1>3 DEF UiInv, CopiesInv, Saved
<1> QED
  BY <1>2, <1>5, <1>6, <1>7 DEF UiInv

LEMMA ToggleKeeps ==
    ASSUME UiInv, NEW field \in DOMAIN Default, Toggle(field)
    PROVE  UiInv'
<1>1. /\ memory # Absent /\ saves' = Append(saves, [shown EXCEPT ![field] = ~@])
      /\ UNCHANGED <<appVars, answers, shown, confirmed, known, revision, snapshot, doubt, raced>>
  BY DEF Toggle
<1>2. [shown EXCEPT ![field] = ~@] \in Settings
  BY DEF UiInv, UiType, Settings, Default
<1>3. saves' \in Seq(Settings)
  BY <1>1, <1>2 DEF UiInv, UiType
<1>4. PageInv'
  BY <1>1, PageKeeps DEF appVars
<1> QED
  BY <1>1, <1>3, <1>4 DEF UiInv, UiType, EndedInv, SaveInv, CopiesInv, Saved, Changes, appVars

\* The next answer reaches the page; what overtakes a snapshot is counted.
LEMMA ReceiveKeeps == UiInv /\ Receive => UiInv'
<1> SUFFICES ASSUME UiInv, Receive PROVE UiInv'
  OBVIOUS
<1>1. answers # << >> /\ answers' = Tail(answers) /\ UNCHANGED <<appVars, saves, snapshot, doubt, raced>>
  BY DEF Receive
<1> DEFINE n == Len(answers)
           a == answers[1]
<1>2. answers \in Seq(Answered) /\ n \in Nat /\ n >= 1 /\ Head(answers) = a
  BY <1>1 DEF UiInv, UiType
<1>3. /\ answers' \in Seq(Answered) /\ Len(answers') = n - 1
      /\ \A i \in 1..(n - 1) : answers'[i] = answers[i + 1]
  BY <1>1, <1>2
<1>4. a.ok \in BOOLEAN /\ a.settings \in Settings
  <2>1. a \in Answered
    BY <1>2
  <2> HIDE DEF a
  <2> QED
    BY <2>1 DEF Answered
<1>5. /\ IF a.ok THEN confirmed' = a.settings /\ known' = TRUE ELSE UNCHANGED <<confirmed, known>>
      /\ shown' = confirmed' /\ revision' = revision + 1
  <2>1. Receive
    OBVIOUS
  <2>2. CASE a.ok
    BY <1>2, <2>1, <2>2 DEF Receive, Confirm, Republish
  <2>3. CASE ~a.ok
    BY <1>2, <2>1, <2>3 DEF Receive, Confirm, Republish
  <2> QED
    BY <2>2, <2>3
<1> HIDE DEF n, a
<1>6. memory # Absent
  BY <1>1 DEF UiInv, EndedInv
<1>7. \A i \in 0..(n - 1) : NoneAfter(i)' => NoneAfter(i + 1)
  <2> SUFFICES ASSUME NEW i \in 0..(n - 1), NoneAfter(i)', NEW j \in 1..Len(answers), j > i + 1
               PROVE  ~answers[j].ok
    BY DEF NoneAfter
  <2>1. j - 1 \in 1..(n - 1) /\ j - 1 > i /\ (j - 1) + 1 = j
    BY <1>2 DEF n
  <2>2. ~answers'[j - 1].ok
    BY <1>3, <2>1 DEF NoneAfter
  <2>3. answers'[j - 1] = answers[j]
    BY <1>3, <2>1
  <2> QED
    BY <2>2, <2>3
<1>8. ASSUME NEW i \in 1..Len(answers'), answers'[i].ok, NoneAfter(i)'
      PROVE  answers'[i].settings = memory
  <2>1. i \in 1..(n - 1) /\ i \in 0..(n - 1) /\ i + 1 \in 1..Len(answers)
    BY <1>2, <1>3 DEF n
  <2>2. answers'[i] = answers[i + 1] /\ NoneAfter(i + 1)
    BY <1>3, <1>7, <1>8, <2>1
  <2> QED
    BY <1>8, <2>1, <2>2 DEF UiInv, PageInv
<1>9. ASSUME NoneAfter(0)', known'
      PROVE  confirmed' = memory
  <2>1. NoneAfter(1) /\ 1 \in 1..Len(answers)
    <3>1. 0 \in 0..(n - 1) /\ 0 + 1 = 1
      BY <1>2
    <3> QED
      BY <1>2, <1>7, <1>9, <3>1 DEF n
  <2>2. CASE a.ok
    BY <1>5, <2>1, <2>2 DEF UiInv, PageInv, a
  <2>3. CASE ~a.ok
    <3>1. NoneAfter(0)
      <4> SUFFICES ASSUME NEW j \in 1..Len(answers), j > 0 PROVE ~answers[j].ok
        BY DEF NoneAfter
      <4>1. CASE j = 1
        BY <2>3, <4>1 DEF a
      <4>2. CASE j # 1
        <5>1. j > 1
          BY <4>2
        <5> QED
          BY <2>1, <5>1 DEF NoneAfter
      <4> QED
        BY <4>1, <4>2
    <3> QED
      BY <1>5, <1>9, <2>3, <3>1 DEF UiInv, PageInv
  <2> QED
    BY <1>4, <2>2, <2>3
<1>10. snapshot # Absent =>
           snapshot.revision \in Nat /\ snapshot.revision <= revision' /\ snapshot.revision # revision'
  BY <1>5 DEF UiInv, PageInv, UiType
<1>11. UNCHANGED <<autostart, file, memory, step, next, previous, saves, snapshot, doubt, raced>>
  BY <1>1 DEF appVars
<1>12. PageInv'
  BY <1>5, <1>8, <1>9, <1>10, <1>11 DEF UiInv, PageInv
<1>13. UiType'
  <2>1. confirmed' \in Settings /\ shown' \in Settings /\ known' \in BOOLEAN
    BY <1>4, <1>5 DEF UiInv, UiType
  <2>2. revision' \in Nat
    BY <1>5 DEF UiInv, UiType
  <2> QED
    BY <1>3, <1>11, <2>1, <2>2 DEF UiInv, UiType
<1>14. EndedInv' /\ SaveInv' /\ CopiesInv'
  BY <1>6, <1>11 DEF UiInv, EndedInv, SaveInv, CopiesInv, Saved, Changes
<1> QED
  BY <1>12, <1>13, <1>14 DEF UiInv

LEMMA SnapshotKeeps == UiInv /\ (LoadSettings \/ GetSettings) => UiInv'
<1> SUFFICES ASSUME UiInv, LoadSettings \/ GetSettings PROVE UiInv'
  OBVIOUS
<1>1. UNCHANGED <<appVars, saves, answers, shown, confirmed, known, revision, doubt, raced>>
  BY DEF LoadSettings, GetSettings
<1>2. memory # Absent /\ memory \in Settings
  BY DEF LoadSettings, GetSettings, UiInv, EndedInv, UiType
<1>3. snapshot' # Absent =>
          /\ snapshot'.revision \in Nat /\ snapshot'.revision <= revision
          /\ snapshot'.settings \in {Absent, memory}
  <2>1. CASE LoadSettings
    BY <2>1 DEF LoadSettings, UiInv, UiType
  <2>2. CASE GetSettings
    <3>1. snapshot' = [snapshot EXCEPT !.settings = memory] /\ snapshot # Absent
      BY <2>2 DEF GetSettings
    <3> QED
      BY <3>1 DEF UiInv, PageInv
  <2> QED
    BY <2>1, <2>2
<1>4. PageInv'
  BY <1>1, <1>2, <1>3 DEF UiInv, PageInv, NoneAfter, appVars
<1> QED
  BY <1>1, <1>2, <1>4 DEF UiInv, UiType, EndedInv, SaveInv, CopiesInv, Saved, Changes, appVars

LEMMA PublishSnapshotKeeps == UiInv /\ PublishSnapshot => UiInv'
<1> SUFFICES ASSUME UiInv, PublishSnapshot PROVE UiInv'
  OBVIOUS
<1>1. /\ snapshot # Absent /\ snapshot.settings # Absent /\ snapshot' = Absent
      /\ UNCHANGED <<appVars, saves, answers, doubt, raced>>
  BY DEF PublishSnapshot
<1>2. memory # Absent /\ snapshot.settings \in Settings
  BY <1>1 DEF UiInv, EndedInv, PageInv
<1>3. CASE snapshot.revision = revision
  <2>1. /\ confirmed' = snapshot.settings /\ shown' = snapshot.settings /\ known' = TRUE
        /\ revision' = revision + 1
    BY <1>3 DEF PublishSnapshot, Confirm, Republish
  <2>2. PageInv'
    BY <1>1, <1>3, <2>1 DEF UiInv, PageInv, NoneAfter, appVars
  <2> QED
    BY <1>1, <1>2, <2>1, <2>2 DEF UiInv, UiType, EndedInv, SaveInv, CopiesInv, Saved, Changes, appVars
<1>4. CASE snapshot.revision # revision
  <2>1. UNCHANGED <<shown, confirmed, known, revision>>
    BY <1>4 DEF PublishSnapshot
  <2>2. PageInv'
    BY <1>1, <2>1 DEF UiInv, PageInv, NoneAfter, appVars
  <2> QED
    BY <1>1, <1>2, <2>1, <2>2 DEF UiInv, UiType, EndedInv, SaveInv, CopiesInv, Saved, Changes, appVars
<1> QED
  BY <1>3, <1>4

\* Type correctness and the invariant of the app's settings (main.rs 99-130,
\* 280-310, ui-settings.js 6-26).
THEOREM SettingsAreInvariant == UiSpec => []UiInv
<1>1. UiInv /\ [UiNext]_uiVars => UiInv'
  <2> SUFFICES ASSUME UiInv, [UiNext]_uiVars PROVE UiInv'
    OBVIOUS
  <2>1. CASE UNCHANGED uiVars
    BY <2>1 DEF uiVars, appVars, uiPageVars, UiInv, UiType, EndedInv, SaveInv, CopiesInv, PageInv,
                NoneAfter, Saved, Changes
  <2> QED
    BY <2>1, StartKeeps, EndKeeps, ChangeOutsideKeeps, BeginSaveKeeps, ReadAutostartKeeps,
       ApplyAutostartKeeps, SaveSucceedsKeeps, SaveFailsKeeps, UndoKeeps, ToggleKeeps, ReceiveKeeps,
       SnapshotKeeps, PublishSnapshotKeeps DEF UiNext
<1> QED
  BY <1>1, UiBegins, PTL DEF UiSpec

\* However long the user goes on, and whatever fails, ends or overtakes what:
\* at rest the operating system, the file, the app and the page agree
\* (main.rs 99-130, 280-310, 405-421, ui-settings.js 6-26).
THEOREM SettingsAgreeAtRest == UiSpec => []SettingsAgree
<1>1. UiInv => SettingsAgree
  <2> SUFFICES ASSUME UiInv, AtRest, known, ~doubt
               PROVE  memory = Saved /\ memory.autostart = autostart /\ shown = memory
    BY DEF SettingsAgree
  <2>1. memory # Absent /\ step = "idle" /\ answers = << >>
    BY DEF AtRest
  <2>2. NoneAfter(0)
    BY <2>1 DEF NoneAfter
  <2> QED
    BY <2>1, <2>2 DEF UiInv, CopiesInv, PageInv
<1> QED
  BY <1>1, SettingsAreInvariant, PTL

-----------------------------------------------------------------------------
(* The refresh rate.                                                        *)

LEMMA LeastOf ==
    ASSUME NEW S \in SUBSET Nat, S # {}
    PROVE  \E least \in S : \A n \in S : least <= n
<1>1. PICK least \in S : \A n \in S : ~(<<n, least>> \in OpToRel(<, Nat))
  BY WFMin, NatLessThanWellFounded, Zenon
<1>2. ASSUME NEW n \in S PROVE least <= n
  <2>1. n \in Nat /\ least \in Nat /\ ~(<<n, least>> \in OpToRel(<, Nat))
    BY <1>1
  <2> QED
    BY <2>1 DEF OpToRel
<1> QED
  BY <1>2

LEMMA RankIsNat ==
    ASSUME NEW l \in Layouts, NEW tool
    PROVE  \A m \in Monitors : Rank(l.priority[m], tool) \in Nat
BY DEF Layouts, Rank

LEMMA OrderListsMonitors == \A i \in DOMAIN Order : Order[i] \in Monitors /\ i \in Nat
<1>1. Order \in Seq(Monitors)
  BY DisplayAssumption
<1> QED
  BY <1>1

\* The monitor whose rate is set is one of the layout.
LEMMA TargetIsActive ==
    ASSUME NEW l \in Layouts, Active(l) # {}, NEW tool
    PROVE  Target(l, tool) \in Monitors /\ l.mode[Target(l, tool)] # Off
<1> DEFINE rank(i) == Rank(l.priority[Order[i]], tool)
           ranks == {rank(i) : i \in Active(l)}
           best == {i \in Active(l) : \A j \in Active(l) : rank(i) <= rank(j)}
           first == CHOOSE i \in best : \A j \in best : i <= j
<1>1. \A i \in Active(l) : i \in Nat /\ Order[i] \in Monitors /\ l.mode[Order[i]] # Off
  BY OrderListsMonitors DEF Active
<1>2. \A i \in Active(l) : rank(i) \in Nat
  BY <1>1, RankIsNat
<1> HIDE DEF rank
<1>3. ranks \in SUBSET Nat /\ ranks # {}
  BY <1>2
<1>4. PICK least \in ranks : \A n \in ranks : least <= n
  <2> HIDE DEF ranks
  <2> QED
    BY <1>3, LeastOf
<1>5. best # {} /\ best \in SUBSET Nat
  <2>1. PICK i \in Active(l) : least = rank(i)
    BY <1>4
  <2>2. \A j \in Active(l) : rank(i) <= rank(j)
    BY <1>4, <2>1
  <2> QED
    BY <1>1, <2>1, <2>2
<1>6. first \in best
  <2> HIDE DEF best
  <2>1. \E i \in best : \A j \in best : i <= j
    BY <1>5, LeastOf
  <2> QED
    BY <2>1, Zenon
<1>7. Target(l, tool) = Order[first]
  BY DEF Target, rank
<1>8. first \in Active(l)
  BY <1>6
<1> HIDE DEF first
<1> QED
  BY <1>1, <1>7, <1>8

\* Of the modes of a monitor one is the fastest.
LEMMA WantIsOneOf ==
    ASSUME NEW m \in Monitors, NEW modes \in SUBSET Modes[m], modes # {}
    PROVE  Want(modes) \in modes
<1>1. PICK top \in Modes[m] : \A mode \in Modes[m] : mode.refresh <= top.refresh
  BY DisplayAssumption
<1>2. \A mode \in Modes[m] : mode.refresh \in Nat
  BY DisplayAssumption
<1> DEFINE short(mode) == top.refresh - mode.refresh
           gaps == {short(mode) : mode \in modes}
<1>3. \A mode \in modes : short(mode) \in Nat
  BY <1>1, <1>2
<1>4. \A x, y \in modes : short(x) <= short(y) => y.refresh <= x.refresh
  BY <1>1, <1>2
<1> HIDE DEF short
<1>5. gaps \in SUBSET Nat /\ gaps # {}
  BY <1>3
<1>6. PICK least \in gaps : \A n \in gaps : least <= n
  <2> HIDE DEF gaps
  <2> QED
    BY <1>5, LeastOf
<1>7. PICK best \in modes : least = short(best)
  BY <1>6
<1>8. \A other \in modes : other.refresh <= best.refresh
  BY <1>4, <1>6, <1>7
<1> QED
  BY <1>8, Zenon DEF Want

\* What was chosen is a mode of the monitor, of the rate asked for and of the
\* size it had when the layout was read; a layout keeps its number.
Chosen(c) ==
    /\ c.output \in Monitors
    /\ c.seen \in Layouts
    /\ c.modes \subseteq Candidates(c.output, c.seen.mode[c.output].size, c.hz)
    /\ c.serial \in Nat /\ c.serial <= serial
    /\ c.serial = serial => c.seen = layout

DisplayInv ==
    /\ layout \in Layouts
    /\ serial \in Nat
    /\ change.at = "chosen" => Chosen(change)

LEMMA ApplyKeepsLayouts ==
    ASSUME NEW l \in Layouts, NEW g \in Layouts, NEW m \in Monitors, NEW mode \in Modes[m]
    PROVE  /\ [l EXCEPT !.mode = [g.mode EXCEPT ![m] = mode]] \in Layouts
           /\ [l EXCEPT !.mode = [g.mode EXCEPT ![m] = mode]].priority = l.priority
           /\ [l EXCEPT !.mode = [g.mode EXCEPT ![m] = mode]].mode[m] = mode
           /\ \A n \in Monitors \ {m} :
                  [l EXCEPT !.mode = [g.mode EXCEPT ![m] = mode]].mode[n] = g.mode[n]
<1> DEFINE any == (UNION {Modes[n] : n \in Monitors}) \cup {Off}
           f == [g.mode EXCEPT ![m] = mode]
<1>1. l.priority \in [Monitors -> 0..2] /\ g.mode \in [Monitors -> any]
      /\ \A n \in Monitors : g.mode[n] \in Modes[n] \cup {Off}
  BY DEF Layouts
<1>2. mode \in any
  OBVIOUS
<1>3. /\ f \in [Monitors -> any] /\ f[m] = mode
      /\ \A n \in Monitors \ {m} : f[n] = g.mode[n]
  <2> HIDE DEF any
  <2> QED
    BY <1>1, <1>2
<1>4. \A n \in Monitors : f[n] \in Modes[n] \cup {Off}
  BY <1>1, <1>3
<1> HIDE DEF f
<1>5. /\ [l EXCEPT !.mode = f] = [mode |-> f, priority |-> l.priority]
  BY DEF Layouts
<1>6. [mode |-> f, priority |-> l.priority] \in Layouts
  BY <1>1, <1>3, <1>4 DEF Layouts
<1> QED
  BY <1>3, <1>5, <1>6 DEF f

LEMMA ApplyIs ==
    ASSUME DisplayInv, Apply
    PROVE  /\ layout' \in Layouts /\ layout'.priority = layout.priority
           /\ Rounded(layout'.mode[change.output].refresh) = change.hz
           /\ layout'.mode[change.output].size = change.seen.mode[change.output].size
           /\ \A m \in Monitors \ {change.output} : layout'.mode[m] = layout.mode[m]
           /\ change.tool = "mutter" => serial = change.serial
           /\ change.output \in Monitors
<1>1. /\ Chosen(change) /\ layout \in Layouts
      /\ change.tool = "mutter" => serial = change.serial
  BY DEF Apply, DisplayInv
<1> DEFINE g == IF change.tool = "mutter" THEN change.seen ELSE layout
<1>2. g = layout
  BY <1>1 DEF Chosen
<1>3. PICK mode \in change.modes :
          layout' = [layout EXCEPT !.mode = [g.mode EXCEPT ![change.output] = mode]]
  BY DEF Apply
<1>4. /\ mode \in Modes[change.output] /\ Rounded(mode.refresh) = change.hz
      /\ mode.size = change.seen.mode[change.output].size /\ change.output \in Monitors
  BY <1>1 DEF Chosen, Candidates
<1> HIDE DEF g
<1>5. layout' = [layout EXCEPT !.mode = [layout.mode EXCEPT ![change.output] = mode]]
  BY <1>2, <1>3
<1> QED
  BY <1>1, <1>4, <1>5, ApplyKeepsLayouts

LEMMA ChooseIs ==
    ASSUME DisplayInv, Choose, change'.at = "chosen"
    PROVE  Chosen(change)'
<1> DEFINE m == Target(layout, Tool)
           modes == Candidates(m, layout.mode[m].size, change.hz)
           wanted == IF Tool = "mutter" THEN {Want(modes)} ELSE modes
<1>1. /\ Active(layout) # {} /\ modes # {} /\ UNCHANGED <<layout, serial>>
      /\ change' = [at |-> "chosen", hz |-> change.hz, tool |-> Tool, output |-> m,
                    modes |-> wanted, seen |-> layout, serial |-> serial]
  <2>1. CASE Tool = "none" \/ Active(layout) = {} \/ modes = {}
    BY <2>1 DEF Choose, NoChange
  <2>2. CASE ~(Tool = "none" \/ Active(layout) = {} \/ modes = {})
    BY <2>2 DEF Choose
  <2> QED
    BY <2>1, <2>2
<1>2. m \in Monitors
  BY <1>1, TargetIsActive DEF DisplayInv
<1> HIDE DEF m
<1>3. modes \in SUBSET Modes[m]
  BY DEF Candidates
<1>4. wanted \subseteq modes
  <2> HIDE DEF modes
  <2> QED
    BY <1>1, <1>2, <1>3, WantIsOneOf
<1> HIDE DEF wanted
<1> QED
  BY <1>1, <1>2, <1>4 DEF Chosen, DisplayInv

LEMMA ChangeLayoutIs ==
    ASSUME DisplayInv, ChangeLayout
    PROVE  layout' \in Layouts
<1>1. PICK m \in Monitors :
          \/ \E mode \in (Modes[m] \cup {Off}) \ {layout.mode[m]} : layout' = [layout EXCEPT !.mode[m] = mode]
          \/ \E p \in 0..2 \ {layout.priority[m]} : layout' = [layout EXCEPT !.priority[m] = p]
  BY DEF ChangeLayout
<1> DEFINE any == (UNION {Modes[n] : n \in Monitors}) \cup {Off}
<1>2. /\ layout = [mode |-> layout.mode, priority |-> layout.priority]
      /\ layout.priority \in [Monitors -> 0..2] /\ layout.mode \in [Monitors -> any]
      /\ \A n \in Monitors : layout.mode[n] \in Modes[n] \cup {Off}
  BY DEF DisplayInv, Layouts
<1>3. ASSUME NEW mode \in Modes[m] \cup {Off}, layout' = [layout EXCEPT !.mode[m] = mode]
      PROVE  layout' \in Layouts
  <2> DEFINE f == [layout.mode EXCEPT ![m] = mode]
  <2>1. mode \in any
    <3> DEFINE all == UNION {Modes[n] : n \in Monitors}
    <3>1. mode \in Modes[m] => mode \in all
      OBVIOUS
    <3>2. mode \in Modes[m] \/ mode = Off
      BY <1>3
    <3>3. any = all \cup {Off}
      BY Zenon
    <3> HIDE DEF all, any
    <3> QED
      BY <3>1, <3>2, <3>3
  <2>2. f \in [Monitors -> any] /\ \A n \in Monitors : f[n] \in Modes[n] \cup {Off}
    <3> HIDE DEF any
    <3> QED
      BY <1>2, <2>1
  <2>3. layout' = [layout EXCEPT !.mode = f]
    BY <1>2, <1>3
  <2> HIDE DEF f
  <2>4. layout' = [mode |-> f, priority |-> layout.priority]
    BY <1>2, <2>3
  <2> QED
    BY <1>2, <2>2, <2>4 DEF Layouts
<1>4. ASSUME NEW p \in 0..2, layout' = [layout EXCEPT !.priority[m] = p]
      PROVE  layout' \in Layouts
  <2> DEFINE f == [layout.priority EXCEPT ![m] = p]
  <2>1. f \in [Monitors -> 0..2]
    BY <1>2
  <2>2. layout' = [layout EXCEPT !.priority = f]
    BY <1>2, <1>4
  <2> HIDE DEF f
  <2>3. layout' = [mode |-> layout.mode, priority |-> f]
    BY <1>2, <2>2
  <2> QED
    BY <1>2, <2>1, <2>3 DEF Layouts
<1> QED
  BY <1>1, <1>3, <1>4

LEMMA DisplayStep ==
    ASSUME DisplayInv, [DisplayNext]_displayVars
    PROVE  DisplayInv'
<1>1. CASE Apply
  <2>1. layout' \in Layouts /\ serial' = serial + 1 /\ change'.at = "applied"
    BY <1>1, ApplyIs DEF Apply
  <2> QED
    BY <2>1 DEF DisplayInv
<1>2. CASE Choose
  BY <1>2, ChooseIs DEF Choose, DisplayInv
<1>3. CASE ChangeLayout
  <2>1. layout' \in Layouts /\ serial' = serial + 1 /\ change' = change
    BY <1>3, ChangeLayoutIs DEF ChangeLayout
  <2> QED
    BY <2>1 DEF DisplayInv, Chosen
<1>4. CASE GetDisplay \/ UNCHANGED displayVars
  BY <1>4 DEF GetDisplay, displayVars, DisplayInv, Chosen
<1>5. CASE \E hz \in offered.hz : SetRefreshRate(hz)
  BY <1>5 DEF SetRefreshRate, DisplayInv
<1>6. CASE Fail \/ Reread
  BY <1>6 DEF Fail, Reread, NoChange, DisplayInv
<1> QED
  BY <1>1, <1>2, <1>3, <1>4, <1>5, <1>6 DEF DisplayNext

\* For any monitors and modes, setting a rate changes the mode of no other monitor
\* and no priority, whatever others change meanwhile; and it keeps the resolution
\* through GNOME always, through a helper unless the layout changed since the
\* mode was chosen (display.rs 106-149, 347-427).
THEOREM SettingTheRateIsLocal == DisplaySpec => OnlyTheRateChanges
<1>1. DisplayInit => DisplayInv
  BY DEF DisplayInit, DisplayInv, NoChange
<1>2. ASSUME DisplayInv, [DisplayNext]_displayVars
      PROVE  [Apply =>
                 /\ \A m \in Monitors \ {change.output} : layout'.mode[m] = layout.mode[m]
                 /\ layout'.priority = layout.priority
                 /\ Rounded(layout'.mode[change.output].refresh) = change.hz
                 /\ serial = change.serial \/ change.tool = "mutter" =>
                        layout'.mode[change.output].size
                            = layout.mode[change.output].size]_displayVars
  <2> SUFFICES ASSUME Apply
               PROVE  /\ \A m \in Monitors \ {change.output} : layout'.mode[m] = layout.mode[m]
                      /\ layout'.priority = layout.priority
                      /\ Rounded(layout'.mode[change.output].refresh) = change.hz
                      /\ serial = change.serial \/ change.tool = "mutter" =>
                             layout'.mode[change.output].size = layout.mode[change.output].size
    OBVIOUS
  <2>1. serial = change.serial => change.seen = layout
    <3>1. change.at = "chosen"
      BY DEF Apply
    <3> QED
      BY <1>2, <3>1 DEF DisplayInv, Chosen
  <2> QED
    BY <1>2, <2>1, ApplyIs
<1> QED
  BY <1>1, <1>2, DisplayStep, PTL DEF DisplaySpec, OnlyTheRateChanges
-----------------------------------------------------------------------------
(* The page.  A status that was asked for, that is on its way or that the   *)
(* guard would still let through is followed until it is shown.             *)

ClientGet == Ask("get", "client", 0, 0)

FeedLines == [ask : Asks \cup {None}, status : Statuses \cup {None}]
Jobs == [at : {"idle", "work", "read", "lock", "send", "telemetry", "reply"},
         ask : Asks \cup {None}, side : Nat, status : Statuses \cup {None}, failed : BOOLEAN]

FeedTypeOK ==
    /\ core \in Nat /\ side \in Nat /\ handle \in {"held", "gone", "lost"}
    /\ job \in [Actors -> Jobs]
    /\ newest \in Statuses
    /\ conn \in 0..Connections /\ online \in BOOLEAN
    /\ requests \in Seq(Asks)
    /\ bus # None => bus \in Seq(Statuses \cup {Telemetry})
    /\ wire \in Seq(FeedLines)
    /\ calls \subseteq Asks
    /\ results \subseteq [ask : Asks, status : Statuses \cup {None}]
    /\ page \in {"closed", "loading", "asking", "ready"} /\ live \in BOOLEAN
    /\ guard \in [revision : Nat, observed : Nat, confirmed : Nat, sequence : Nat]
    /\ stale \in BOOLEAN
    /\ left \in [connections : 0..Connections, core : Nat, side : Nat,
                 telemetry : Nat, commands : Nat, loads : Nat]

\* Nothing is ahead of the daemon.
AtMost(status) == status[1] <= core /\ status[2] <= side

\* A job has what its step needs.
JobOK(a) ==
    /\ job[a].at = "idle" => job[a] = Resting
    /\ job[a].at \in {"work", "read", "lock", "reply"} =>
           job[a].ask # None /\ job[a].ask.kind # "subscribe"
    /\ job[a].at = "work" => job[a].ask.kind = "slow"
    /\ job[a].at = "send" => job[a].status # None
    /\ job[a].at = "send" /\ a # Loop => job[a].ask # None /\ job[a].ask.kind \in {"set", "slow"}
    /\ job[a].at = "telemetry" => a = Loop
    /\ job[a].at = "reply" /\ job[a].ask.kind = "get" => job[a].status # None
    /\ job[a].side <= side
    /\ job[a].status # None => AtMost(job[a].status)

\* A handler there was no connection for yet does nothing.
JobInv ==
    /\ \A a \in Handlers : a > conn => job[a] = Resting
    /\ \A a \in Actors : JobOK(a)

\* Who carries a change of either part that was not broadcast yet.
CarriesCore(a) ==
    job[a].at \in {"send", "telemetry"} /\ job[a].status # None /\ job[a].status[1] = core
CarriesSide(a) ==
    \/ job[a].at = "read" /\ job[a].ask.kind = "slow"
    \/ job[a].at = "lock" /\ job[a].ask.kind = "slow" /\ job[a].side = side
    \/ job[a].at \in {"send", "telemetry"} /\ job[a].status # None /\ job[a].status[2] = side

\* A change is broadcast, or somebody is about to; the loss of the EC's handle
\* may have to wait for the telemetry loop.
SentInv ==
    /\ AtMost(newest)
    /\ core = newest[1] \/ handle = "lost" \/ \E a \in Actors : CarriesCore(a)
    /\ side = newest[2] \/ \E a \in Actors : CarriesSide(a)

\* Each connection subscribes first and asks for the status next.
LinkInv ==
    /\ conn + left.connections <= Connections
    /\ online => conn # 0
    /\ ~online => requests = << >> /\ bus = None /\ wire = << >>
    /\ online /\ bus = None =>
           /\ wire = << >> /\ job[conn].at = "idle" /\ Len(requests) >= 2
           /\ requests[1].kind = "subscribe" /\ requests[2] = ClientGet
    /\ \A i \in 1..Len(requests) : requests[i].kind = "subscribe" => bus = None /\ i = 1

\* What was asked for and not answered, and the answers on their way.
Busy == online /\ job[conn].at # "idle"
Asked(x) ==
    \/ x \in calls
    \/ \E i \in 1..Len(requests) : requests[i] = x
    \/ Busy /\ job[conn].ask = x
    \/ \E i \in 1..Len(wire) : wire[i].ask = x
    \/ \E r \in results : r.ask = x
Replied(x, status) ==
    \/ online /\ job[conn].at = "reply" /\ job[conn].ask = x /\ job[conn].status = status
    \/ \E i \in 1..Len(wire) : wire[i].ask = x /\ wire[i].status = status
    \/ \E r \in results : r.ask = x /\ r.status = status

\* Nothing was captured later than now; a page that is not there asks nothing;
\* the client asks only for the status, and its answer goes to nobody else.
AskInv ==
    /\ \A x \in calls : x.kind # "subscribe" /\ x.to \in {"page", "command", "tray"}
    /\ \A r \in results : r.ask.to # "client"
    /\ \A x \in Asks : Asked(x) =>
           /\ x.to = "page" => x.kind = "get" /\ x.seen <= guard.revision
           /\ x.to = "command" => x.seen <= guard.observed
           /\ page = "closed" => x.to \notin {"page", "command"}
           /\ x.to = "client" /\ x.kind # "subscribe" => x = ClientGet
    /\ page = "closed" => ~live

\* A snapshot has a status, and no answer is ahead of the daemon.
ReplyInv ==
    /\ \A x \in Asks : \A status \in Statuses \cup {None} : Replied(x, status) =>
           /\ x.kind # "subscribe"
           /\ x.kind = "get" => status # None
           /\ status # None => AtMost(status)
    /\ \A i \in 1..Len(wire) : wire[i].ask = None => wire[i].status # None

\* The last status on its way is the newest.
LastInBus(i) ==
    bus[i] # Telemetry /\ \A k \in 1..Len(bus) : k > i => bus[k] = Telemetry
LastInWire(i) ==
    wire[i].ask = None /\ \A k \in 1..Len(wire) : k > i => wire[k].ask # None
InBus == \E i \in 1..Len(bus) : bus[i] # Telemetry
InWire == \E i \in 1..Len(wire) : wire[i].ask = None

PipeInv ==
    ~stale /\ bus # None =>
        /\ \A i \in 1..Len(bus) : LastInBus(i) => bus[i] = newest
        /\ ~InBus => \A i \in 1..Len(wire) : LastInWire(i) => wire[i].status = newest

\* Why the page may show another status yet: one will arrive.
Reasons ==
    \/ newest # <<core, side>> \/ bus = None \/ Asked(ClientGet) \/ InBus \/ InWire

\* What the guard would let through now.
Acceptable(x) ==
    \/ x.to = "page" /\ AcceptsSnapshot(x)
    \/ x.to = "command" /\ x.seen = guard.observed
Loading ==
    /\ page \in {"loading", "asking"} /\ ~live
    /\ \A x \in Asks : Asked(x) /\ x.to = "page" => AcceptsSnapshot(x)

\* When none will, what the guard would let through is what the page shows
\* already, unless it is loading.
RepliedInv ==
    \A x \in Asks : \A status \in Statuses : Replied(x, status) /\ Acceptable(x) => status = newest
LockedInv ==
    online /\ job[conn].at = "lock" /\ Acceptable(job[conn].ask) => job[conn].side = side
StoreInv == page # "closed" => Loading \/ store = newest
ShownInv == ~stale /\ ~Reasons => RepliedInv /\ LockedInv /\ StoreInv

FeedInv ==
    /\ FeedTypeOK /\ JobInv /\ SentInv /\ LinkInv /\ AskInv /\ ReplyInv /\ PipeInv /\ ShownInv

-----------------------------------------------------------------------------

LEMMA ActorFacts ==
    /\ Handlers \subseteq Actors /\ Other \in Actors /\ Loop \in Actors
    /\ Other \notin Handlers /\ Loop \notin Handlers /\ Other # Loop
    /\ \A c \in 0..Connections : c # Other /\ c # Loop /\ (c # 0 => c \in Handlers)
BY FeedAssumption DEF Handlers, Actors, Other, Loop

LEMMA NoneIsApart ==
    /\ None \notin Asks /\ None \notin Statuses /\ None # Telemetry
    /\ None \notin Seq(Statuses \cup {Telemetry}) /\ Telemetry \notin Statuses
<1>1. Telemetry \notin Statuses
  <2>1. \A status \in Nat \X Nat : Len(status) = 2
    OBVIOUS
  <2>2. Len(<< >>) = 0
    OBVIOUS
  <2> QED
    BY <2>1, <2>2 DEF Telemetry, Statuses
<1> QED
  BY <1>1, NoneAssumption

LEMMA RestingIsJob == Resting \in Jobs /\ Resting.at = "idle" /\ Resting.ask = None
    /\ Resting.side = 0 /\ Resting.status = None
BY DEF Resting, Jobs

LEMMA StatusParts ==
    /\ \A status \in Statuses : status[1] \in Nat /\ status[2] \in Nat /\ status = <<status[1], status[2]>>
    /\ \A m, n \in Nat : <<m, n>> \in Statuses /\ <<m, n>>[1] = m /\ <<m, n>>[2] = n
BY DEF Statuses

LEMMA QueueEnds ==
    ASSUME NEW S, NEW q \in Seq(S), q # << >>
    PROVE  /\ Head(q) \in S /\ Tail(q) \in Seq(S) /\ Len(q) \in Nat /\ Len(q) > 0
           /\ Head(q) = q[1] /\ Len(Tail(q)) = Len(q) - 1
           /\ \A i \in 1..Len(Tail(q)) : Tail(q)[i] = q[i + 1] /\ i + 1 \in 1..Len(q)
OBVIOUS

LEMMA QueueGrows ==
    ASSUME NEW S, NEW q \in Seq(S), NEW e \in S
    PROVE  /\ Append(q, e) \in Seq(S) /\ Len(q) \in Nat /\ Len(Append(q, e)) = Len(q) + 1
           /\ Append(q, e)[Len(q) + 1] = e
           /\ \A i \in 1..Len(q) : Append(q, e)[i] = q[i] /\ i \in 1..(Len(q) + 1)
OBVIOUS

LEMMA EmptyQueue == \A S : << >> \in Seq(S) /\ Len(<< >>) = 0
OBVIOUS

-----------------------------------------------------------------------------
LEMMA FeedBegins == FeedInit => FeedInv
<1> SUFFICES ASSUME FeedInit
             PROVE  FeedInv
  OBVIOUS
<1> USE RestingIsJob, NoneIsApart, ActorFacts, StatusParts DEF FeedInit
<1>1. FeedTypeOK
  <2>1. requests \in Seq(Asks) /\ wire \in Seq(FeedLines) /\ newest \in Statuses
    BY EmptyQueue
  <2>2. job \in [Actors -> Jobs]
    OBVIOUS
  <2>3. left \in [connections : 0..Connections, core : Nat, side : Nat,
                  telemetry : Nat, commands : Nat, loads : Nat]
    BY FeedAssumption
  <2>4. guard \in [revision : Nat, observed : Nat, confirmed : Nat, sequence : Nat]
    OBVIOUS
  <2> QED
    <3>1. conn \in 0..Connections /\ results \subseteq [ask : Asks, status : Statuses \cup {None}]
          /\ calls \subseteq Asks /\ core \in Nat /\ side \in Nat
          /\ handle \in {"held", "gone", "lost"}
      BY FeedAssumption
    <3>2. page \in {"closed", "loading", "asking", "ready"} /\ live \in BOOLEAN
          /\ online \in BOOLEAN /\ stale \in BOOLEAN /\ bus = None
      OBVIOUS
    <3> HIDE DEF FeedInit
    <3> QED
      BY <2>1, <2>2, <2>3, <2>4, <3>1, <3>2 DEF FeedTypeOK
<1>2. JobInv
  BY DEF JobInv, JobOK
<1>3. SentInv
  BY DEF SentInv, AtMost
<1>4. LinkInv
  BY <1>1, FeedAssumption DEF LinkInv, FeedTypeOK
<1>5. ~(\E x \in Asks : Asked(x)) /\ ~(\E x, status : Replied(x, status))
  BY DEF Asked, Replied, Busy
<1> QED
  BY <1>1, <1>2, <1>3, <1>4, <1>5 DEF FeedInv, AskInv, ReplyInv, PipeInv, ShownInv, Reasons


-----------------------------------------------------------------------------
(* What keeps the parts.                                                    *)

LEMMA QuietKeepsShown ==
    ASSUME ShownInv, stale => stale',
           UNCHANGED <<core, side, newest, guard, store, page, live>>,
           Reasons => stale' \/ Reasons',
           \A x \in Asks : Asked(x)' /\ x.to = "page" => Asked(x),
           \A x \in Asks : \A status \in Statuses : Replied(x, status)' =>
               \/ Replied(x, status)
               \/ /\ online /\ job[conn].at = "lock" /\ job[conn].ask = x
                  /\ status = <<core, job[conn].side>>,
           (online /\ job[conn].at = "lock")' =>
               \/ online /\ job[conn].at = "lock" /\ (job[conn])' = job[conn]
               \/ (job[conn].side)' = side
    PROVE  ShownInv'
<1> SUFFICES ASSUME ~stale', ~Reasons'
             PROVE  (RepliedInv /\ LockedInv /\ StoreInv)'
  BY DEF ShownInv
<1>1. RepliedInv /\ LockedInv /\ StoreInv /\ newest = <<core, side>>
  BY DEF ShownInv, Reasons
<1>2. \A x : Acceptable(x)' <=> Acceptable(x)
  BY DEF Acceptable, AcceptsSnapshot
<1>3. RepliedInv'
  BY <1>1, <1>2 DEF RepliedInv, LockedInv
<1>4. LockedInv'
  BY <1>1, <1>2 DEF LockedInv
<1>5. Loading => Loading'
  BY DEF Loading, AcceptsSnapshot
<1>6. StoreInv'
  BY <1>1, <1>5 DEF StoreInv
<1> QED
  BY <1>3, <1>4, <1>6

LEMMA KeepsSent ==
    ASSUME SentInv, UNCHANGED <<core, side, handle, newest>>,
           \A a \in Actors : (CarriesCore(a) => CarriesCore(a)') /\ (CarriesSide(a) => CarriesSide(a)')
    PROVE  SentInv'
BY DEF SentInv, AtMost

LEMMA KeepsAsks ==
    ASSUME FeedTypeOK, FeedTypeOK', AskInv,
           guard.revision <= guard'.revision, guard.observed <= guard'.observed,
           page' = "closed" => page = "closed" /\ (live' => live),
           \A x \in Asks : Asked(x)' =>
               \/ Asked(x)
               \/ /\ x.to = "page" => x.kind = "get" /\ x.seen <= guard'.revision
                  /\ x.to = "command" => x.seen <= guard'.observed
                  /\ page' = "closed" => x.to \notin {"page", "command"}
                  /\ x.to = "client" /\ x.kind # "subscribe" => x = ClientGet,
           \A x \in calls' : x \in calls \/ (x.kind # "subscribe" /\ x.to \in {"page", "command", "tray"}),
           \A r \in results' : r \in results \/ r.ask.to # "client"
    PROVE  AskInv'
<1>1. guard.revision \in Nat /\ guard'.revision \in Nat /\ guard.observed \in Nat /\ guard'.observed \in Nat
  BY DEF FeedTypeOK
<1>2. \A x \in Asks : x.seen \in Nat
  BY DEF Asks
<1>3. ASSUME NEW x \in Asks, Asked(x)'
      PROVE  /\ x.to = "page" => x.kind = "get" /\ x.seen <= guard'.revision
             /\ x.to = "command" => x.seen <= guard'.observed
             /\ page' = "closed" => x.to \notin {"page", "command"}
             /\ x.to = "client" /\ x.kind # "subscribe" => x = ClientGet
  <2>1. CASE Asked(x)
    <3>1. /\ x.to = "page" => x.kind = "get" /\ x.seen <= guard.revision
          /\ x.to = "command" => x.seen <= guard.observed
          /\ page = "closed" => x.to \notin {"page", "command"}
          /\ x.to = "client" /\ x.kind # "subscribe" => x = ClientGet
      BY <2>1 DEF AskInv
    <3> QED
      BY <3>1, <1>1, <1>2
  <2> QED
    BY <1>3, <2>1
<1>4. \A x \in calls' : x.kind # "subscribe" /\ x.to \in {"page", "command", "tray"}
  BY DEF AskInv
<1>5. (\A r \in results' : r.ask.to # "client") /\ (page' = "closed" => ~live')
  BY DEF AskInv
<1> QED
  BY <1>3, <1>4, <1>5 DEF AskInv

LEMMA KeepsReplies ==
    ASSUME FeedTypeOK, FeedTypeOK', ReplyInv, core <= core', side <= side',
           \A x \in Asks : \A status \in Statuses \cup {None} : Replied(x, status)' =>
               \/ Replied(x, status)
               \/ /\ x.kind # "subscribe" /\ (x.kind = "get" => status # None)
                  /\ status # None => AtMost(status)',
           \A i \in 1..Len(wire') : wire'[i].ask = None => wire'[i].status # None
    PROVE  ReplyInv'
<1>1. \A status \in Statuses : AtMost(status) => AtMost(status)'
  <2>1. core \in Nat /\ core' \in Nat /\ side \in Nat /\ side' \in Nat
    BY DEF FeedTypeOK
  <2> QED
    BY <2>1, StatusParts DEF AtMost
<1> QED
  BY <1>1 DEF ReplyInv

LEMMA KeepsPipe ==
    ASSUME PipeInv, UNCHANGED <<bus, wire, newest>>, stale => stale'
    PROVE  PipeInv'
BY DEF PipeInv, LastInBus, LastInWire, InBus

\* One actor goes on.
LEMMA JobKeeps ==
    ASSUME FeedTypeOK, JobInv, NEW a \in Actors, NEW k \in Jobs, job' = [job EXCEPT ![a] = k],
           a \in Handlers => job[a].at # "idle" \/ a <= conn,
           core' \in Nat, core <= core', side' \in Nat, side <= side', JobOK(a)', conn' = conn
    PROVE  /\ job'[a] = k /\ \A b \in Actors : b # a => job'[b] = job[b]
           /\ JobInv'
<1>1. job'[a] = k /\ \A b \in Actors : b # a => job'[b] = job[b]
  BY DEF FeedTypeOK
<1>2. a \in Handlers => ~(a > conn)
  BY RestingIsJob, FeedAssumption, SMTT(30) DEF JobInv, FeedTypeOK, Handlers
<1>3. ASSUME NEW b \in Actors, b # a
      PROVE  JobOK(b)'
  <2>1. JobOK(b) /\ job'[b] = job[b] /\ job[b] \in Jobs
    BY <1>1, <1>3 DEF JobInv, FeedTypeOK
  <2>2. job[b].status # None => job[b].status[1] \in Nat /\ job[b].status[2] \in Nat
    BY <2>1, StatusParts DEF Jobs
  <2>3. job[b].side \in Nat /\ core \in Nat /\ side \in Nat
    BY <2>1 DEF Jobs, FeedTypeOK
  <2> QED
    BY <2>1, <2>2, <2>3 DEF JobOK, AtMost
<1>4. ASSUME NEW b \in Handlers, b > conn
      PROVE  job'[b] = Resting
  BY <1>1, <1>2, <1>4, ActorFacts DEF JobInv
<1> QED
  BY <1>1, <1>3, <1>4 DEF JobInv

\* What was asked for stays so, and only the actor may have answered.
LEMMA JobMoves ==
    ASSUME FeedTypeOK, JobInv, LinkInv, NEW a \in Actors, NEW k \in Jobs, job' = [job EXCEPT ![a] = k],
           a \in Handlers => job[a].at # "idle",
           a = conn /\ online => k.at # "idle" /\ k.ask = job[a].ask,
           core' \in Nat, core <= core', side' \in Nat, side <= side', JobOK(a)',
           UNCHANGED <<conn, online, requests, wire, calls, results>>
    PROVE  /\ job'[a] = k /\ \A b \in Actors : b # a => job'[b] = job[b]
           /\ JobInv'
           /\ \A x \in Asks : Asked(x)' <=> Asked(x)
           /\ \A x, status : Replied(x, status)' =>
                  \/ Replied(x, status)
                  \/ a = conn /\ online /\ k.at = "reply" /\ k.ask = x /\ k.status = status
<1>1. job'[a] = k /\ (\A b \in Actors : b # a => job'[b] = job[b]) /\ JobInv'
  BY JobKeeps
<1>2. online => conn \in Handlers /\ conn \in Actors
  BY ActorFacts DEF LinkInv, FeedTypeOK
<1>3. ASSUME NEW x \in Asks
      PROVE  Asked(x)' <=> Asked(x)
  <2>1. (Busy /\ job[conn].ask = x)' <=> Busy /\ job[conn].ask = x
    BY <1>1, <1>2 DEF Busy
  <2> QED
    BY <2>1 DEF Asked
<1>4. ASSUME NEW x, NEW status, Replied(x, status)'
      PROVE  \/ Replied(x, status)
             \/ a = conn /\ online /\ k.at = "reply" /\ k.ask = x /\ k.status = status
  BY <1>1, <1>2, <1>4 DEF Replied
<1> QED
  BY <1>1, <1>3, <1>4

\* Requests, answers and the page rest.
LEMMA JobStep ==
    ASSUME FeedInv, NEW a \in Actors, NEW k \in Jobs, job' = [job EXCEPT ![a] = k],
           a \in Handlers => job[a].at # "idle",
           a = conn /\ online => k.at # "idle" /\ k.ask = job[a].ask,
           core' \in Nat, core <= core', side' \in Nat, side <= side', JobOK(a)',
           handle' \in {"held", "gone", "lost"},
           UNCHANGED <<newest, linkVars, pageVars, stale>>,
           left' \in [connections : 0..Connections, core : Nat, side : Nat,
                      telemetry : Nat, commands : Nat, loads : Nat],
           left'.connections = left.connections
    PROVE  /\ FeedTypeOK' /\ JobInv' /\ LinkInv' /\ AskInv' /\ PipeInv'
           /\ \A x \in Asks : Asked(x)' <=> Asked(x)
           /\ \A x, status : Replied(x, status)' =>
                  \/ Replied(x, status)
                  \/ a = conn /\ online /\ k.at = "reply" /\ k.ask = x /\ k.status = status
           /\ core' = core /\ side' = side /\ Reasons => Reasons'
           /\ core' # core \/ side' # side => Reasons'
<1>0. FeedTypeOK /\ JobInv /\ LinkInv /\ SentInv /\ AskInv /\ PipeInv
  BY DEF FeedInv
<1>1. /\ newest' = newest /\ stale' = stale
      /\ conn' = conn /\ online' = online /\ requests' = requests /\ bus' = bus /\ wire' = wire
      /\ calls' = calls /\ results' = results /\ page' = page /\ live' = live /\ store' = store
      /\ guard' = guard
  BY DEF linkVars, pageVars
<1>2. FeedTypeOK'
  BY <1>0, <1>1 DEF FeedTypeOK
<1>3. /\ job'[a] = k /\ \A b \in Actors : b # a => job'[b] = job[b]
      /\ JobInv'
      /\ \A x \in Asks : Asked(x)' <=> Asked(x)
      /\ \A x, status : Replied(x, status)' =>
             \/ Replied(x, status)
             \/ a = conn /\ online /\ k.at = "reply" /\ k.ask = x /\ k.status = status
  BY <1>0, <1>1, JobMoves, ZenonT(60)
<1>4. LinkInv'
  <2>1. online /\ bus = None => job'[conn].at = "idle"
    <3>1. online /\ bus = None => conn # 0 /\ job[conn].at = "idle"
      BY <1>0 DEF LinkInv
    <3>2. conn # 0 => conn \in Handlers /\ conn \in Actors
      BY <1>0, ActorFacts DEF FeedTypeOK
    <3> QED
      BY <1>3, <3>1, <3>2
  <2> QED
    BY <1>0, <1>1, <2>1 DEF LinkInv
<1>5. AskInv'
  <2>1. guard.revision \in Nat /\ guard.observed \in Nat
    BY <1>0 DEF FeedTypeOK
  <2>2. guard.revision <= guard'.revision /\ guard.observed <= guard'.observed
    BY <1>1, <2>1
  <2> QED
    BY <2>2, <1>0, <1>1, <1>2, <1>3, KeepsAsks
<1>6. PipeInv'
  BY <1>0, <1>1, KeepsPipe
<1>7. ClientGet \in Asks
  BY DEF ClientGet, Ask, Asks
<1>8. core' = core /\ side' = side /\ Reasons => Reasons'
  BY <1>1, <1>3, <1>7 DEF Reasons, InBus, InWire
<1>9. core' # core \/ side' # side => newest' # <<core', side'>>
  <2>1. core \in Nat /\ side \in Nat /\ newest[1] <= core /\ newest[2] <= side
        /\ newest[1] \in Nat /\ newest[2] \in Nat
    BY <1>0, StatusParts DEF FeedTypeOK, SentInv, AtMost
  <2> QED
    BY <1>1, <2>1
<1>10. core' # core \/ side' # side => Reasons'
  BY <1>9 DEF Reasons
<1> QED
  BY <1>2, <1>3, <1>4, <1>5, <1>6, <1>8, <1>10

LEMMA AnswerIs ==
    ASSUME FeedTypeOK, NEW a \in Actors, NEW status \in Statuses \cup {None}, Answer(a, status)
    PROVE  \E k \in Jobs :
               /\ job' = [job EXCEPT ![a] = k]
               /\ a = conn /\ online => /\ k.at = "reply" /\ k.ask = job[a].ask
                                        /\ k.status = status /\ k.side = job[a].side
               /\ ~(a = conn /\ online) => k = Resting
<1> DEFINE replying == [job[a] EXCEPT !.at = "reply"]
           k == IF a = conn /\ online THEN [replying EXCEPT !.status = status] ELSE Resting
<1>1. job[a] \in Jobs
  BY DEF FeedTypeOK
<1>2. replying \in Jobs /\ replying.at = "reply" /\ replying.ask = job[a].ask /\ replying.side = job[a].side
  BY <1>1 DEF Jobs
<1>3. /\ [replying EXCEPT !.status = status] \in Jobs /\ [replying EXCEPT !.status = status].at = "reply"
      /\ [replying EXCEPT !.status = status].ask = job[a].ask
      /\ [replying EXCEPT !.status = status].status = status
      /\ [replying EXCEPT !.status = status].side = job[a].side
  <2> HIDE DEF replying
  <2> QED
    BY <1>2 DEF Jobs
<1>4. job' = [job EXCEPT ![a] = k]
  BY DEF Answer
<1> HIDE DEF replying
<1> QED
  BY <1>3, <1>4, RestingIsJob

LEMMA ServeIs ==
    ASSUME FeedTypeOK, NEW a \in Actors, NEW ask \in Asks, Serve(a, ask)
    PROVE  \E k \in Jobs :
               /\ job' = [job EXCEPT ![a] = k]
               /\ k.ask = ask /\ k.side = 0 /\ k.status = None
               /\ k.at = IF ask.kind = "slow" THEN "work" ELSE "read"
<1> DEFINE asked == [Resting EXCEPT !.ask = ask]
           first == IF ask.kind = "slow" THEN "work" ELSE "read"
           k == [asked EXCEPT !.at = first]
<1>1. asked \in Jobs /\ asked.ask = ask /\ asked.side = 0 /\ asked.status = None
  BY RestingIsJob DEF Jobs
<1>2. k \in Jobs /\ k.ask = ask /\ k.side = 0 /\ k.status = None /\ k.at = first
  <2> HIDE DEF asked
  <2> QED
    BY <1>1 DEF Jobs
<1>3. job' = [job EXCEPT ![a] = k]
  BY DEF Serve
<1> HIDE DEF k
<1> QED
  BY <1>2, <1>3

LEMMA Spending ==
    ASSUME FeedTypeOK, NEW what \in {"connections", "core", "side", "telemetry", "commands", "loads"},
           Spend(what)
    PROVE  /\ left' \in [connections : 0..Connections, core : Nat, side : Nat,
                         telemetry : Nat, commands : Nat, loads : Nat]
           /\ left.connections \in Nat
           /\ what # "connections" => left'.connections = left.connections
           /\ what = "connections" => left.connections > 0 /\ left'.connections = left.connections - 1
<1>1. left \in [connections : 0..Connections, core : Nat, side : Nat,
                telemetry : Nat, commands : Nat, loads : Nat]
  BY DEF FeedTypeOK
<1>2. left[what] > 0 /\ left' = [left EXCEPT ![what] = left[what] - 1]
  BY DEF Spend
<1>3. CASE what = "connections"
  BY <1>1, <1>2, <1>3, FeedAssumption
<1>4. CASE what # "connections"
  BY <1>1, <1>2, <1>4, FeedAssumption
<1> QED
  BY <1>3, <1>4

LEMMA JobSet ==
    ASSUME FeedTypeOK, NEW a \in Actors, NEW k, job' = [job EXCEPT ![a] = k]
    PROVE  job'[a] = k /\ \A b \in Actors : b # a => job'[b] = job[b]
BY DEF FeedTypeOK

LEMMA OthersActKeeps == FeedInv /\ OthersAct => FeedInv'
<1> SUFFICES ASSUME FeedInv, OthersAct
             PROVE  FeedInv'
  OBVIOUS
<1>0. FeedTypeOK /\ JobInv /\ SentInv /\ LinkInv /\ AskInv /\ ReplyInv /\ PipeInv /\ ShownInv
  BY DEF FeedInv
<1>1. /\ job[Other].at = "idle"
      /\ core' = core /\ side' = side /\ handle' = handle /\ newest' = newest
      /\ conn' = conn /\ online' = online /\ requests' = requests /\ bus' = bus /\ wire' = wire
      /\ calls' = calls /\ results' = results /\ page' = page /\ live' = live /\ store' = store
      /\ guard' = guard /\ stale' = stale
  BY DEF OthersAct, linkVars, pageVars
<1>2. PICK what \in {"core", "side"}, ask \in Asks :
          Spend(what) /\ Serve(Other, ask) /\ ask.kind \in {"set", "slow"}
  BY DEF OthersAct, Ask, Asks
<1>3. PICK k \in Jobs : /\ job' = [job EXCEPT ![Other] = k]
                        /\ k.ask = ask /\ k.side = 0 /\ k.status = None
                        /\ k.at = IF ask.kind = "slow" THEN "work" ELSE "read"
  BY <1>0, <1>2, ServeIs, ActorFacts
<1>4. job'[Other] = k /\ \A b \in Actors : b # Other => job'[b] = job[b]
  BY <1>0, <1>3, JobSet, ActorFacts
<1>5. core \in Nat /\ side \in Nat
  BY <1>0 DEF FeedTypeOK
<1>6. JobOK(Other)'
  BY <1>1, <1>2, <1>3, <1>4, <1>5, NoneIsApart DEF JobOK
<1>7. /\ FeedTypeOK' /\ JobInv' /\ LinkInv' /\ AskInv' /\ PipeInv'
      /\ \A x \in Asks : Asked(x)' <=> Asked(x)
  <2>1. /\ left' \in [connections : 0..Connections, core : Nat, side : Nat,
                      telemetry : Nat, commands : Nat, loads : Nat]
        /\ left'.connections = left.connections
    BY <1>0, <1>2, Spending
  <2>2. UNCHANGED <<newest, linkVars, pageVars, stale>>
    BY <1>1 DEF linkVars, pageVars
  <2>3. conn # Other /\ Other \notin Handlers /\ Other \in Actors
    BY <1>0, ActorFacts DEF FeedTypeOK
  <2>4. /\ core' \in Nat /\ core <= core' /\ side' \in Nat /\ side <= side'
        /\ handle' \in {"held", "gone", "lost"}
    BY <1>0, <1>1, <1>5 DEF FeedTypeOK
  <2> QED
    BY <1>3, <1>6, <2>1, <2>2, <2>3, <2>4, JobStep
<1>8. conn # Other /\ (online => job'[conn] = job[conn])
  BY <1>0, <1>4, ActorFacts DEF LinkInv, FeedTypeOK
<1>9. \A x, status : Replied(x, status)' <=> Replied(x, status)
  BY <1>1, <1>8 DEF Replied
<1>10. ReplyInv'
  BY <1>0, <1>1, <1>5, <1>7, <1>9, KeepsReplies DEF ReplyInv
<1>11. SentInv'
  <2>1. \A a \in Actors : (CarriesCore(a) => CarriesCore(a)') /\ (CarriesSide(a) => CarriesSide(a)')
    BY <1>1, <1>4 DEF CarriesCore, CarriesSide
  <2> QED
    BY <1>0, <1>1, <2>1, KeepsSent
<1>12. Reasons => Reasons'
  BY <1>1, <1>7, NoneIsApart DEF Reasons, InBus, InWire, ClientGet, Ask, Asks
<1>13. ShownInv'
  BY <1>0, <1>1, <1>7, <1>8, <1>9, <1>12, QuietKeepsShown
<1> QED
  BY <1>7, <1>10, <1>11, <1>13 DEF FeedInv

LEMMA TickKeeps == FeedInv /\ Tick => FeedInv'
<1> SUFFICES ASSUME FeedInv, Tick
             PROVE  FeedInv'
  OBVIOUS
<1>0. FeedTypeOK /\ JobInv /\ SentInv /\ LinkInv /\ AskInv /\ ReplyInv /\ PipeInv /\ ShownInv
  BY DEF FeedInv
<1>1. /\ job[Loop].at = "idle"
      /\ side' = side /\ newest' = newest
      /\ conn' = conn /\ online' = online /\ requests' = requests /\ bus' = bus /\ wire' = wire
      /\ calls' = calls /\ results' = results /\ page' = page /\ live' = live /\ store' = store
      /\ guard' = guard /\ stale' = stale
  BY DEF Tick, linkVars, pageVars
<1>2. PICK seen \in {"held", "gone"}, moved \in BOOLEAN, loses \in BOOLEAN :
          LET told == moved \/ seen # handle
              differs == moved \/ loses \/ (seen = "held") # (handle = "held")
          IN  /\ loses => seen = "held"
              /\ handle' = IF loses THEN "lost" ELSE seen
              /\ core' = IF differs THEN core + 1 ELSE core
              /\ CASE differs -> Spend("core")
                   [] ~differs /\ told -> UNCHANGED left
                   [] ~differs /\ ~told -> Spend("telemetry")
              /\ job' = [job EXCEPT ![Loop] =
                            [Resting EXCEPT !.at = "telemetry",
                                            !.status = IF told THEN <<core', side>> ELSE None]]
  BY DEF Tick
<1> DEFINE told == moved \/ seen # handle
           status == IF told THEN <<core', side>> ELSE None
           k == [Resting EXCEPT !.at = "telemetry", !.status = status]
<1>3. core \in Nat /\ side \in Nat /\ core' \in Nat /\ core <= core' /\ side' \in Nat /\ side <= side'
  <2>1. core' = core \/ core' = core + 1
    BY <1>2, Zenon
  <2>2. core \in Nat /\ side \in Nat
    BY <1>0, Zenon DEF FeedTypeOK
  <2>3. side' = side
    BY <1>1
  <2> QED
    BY <2>1, <2>2, <2>3
<1>4. status \in Statuses \cup {None}
  BY <1>3, StatusParts
<1>5. status # None => status[1] = core' /\ status[2] = side
  BY <1>3, StatusParts
<1>6. core' # core \/ handle = "lost" => status # None \/ handle' = "lost"
  <2>1. told => status # None
    BY <1>3, StatusParts, NoneIsApart
  <2>2. core' # core \/ handle = "lost" => told \/ handle' = "lost"
    BY <1>2
  <2> QED
    BY <2>1, <2>2
<1>7. job' = [job EXCEPT ![Loop] = k]
  BY <1>2
<1>15. /\ handle' \in {"held", "gone", "lost"}
       /\ Spend("core") \/ Spend("telemetry") \/ left' = left
  BY <1>2
<1> HIDE DEF told
<1> HIDE DEF status
<1>8. k \in Jobs /\ k.at = "telemetry" /\ k.ask = None /\ k.status = status /\ k.side = 0
  BY <1>4 DEF Resting, Jobs
<1> HIDE DEF k
<1>9. job'[Loop] = k /\ \A b \in Actors : b # Loop => job'[b] = job[b]
  BY <1>0, <1>7, JobSet, ActorFacts
<1>10. JobOK(Loop)'
  BY <1>1, <1>3, <1>5, <1>8, <1>9, NoneIsApart DEF JobOK, AtMost
<1>11. /\ FeedTypeOK' /\ JobInv' /\ LinkInv' /\ AskInv' /\ PipeInv'
       /\ \A x \in Asks : Asked(x)' <=> Asked(x)
       /\ \A x, s : Replied(x, s)' => Replied(x, s)
       /\ core' = core /\ side' = side /\ Reasons => Reasons'
       /\ core' # core \/ side' # side => Reasons'
  <2>1. /\ left' \in [connections : 0..Connections, core : Nat, side : Nat,
                      telemetry : Nat, commands : Nat, loads : Nat]
        /\ left'.connections = left.connections
    BY <1>0, <1>15, Spending DEF FeedTypeOK
  <2>2. UNCHANGED <<newest, linkVars, pageVars, stale>>
    BY <1>1 DEF linkVars, pageVars
  <2>3. conn # Loop /\ Loop \notin Handlers /\ Loop \in Actors
    BY <1>0, ActorFacts DEF FeedTypeOK
  <2> QED
    BY <1>3, <1>7, <1>8, <1>10, <1>15, <2>1, <2>2, <2>3, JobStep
<1>12. ReplyInv'
  BY <1>0, <1>1, <1>3, <1>11, KeepsReplies DEF ReplyInv
<1>13. SentInv'
  <2>1. \A a \in Actors : a # Loop => CarriesCore(a)' \/ ~CarriesCore(a) \/ core' # core
    BY <1>9 DEF CarriesCore
  <2>2. \A a \in Actors : CarriesSide(a) => CarriesSide(a)'
    BY <1>1, <1>9 DEF CarriesSide
  <2>3. ~CarriesCore(Loop)
    BY <1>1 DEF CarriesCore
  <2>4. core' # core \/ handle = "lost" => CarriesCore(Loop)' \/ handle' = "lost"
    BY <1>5, <1>6, <1>8, <1>9 DEF CarriesCore
  <2>5. AtMost(newest)'
    <3>1. newest[1] \in Nat /\ newest[1] <= core /\ newest[2] <= side
      BY <1>0, StatusParts DEF SentInv, AtMost, FeedTypeOK
    <3> QED
      BY <3>1, <1>1, <1>3 DEF AtMost
  <2> QED
    BY <1>0, <1>1, <2>1, <2>2, <2>3, <2>4, <2>5, ActorFacts DEF SentInv
<1>14. ShownInv'
  <2>1. CASE core' # core
    BY <2>1, <1>11 DEF ShownInv
  <2>2. CASE core' = core
    <3>1. online => conn \in Actors /\ conn # Loop
      BY <1>0, ActorFacts DEF LinkInv, FeedTypeOK
    <3>2. (online /\ job[conn].at = "lock")' => 
             online /\ job[conn].at = "lock" /\ (job[conn])' = job[conn]
      BY <1>1, <1>9, <3>1
    <3> QED
      BY <2>2, <1>0, <1>1, <1>11, <3>2, QuietKeepsShown
  <2> QED
    BY <2>1, <2>2
<1> QED
  BY <1>11, <1>12, <1>13, <1>14 DEF FeedInv

LEMMA ReadSideKeeps == ASSUME NEW a \in Actors PROVE FeedInv /\ ReadSide(a) => FeedInv'
<1> SUFFICES ASSUME FeedInv, ReadSide(a)
             PROVE  FeedInv'
  OBVIOUS
<1>0. FeedTypeOK /\ JobInv /\ SentInv /\ LinkInv /\ AskInv /\ ReplyInv /\ PipeInv /\ ShownInv
  BY DEF FeedInv
<1>1. /\ job[a].at = "read" /\ core' = core /\ side' = side /\ handle' = handle /\ newest' = newest
      /\ conn' = conn /\ online' = online /\ requests' = requests /\ bus' = bus /\ wire' = wire
      /\ calls' = calls /\ results' = results /\ page' = page /\ live' = live /\ store' = store
      /\ guard' = guard /\ stale' = stale /\ left' = left
  BY DEF ReadSide, linkVars, pageVars
<1>2. core \in Nat /\ side \in Nat /\ job[a] \in Jobs
  BY <1>0 DEF FeedTypeOK
<1> DEFINE reading == [job[a] EXCEPT !.side = side]
           k == [reading EXCEPT !.at = "lock"]
<1>3. job' = [job EXCEPT ![a] = k]
  BY DEF ReadSide
<1>4. reading \in Jobs /\ reading.ask = job[a].ask /\ reading.side = side /\ reading.status = job[a].status
  BY <1>2 DEF Jobs
<1> HIDE DEF reading
<1>5. k \in Jobs /\ k.at = "lock" /\ k.ask = job[a].ask /\ k.side = side /\ k.status = job[a].status
  BY <1>4 DEF Jobs
<1> HIDE DEF k
<1>6. job'[a] = k /\ \A b \in Actors : b # a => job'[b] = job[b]
  BY <1>0, <1>3, JobSet
<1>7. JobOK(a)'
  <2>1. JobOK(a)
    BY <1>0 DEF JobInv
  <2> QED
    BY <1>1, <1>2, <1>5, <1>6, <2>1 DEF JobOK, AtMost
<1>8. /\ FeedTypeOK' /\ JobInv' /\ LinkInv' /\ AskInv' /\ PipeInv'
      /\ \A x \in Asks : Asked(x)' <=> Asked(x)
      /\ \A x, s : Replied(x, s)' => Replied(x, s)
      /\ Reasons => Reasons'
  <2>1. UNCHANGED <<newest, linkVars, pageVars, stale>>
    BY <1>1 DEF linkVars, pageVars
  <2>2. /\ left' \in [connections : 0..Connections, core : Nat, side : Nat,
                      telemetry : Nat, commands : Nat, loads : Nat]
        /\ handle' \in {"held", "gone", "lost"}
    BY <1>0, <1>1 DEF FeedTypeOK
  <2>3. /\ core' \in Nat /\ core <= core' /\ side' \in Nat /\ side <= side'
        /\ left'.connections = left.connections /\ job[a].at # "idle" /\ k.at # "idle"
    BY <1>1, <1>2, <1>5
  <2>4. /\ FeedTypeOK' /\ JobInv' /\ LinkInv' /\ AskInv' /\ PipeInv'
        /\ \A x \in Asks : Asked(x)' <=> Asked(x)
        /\ \A x, s : Replied(x, s)' =>
               Replied(x, s) \/ (a = conn /\ online /\ k.at = "reply" /\ k.ask = x /\ k.status = s)
        /\ core' = core /\ side' = side /\ Reasons => Reasons'
        /\ core' # core \/ side' # side => Reasons'
    BY <1>3, <1>5, <1>7, <2>1, <2>2, <2>3, JobStep
  <2> QED
    BY <1>1, <1>5, <2>4
<1>9. ReplyInv'
  BY <1>0, <1>1, <1>2, <1>8, KeepsReplies DEF ReplyInv
<1>10. SentInv'
  <2>1. \A b \in Actors : b # a => (CarriesCore(b) => CarriesCore(b)') /\ (CarriesSide(b) => CarriesSide(b)')
    BY <1>1, <1>6 DEF CarriesCore, CarriesSide
  <2>2. ~CarriesCore(a) /\ (CarriesSide(a) => CarriesSide(a)')
    BY <1>1, <1>5, <1>6 DEF CarriesCore, CarriesSide
  <2> QED
    BY <1>0, <1>1, <2>1, <2>2, KeepsSent
<1>11. ShownInv'
  <2>1. online => conn \in Actors
    BY <1>0, ActorFacts DEF LinkInv, FeedTypeOK
  <2>2. (online /\ job[conn].at = "lock")' =>
           \/ online /\ job[conn].at = "lock" /\ (job[conn])' = job[conn]
           \/ (job[conn].side)' = side
    BY <1>1, <1>5, <1>6, <2>1
  <2> QED
    BY <1>0, <1>1, <1>8, <2>2, QuietKeepsShown
<1> QED
  BY <1>8, <1>9, <1>10, <1>11 DEF FeedInv

LEMMA WorkKeeps == ASSUME NEW a \in Actors PROVE FeedInv /\ Work(a) => FeedInv'
<1> SUFFICES ASSUME FeedInv, Work(a)
             PROVE  FeedInv'
  OBVIOUS
<1>0. FeedTypeOK /\ JobInv /\ SentInv /\ LinkInv /\ AskInv /\ ReplyInv /\ PipeInv /\ ShownInv
  BY DEF FeedInv
<1>1. /\ job[a].at = "work" /\ core' = core /\ handle' = handle /\ newest' = newest
      /\ conn' = conn /\ online' = online /\ requests' = requests /\ bus' = bus /\ wire' = wire
      /\ calls' = calls /\ results' = results /\ page' = page /\ live' = live /\ store' = store
      /\ guard' = guard /\ stale' = stale /\ left' = left
  BY DEF Work, linkVars, pageVars
<1>2. core \in Nat /\ side \in Nat /\ job[a] \in Jobs
  BY <1>0 DEF FeedTypeOK
<1>3. JobOK(a) /\ job[a].ask.kind = "slow" /\ job[a].ask # None
  BY <1>0, <1>1 DEF JobInv, JobOK
<1>4. \E k \in Jobs :
          /\ job' = [job EXCEPT ![a] = k]
          /\ \/ /\ k.at = "read" /\ k.ask = job[a].ask /\ k.side = job[a].side
                /\ k.status = job[a].status /\ side' \in {side, side + 1}
             \/ /\ side' = side /\ a = conn /\ online /\ k.at = "reply" /\ k.ask = job[a].ask
                /\ k.status = None /\ k.side = job[a].side
             \/ side' = side /\ ~(a = conn /\ online) /\ k = Resting
  <2>1. ASSUME NEW failed \in BOOLEAN, job' = [job EXCEPT ![a].at = "read", ![a].failed = failed],
               side' \in {side, side + 1}
        PROVE  <1>4!:
    <3> DEFINE reading == [job[a] EXCEPT !.at = "read"]
               k == [reading EXCEPT !.failed = failed]
    <3>1. job' = [job EXCEPT ![a] = k]
      BY <2>1
    <3>2. reading \in Jobs /\ reading.at = "read" /\ reading.ask = job[a].ask
          /\ reading.side = job[a].side /\ reading.status = job[a].status
      BY <1>2 DEF Jobs
    <3> HIDE DEF reading
    <3>3. k \in Jobs /\ k.at = "read" /\ k.ask = job[a].ask /\ k.side = job[a].side
          /\ k.status = job[a].status
      BY <3>2 DEF Jobs
    <3> HIDE DEF k
    <3> QED
      BY <2>1, <3>1, <3>3
  <2>2. ASSUME Answer(a, None), side' = side
        PROVE  <1>4!:
    BY <1>0, <2>2, AnswerIs
  <2> QED
    BY <2>1, <2>2 DEF Work
<1>5. PICK k \in Jobs : <1>4!(k)
  BY <1>4
<1>6. job'[a] = k /\ \A b \in Actors : b # a => job'[b] = job[b]
  BY <1>0, <1>5, JobSet
<1>7. side' \in Nat /\ side <= side'
  BY <1>2, <1>5
<1>8. JobOK(a)'
  <2>1. job[a].status # None => job[a].status[1] \in Nat /\ job[a].status[2] \in Nat
    BY <1>2, StatusParts DEF Jobs
  <2>2. job[a].side \in Nat
    BY <1>2 DEF Jobs
  <2>3. CASE k = Resting
    BY <1>6, <1>7, <2>3, <1>2, RestingIsJob DEF JobOK
  <2>4. CASE k # Resting
    BY <1>1, <1>2, <1>3, <1>5, <1>6, <1>7, <2>1, <2>2, <2>4 DEF JobOK, AtMost
  <2> QED
    BY <2>3, <2>4
<1>9. /\ FeedTypeOK' /\ JobInv' /\ LinkInv' /\ AskInv' /\ PipeInv'
      /\ \A x \in Asks : Asked(x)' <=> Asked(x)
      /\ \A x, s : Replied(x, s)' => Replied(x, s) \/ (x = job[a].ask /\ s = None)
      /\ side' = side /\ Reasons => Reasons'
      /\ side' # side => Reasons'
  <2>1. UNCHANGED <<newest, linkVars, pageVars, stale>>
    BY <1>1 DEF linkVars, pageVars
  <2>2. /\ left' \in [connections : 0..Connections, core : Nat, side : Nat,
                      telemetry : Nat, commands : Nat, loads : Nat]
        /\ handle' \in {"held", "gone", "lost"}
    BY <1>0, <1>1 DEF FeedTypeOK
  <2>3. a = conn /\ online => k.at # "idle" /\ k.ask = job[a].ask
    BY <1>5
  <2>4. k.at = "reply" => k.status = None /\ k.ask = job[a].ask
    BY <1>5, RestingIsJob
  <2>5. core' \in Nat /\ core <= core' /\ job[a].at # "idle" /\ left'.connections = left.connections
        /\ job' = [job EXCEPT ![a] = k]
    BY <1>1, <1>2, <1>5
  <2>6. /\ FeedTypeOK' /\ JobInv' /\ LinkInv' /\ AskInv' /\ PipeInv'
        /\ \A x \in Asks : Asked(x)' <=> Asked(x)
        /\ \A x, s : Replied(x, s)' =>
               Replied(x, s) \/ (a = conn /\ online /\ k.at = "reply" /\ k.ask = x /\ k.status = s)
        /\ core' = core /\ side' = side /\ Reasons => Reasons'
        /\ core' # core \/ side' # side => Reasons'
    BY <1>7, <1>8, <2>1, <2>2, <2>3, <2>5, JobStep
  <2> QED
    BY <1>1, <2>4, <2>6
<1>10. ReplyInv'
  BY <1>0, <1>1, <1>2, <1>3, <1>7, <1>9, KeepsReplies DEF ReplyInv
<1>11. SentInv'
  <2>1. \A b \in Actors : b # a => /\ CarriesCore(b) => CarriesCore(b)'
                                   /\ side' = side /\ CarriesSide(b) => CarriesSide(b)'
    BY <1>1, <1>6 DEF CarriesCore, CarriesSide
  <2>2. ~CarriesCore(a) /\ ~CarriesSide(a)
    BY <1>1 DEF CarriesCore, CarriesSide
  <2>3. side' # side => CarriesSide(a)'
    BY <1>3, <1>5, <1>6 DEF CarriesSide
  <2>4. AtMost(newest)'
    <3>1. newest[2] \in Nat /\ newest[1] <= core /\ newest[2] <= side
      BY <1>0, StatusParts DEF SentInv, AtMost, FeedTypeOK
    <3> QED
      BY <3>1, <1>1, <1>2, <1>7 DEF AtMost
  <2> QED
    BY <1>0, <1>1, <2>1, <2>2, <2>3, <2>4 DEF SentInv
<1>12. ShownInv'
  <2>1. CASE side' # side
    BY <2>1, <1>9 DEF ShownInv
  <2>2. CASE side' = side
    <3>1. online => conn \in Actors
      BY <1>0, ActorFacts DEF LinkInv, FeedTypeOK
    <3>2. (online /\ job[conn].at = "lock")' =>
             online /\ job[conn].at = "lock" /\ (job[conn])' = job[conn]
      BY <1>1, <1>5, <1>6, <3>1, RestingIsJob
    <3> QED
      BY <2>2, <1>0, <1>1, <1>9, <3>2, NoneIsApart, QuietKeepsShown
  <2> QED
    BY <2>1, <2>2
<1> QED
  BY <1>9, <1>10, <1>11, <1>12 DEF FeedInv

LEMMA AssembleKeeps == ASSUME NEW a \in Actors PROVE FeedInv /\ Assemble(a) => FeedInv'
<1> SUFFICES ASSUME FeedInv, Assemble(a)
             PROVE  FeedInv'
  OBVIOUS
<1>0. FeedTypeOK /\ JobInv /\ SentInv /\ LinkInv /\ AskInv /\ ReplyInv /\ PipeInv /\ ShownInv
  BY DEF FeedInv
<1>1. /\ job[a].at = "lock" /\ side' = side /\ newest' = newest
      /\ conn' = conn /\ online' = online /\ requests' = requests /\ bus' = bus /\ wire' = wire
      /\ calls' = calls /\ results' = results /\ page' = page /\ live' = live /\ store' = store
      /\ guard' = guard /\ stale' = stale
  BY DEF Assemble, linkVars, pageVars
<1>2. core \in Nat /\ side \in Nat /\ job[a] \in Jobs /\ job[a].side \in Nat
  BY <1>0 DEF FeedTypeOK, Jobs
<1>3. JobOK(a) /\ job[a].side <= side /\ job[a].ask # None /\ job[a].ask.kind # "subscribe"
  BY <1>0, <1>1 DEF JobInv, JobOK
<1> DEFINE kind == job[a].ask.kind
           status == <<core', job[a].side>>
<1>4. /\ core' \in {core, core + 1}
      /\ handle' = handle \/ handle' = "lost"
      /\ left' = left \/ Spend("core")
  BY DEF Assemble
<1>5. core' \in Nat /\ core <= core' /\ (core' # core => core' = core + 1)
  BY <1>2, <1>4
<1>6. /\ status \in Statuses /\ status[1] = core' /\ status[2] = job[a].side /\ status # None
      /\ core' = core => status = <<core, job[a].side>>
  BY <1>2, <1>5, StatusParts, NoneIsApart
<1>7. \E k \in Jobs :
          /\ job' = [job EXCEPT ![a] = k]
          /\ \/ /\ k.at = "send" /\ k.ask = job[a].ask /\ k.side = job[a].side
                /\ k.status = status /\ (kind = "set" \/ (kind = "slow" /\ core' = core))
             \/ /\ a = conn /\ online /\ k.at = "reply" /\ k.ask = job[a].ask
                /\ kind # "slow" /\ k.side = job[a].side
                /\ \/ core' = core /\ k.status = status
                   \/ /\ kind = "set" /\ k.status = None
                      /\ core' = core \/ handle' = "lost"
             \/ /\ core' = core \/ handle' = "lost"
                /\ kind # "slow" /\ ~(a = conn /\ online) /\ k = Resting
  <2> HIDE DEF status
  <2>1. ASSUME job' = [job EXCEPT ![a].status = status, ![a].at = "send"],
               kind = "set" \/ (kind = "slow" /\ core' = core)
        PROVE  <1>7!:
    <3> DEFINE assembled == [job[a] EXCEPT !.status = status]
               k == [assembled EXCEPT !.at = "send"]
    <3>1. job' = [job EXCEPT ![a] = k]
      BY <2>1
    <3>2. assembled \in Jobs /\ assembled.status = status /\ assembled.ask = job[a].ask
          /\ assembled.side = job[a].side
      BY <1>2, <1>6 DEF Jobs
    <3> HIDE DEF assembled
    <3>3. k \in Jobs /\ k.at = "send" /\ k.ask = job[a].ask /\ k.side = job[a].side
          /\ k.status = status
      BY <3>2 DEF Jobs
    <3> HIDE DEF k
    <3> QED
      BY <2>1, <3>1, <3>3
  <2>2. ASSUME Answer(a, None), core' = core \/ handle' = "lost", kind = "set"
        PROVE  <1>7!:
    BY <1>0, <2>2, AnswerIs
  <2>3. ASSUME Answer(a, status), core' = core, kind # "slow"
        PROVE  <1>7!:
    BY <1>0, <1>6, <2>3, AnswerIs
  <2> USE DEF status
  <2> QED
    BY <2>1, <2>2, <2>3 DEF Assemble
<1>8. PICK k \in Jobs : <1>7!(k)
  BY <1>7
<1> HIDE DEF status
<1>9. job'[a] = k /\ \A b \in Actors : b # a => job'[b] = job[b]
  BY <1>0, <1>8, JobSet
<1>10. JobOK(a)'
  <2>1. CASE k = Resting
    BY <1>1, <1>9, <2>1, <1>2, RestingIsJob DEF JobOK
  <2>2. CASE k # Resting
    BY <1>1, <1>2, <1>3, <1>5, <1>6, <1>8, <1>9, <2>2 DEF JobOK, AtMost
  <2> QED
    BY <2>1, <2>2
<1>11. /\ FeedTypeOK' /\ JobInv' /\ LinkInv' /\ AskInv' /\ PipeInv'
       /\ \A x \in Asks : Asked(x)' <=> Asked(x)
       /\ \A x, s : Replied(x, s)' =>
              Replied(x, s) \/ (a = conn /\ online /\ k.at = "reply" /\ k.ask = x /\ k.status = s)
       /\ core' = core /\ side' = side /\ Reasons => Reasons'
       /\ core' # core \/ side' # side => Reasons'
  <2>1. UNCHANGED <<newest, linkVars, pageVars, stale>>
    BY <1>1 DEF linkVars, pageVars
  <2>5. handle' \in {"held", "gone", "lost"}
    BY <1>0, <1>4 DEF FeedTypeOK
  <2>2. left' \in [connections : 0..Connections, core : Nat, side : Nat,
                   telemetry : Nat, commands : Nat, loads : Nat]
        /\ left'.connections = left.connections
    BY <1>0, <1>4, Spending DEF FeedTypeOK
  <2>3. a = conn /\ online => k.at # "idle" /\ k.ask = job[a].ask
    BY <1>8
  <2>4. /\ side' \in Nat /\ side <= side' /\ job[a].at # "idle"
        /\ job' = [job EXCEPT ![a] = k]
    BY <1>1, <1>2, <1>8
  <2> QED
    BY <1>5, <1>10, <2>1, <2>2, <2>3, <2>4, <2>5, JobStep
<1>12. a = conn /\ online /\ k.at = "reply" =>
           /\ k.ask = job[a].ask
           /\ (core' = core /\ k.status = status) \/ (kind = "set" /\ k.status = None)
  BY <1>8
<1>13. ReplyInv'
  <2>1. status[1] <= core' /\ status[2] <= side'
    BY <1>1, <1>2, <1>3, <1>5, <1>6
  <2>2. \A x \in Asks : \A s \in Statuses \cup {None} : Replied(x, s)' =>
            \/ Replied(x, s)
            \/ /\ x.kind # "subscribe" /\ (x.kind = "get" => s # None)
               /\ s # None => AtMost(s)'
    BY <1>3, <1>6, <1>11, <1>12, <2>1 DEF AtMost
  <2>3. \A i \in 1..Len(wire') : wire'[i].ask = None => wire'[i].status # None
    BY <1>0, <1>1 DEF ReplyInv
  <2> QED
    BY <1>0, <1>1, <1>2, <1>5, <1>11, <2>2, <2>3, KeepsReplies
<1>14. SentInv'
  <2>1. \A b \in Actors : b # a => /\ core' = core /\ CarriesCore(b) => CarriesCore(b)'
                                   /\ CarriesSide(b) => CarriesSide(b)'
    BY <1>1, <1>9 DEF CarriesCore, CarriesSide
  <2>2. ~CarriesCore(a)
    BY <1>1 DEF CarriesCore
  <2>3. CarriesSide(a) => CarriesSide(a)'
    BY <1>1, <1>6, <1>8, <1>9 DEF CarriesSide
  <2>4. core' # core => CarriesCore(a)' \/ handle' = "lost"
    BY <1>6, <1>8, <1>9 DEF CarriesCore
  <2>5. AtMost(newest)'
    <3>1. newest[1] \in Nat /\ newest[1] <= core /\ newest[2] <= side
      BY <1>0, StatusParts DEF SentInv, AtMost, FeedTypeOK
    <3> QED
      BY <3>1, <1>1, <1>2, <1>5 DEF AtMost
  <2> QED
    BY <1>0, <1>1, <1>4, <2>1, <2>2, <2>3, <2>4, <2>5 DEF SentInv
<1>15. ShownInv'
  <2>1. CASE core' # core
    BY <2>1, <1>11 DEF ShownInv
  <2>2. CASE core' = core
    <3>1. online => conn \in Actors
      BY <1>0, ActorFacts DEF LinkInv, FeedTypeOK
    <3>2. (online /\ job[conn].at = "lock")' =>
             online /\ job[conn].at = "lock" /\ (job[conn])' = job[conn]
      BY <1>1, <1>8, <1>9, <3>1, RestingIsJob
    <3>3. \A x \in Asks : \A s \in Statuses : Replied(x, s)' =>
               \/ Replied(x, s)
               \/ /\ online /\ job[conn].at = "lock" /\ job[conn].ask = x
                  /\ s = <<core, job[conn].side>>
      BY <2>2, <1>1, <1>6, <1>11, <1>12, NoneIsApart
    <3> QED
      BY <2>2, <1>0, <1>1, <1>11, <3>2, <3>3, QuietKeepsShown
  <2> QED
    BY <2>1, <2>2
<1> QED
  BY <1>11, <1>13, <1>14, <1>15 DEF FeedInv

\* r is q with e at its end, and "shift" of its front lost.
IsQueued(S, q, e, r, shift) ==
    /\ shift = 1 <=> Len(q) = BusCapacity
    /\ r \in Seq(S) /\ Len(q) \in Nat /\ Len(q) + 1 - shift >= 1
    /\ Len(r) = Len(q) + 1 - shift
    /\ r[Len(q) + 1 - shift] = e
    /\ \A i \in 1..(Len(q) - shift) : r[i] = q[i + shift]

LEMMA QueuedIs ==
    ASSUME NEW S, NEW q \in Seq(S), NEW e \in S
    PROVE  \E shift \in {0, 1} : IsQueued(S, q, e, Queued(q, e), shift)
<1>0. BusCapacity \in Nat /\ BusCapacity > 0 /\ Len(q) \in Nat
  BY FeedAssumption
<1>1. CASE Len(q) = BusCapacity
  <2>1. q # << >>
    BY <1>0, <1>1
  <2> DEFINE r == Tail(q)
  <2>2. /\ r \in Seq(S) /\ Len(r) = Len(q) - 1
        /\ \A i \in 1..Len(r) : r[i] = q[i + 1] /\ i + 1 \in 1..Len(q)
    BY <2>1, QueueEnds
  <2>3. Queued(q, e) = Append(r, e)
    BY <1>1 DEF Queued
  <2> HIDE DEF r
  <2>4. /\ Append(r, e) \in Seq(S) /\ Len(r) \in Nat /\ Len(Append(r, e)) = Len(r) + 1
        /\ Append(r, e)[Len(r) + 1] = e
        /\ \A i \in 1..Len(r) : Append(r, e)[i] = r[i] /\ i \in 1..(Len(r) + 1)
    BY <2>2, QueueGrows
  <2> WITNESS 1 \in {0, 1}
  <2> QED
    BY <1>0, <1>1, <2>2, <2>3, <2>4 DEF IsQueued
<1>2. CASE Len(q) # BusCapacity
  <2>1. Queued(q, e) = Append(q, e)
    BY <1>2 DEF Queued
  <2>2. /\ Append(q, e) \in Seq(S) /\ Len(Append(q, e)) = Len(q) + 1
        /\ Append(q, e)[Len(q) + 1] = e
        /\ \A i \in 1..Len(q) : Append(q, e)[i] = q[i] /\ i \in 1..(Len(q) + 1)
    BY QueueGrows
  <2> WITNESS 0 \in {0, 1}
  <2> QED
    BY <1>0, <1>2, <2>1, <2>2 DEF IsQueued
<1> QED
  BY <1>1, <1>2

LEMMA QueuedEnds ==
    ASSUME NEW S, NEW q \in Seq(S), NEW e \in S
    PROVE  /\ Queued(q, e) \in Seq(S) /\ Len(Queued(q, e)) \in Nat
           /\ Len(Queued(q, e)) >= 1 /\ Queued(q, e)[Len(Queued(q, e))] = e
<1>1. PICK shift \in {0, 1} : IsQueued(S, q, e, Queued(q, e), shift)
  BY QueuedIs, Zenon
<1> QED
  BY <1>1 DEF IsQueued

LEMMA JoinedIs ==
    ASSUME NEW s \in Statuses, NEW t \in Statuses
    PROVE  /\ Joined(s, t) \in Statuses
           /\ Joined(s, t)[1] = IF s[1] < t[1] THEN t[1] ELSE s[1]
           /\ Joined(s, t)[2] = IF s[2] < t[2] THEN t[2] ELSE s[2]
           /\ ~Older(t, s) => Joined(s, t) = t
BY StatusParts DEF Joined, Older

LEMMA SendStatusKeeps == ASSUME NEW a \in Actors PROVE FeedInv /\ SendStatus(a) => FeedInv'
<1> SUFFICES ASSUME FeedInv, SendStatus(a)
             PROVE  FeedInv'
  OBVIOUS
<1>0. FeedTypeOK /\ JobInv /\ SentInv /\ LinkInv /\ AskInv /\ ReplyInv /\ PipeInv /\ ShownInv
  BY DEF FeedInv
<1> DEFINE status == job[a].status
<1>1. /\ job[a].at = "send" /\ core' = core /\ side' = side /\ handle' = handle /\ newest' = Joined(newest, status)
      /\ conn' = conn /\ online' = online /\ requests' = requests /\ wire' = wire
      /\ calls' = calls /\ results' = results /\ page' = page /\ live' = live /\ store' = store
      /\ guard' = guard /\ left' = left /\ stale' = Older(status, newest)
      /\ bus' = IF bus = None THEN None ELSE Queued(bus, status)
  BY DEF SendStatus, Broadcast, pageVars
<1>2. core \in Nat /\ side \in Nat /\ job[a] \in Jobs /\ job[a].side \in Nat /\ newest \in Statuses
  BY <1>0 DEF FeedTypeOK, Jobs
<1>3. JobOK(a) /\ job[a].side <= side /\ status # None /\ AtMost(status)
  BY <1>0, <1>1 DEF JobInv, JobOK
<1>4. status \in Statuses /\ status # Telemetry /\ newest' \in Statuses
  BY <1>1, <1>2, <1>3, JoinedIs, NoneIsApart DEF Jobs
<1>5. a # Loop => job[a].ask # None /\ job[a].ask.kind \in {"set", "slow"}
  BY <1>1, <1>3 DEF JobOK
<1>6. PICK k \in Jobs :
          /\ job' = [job EXCEPT ![a] = k]
          /\ a = conn /\ online => /\ k.at = "reply" /\ k.ask = job[a].ask
                                   /\ (k.status = status \/ k.status = None) /\ k.side = job[a].side
          /\ ~(a = conn /\ online) => k = Resting
  <2>1. Answer(a, IF job[a].failed THEN None ELSE status)
    BY DEF SendStatus
  <2>2. (IF job[a].failed THEN None ELSE status) \in Statuses \cup {None}
    BY <1>4
  <2> HIDE DEF status
  <2> QED
    BY <1>0, <2>1, <2>2, AnswerIs
<1>7. JobOK(a)'
  <2>1. job'[a] = k
    BY <1>0, <1>6, JobSet
  <2>2. CASE k = Resting
    BY <1>1, <1>2, <2>1, <2>2, RestingIsJob DEF JobOK
  <2>3. CASE k # Resting
    <3>1. a # Loop
      BY <1>0, <1>6, <2>3, ActorFacts DEF FeedTypeOK
    <3> QED
      BY <1>1, <1>2, <1>3, <1>5, <1>6, <2>1, <2>3, <3>1 DEF JobOK, AtMost
  <2> QED
    BY <2>2, <2>3
<1>8. /\ job'[a] = k /\ \A b \in Actors : b # a => job'[b] = job[b]
      /\ JobInv'
      /\ \A x \in Asks : Asked(x)' <=> Asked(x)
      /\ \A x, s : Replied(x, s)' =>
             \/ Replied(x, s)
             \/ a = conn /\ online /\ k.at = "reply" /\ k.ask = x /\ k.status = s
  <2>1. /\ core' \in Nat /\ core <= core' /\ side' \in Nat /\ side <= side' /\ job[a].at # "idle"
        /\ UNCHANGED <<conn, online, requests, wire, calls, results>>
        /\ job' = [job EXCEPT ![a] = k]
    BY <1>1, <1>2, <1>6
  <2>2. a = conn /\ online => k.at # "idle" /\ k.ask = job[a].ask
    BY <1>6
  <2> QED
    BY <1>0, <1>7, <2>1, <2>2, JobMoves
<1> HIDE DEF status
<1>9. bus # None =>
          /\ bus' \in Seq(Statuses \cup {Telemetry}) /\ bus' # None
          /\ Len(bus') \in Nat /\ Len(bus') >= 1 /\ bus'[Len(bus')] = status
  <2>1. CASE bus # None
    <3> DEFINE Events == Statuses \cup {Telemetry}
    <3>1. bus \in Seq(Events) /\ bus' = Queued(bus, status)
      BY <1>0, <1>1, <2>1 DEF FeedTypeOK
    <3>2. status \in Events
      BY <1>4
    <3>3. None \notin Seq(Events)
      BY NoneIsApart
    <3> HIDE DEF Events
    <3>4. /\ Queued(bus, status) \in Seq(Events) /\ Len(Queued(bus, status)) \in Nat
          /\ Len(Queued(bus, status)) >= 1 /\ Queued(bus, status)[Len(Queued(bus, status))] = status
      BY <3>1, <3>2, QueuedEnds
    <3>5. /\ bus' \in Seq(Events) /\ bus' # None
          /\ Len(bus') \in Nat /\ Len(bus') >= 1 /\ bus'[Len(bus')] = status
      BY <3>1, <3>3, <3>4
    <3> USE DEF Events
    <3> QED
      BY <3>5
  <2> QED
    BY <2>1
<1>10. FeedTypeOK'
  <2>1. job' \in [Actors -> Jobs] /\ stale' \in BOOLEAN
    BY <1>0, <1>1, <1>6 DEF FeedTypeOK, Older
  <2> QED
    BY <1>0, <1>1, <1>4, <1>9, <2>1 DEF FeedTypeOK
<1>11. LinkInv'
  <2>1. bus' = None <=> bus = None
    BY <1>1, <1>9
  <2>2. online /\ bus = None => job'[conn].at = "idle"
    BY <1>0, <1>1, <1>8, ActorFacts DEF LinkInv, FeedTypeOK
  <2> QED
    BY <1>0, <1>1, <2>1, <2>2 DEF LinkInv
<1>12. AskInv'
  <2>1. guard.revision \in Nat /\ guard.observed \in Nat
    BY <1>0 DEF FeedTypeOK
  <2>2. guard.revision <= guard'.revision /\ guard.observed <= guard'.observed
    BY <1>1, <2>1
  <2> QED
    BY <2>2, <1>0, <1>1, <1>8, <1>10, KeepsAsks
<1>13. ReplyInv'
  <2>1. \A x \in Asks : \A s \in Statuses \cup {None} : Replied(x, s)' =>
            \/ Replied(x, s)
            \/ /\ x.kind # "subscribe" /\ (x.kind = "get" => s # None)
               /\ s # None => AtMost(s)'
    <3>1. a = conn /\ online => a # Loop
      BY <1>0, ActorFacts DEF FeedTypeOK
    <3>2. status[1] <= core' /\ status[2] <= side'
      BY <1>1, <1>3 DEF AtMost
    <3>3. \A s : s = status => AtMost(s)'
      BY <3>2 DEF AtMost
    <3> QED
      BY <1>5, <1>6, <1>8, <3>1, <3>3
  <2>2. \A i \in 1..Len(wire') : wire'[i].ask = None => wire'[i].status # None
    BY <1>0, <1>1 DEF ReplyInv
  <2>3. core <= core' /\ side <= side'
    BY <1>1, <1>2
  <2> QED
    BY <1>0, <1>10, <2>1, <2>2, <2>3, KeepsReplies
<1>14. SentInv'
  <2>1. \A b \in Actors : b # a => /\ CarriesCore(b) => CarriesCore(b)'
                                   /\ CarriesSide(b) => CarriesSide(b)'
    BY <1>1, <1>8 DEF CarriesCore, CarriesSide
  <2>2. /\ newest'[1] = IF newest[1] < status[1] THEN status[1] ELSE newest[1]
        /\ newest'[2] = IF newest[2] < status[2] THEN status[2] ELSE newest[2]
    BY <1>1, <1>2, <1>4, JoinedIs
  <2>3. /\ newest[1] \in Nat /\ newest[1] <= core /\ newest[2] <= side /\ newest[2] \in Nat
        /\ status[1] \in Nat /\ status[1] <= core /\ status[2] <= side /\ status[2] \in Nat
    BY <1>0, <1>2, <1>3, <1>4, StatusParts DEF SentInv, AtMost
  <2>4. AtMost(newest)'
    BY <1>1, <1>2, <2>2, <2>3 DEF AtMost
  <2>5. core = newest'[1] \/ handle = "lost" \/ \E b \in Actors : CarriesCore(b)'
    <3>1. core = newest[1] \/ handle = "lost" \/ \E b \in Actors : CarriesCore(b)
      BY <1>0 DEF SentInv
    <3>2. CarriesCore(a) => status[1] = core
      BY DEF CarriesCore, status
    <3>3. status[1] = core => core = newest'[1]
      BY <1>2, <2>2, <2>3
    <3>4. core = newest[1] => core = newest'[1]
      BY <1>2, <2>2, <2>3
    <3> QED
      BY <2>1, <3>1, <3>2, <3>3, <3>4
  <2>6. side = newest'[2] \/ \E b \in Actors : CarriesSide(b)'
    <3>1. side = newest[2] \/ \E b \in Actors : CarriesSide(b)
      BY <1>0 DEF SentInv
    <3>2. CarriesSide(a) => status[2] = side
      BY <1>1 DEF CarriesSide, status
    <3>3. status[2] = side => side = newest'[2]
      BY <1>2, <2>2, <2>3
    <3>4. side = newest[2] => side = newest'[2]
      BY <1>2, <2>2, <2>3
    <3> QED
      BY <2>1, <3>1, <3>2, <3>3, <3>4
  <2> QED
    BY <1>1, <2>4, <2>5, <2>6 DEF SentInv
<1>15. PipeInv'
  <2> SUFFICES ASSUME ~stale', bus' # None
               PROVE  /\ \A i \in 1..Len(bus') : LastInBus(i)' => bus'[i] = newest'
                      /\ InBus'
    BY DEF PipeInv
  <2>1. bus # None /\ newest' = status
    BY <1>1, <1>2, <1>4, JoinedIs
  <2>2. Len(bus') \in 1..Len(bus') /\ bus'[Len(bus')] # Telemetry
    BY <1>4, <1>9, <2>1
  <2>3. \A i \in 1..Len(bus') : LastInBus(i)' => i = Len(bus')
    BY <1>9, <2>1, <2>2 DEF LastInBus
  <2>4. InBus'
    BY <2>2 DEF InBus
  <2> QED
    BY <1>9, <2>1, <2>3, <2>4
<1>16. ShownInv'
  <2>1. bus' = None \/ InBus'
    <3>1. CASE bus # None
      <4>1. Len(bus') \in 1..Len(bus') /\ bus'[Len(bus')] # Telemetry
        BY <1>4, <1>9, <3>1
      <4> QED
        BY <4>1 DEF InBus
    <3> QED
      BY <1>1, <3>1
  <2> QED
    BY <2>1 DEF ShownInv, Reasons
<1> QED
  BY <1>8, <1>10, <1>11, <1>12, <1>13, <1>14, <1>15, <1>16 DEF FeedInv


LEMMA TelemetryQueued ==
    ASSUME NEW q \in Seq(Statuses \cup {Telemetry}), ~LastLost(q)
    PROVE  /\ Queued(q, Telemetry) \in Seq(Statuses \cup {Telemetry})
           /\ (\E i \in 1..Len(q) : q[i] # Telemetry) =>
                  \E i \in 1..Len(Queued(q, Telemetry)) : Queued(q, Telemetry)[i] # Telemetry
           /\ \A i \in 1..Len(Queued(q, Telemetry)) :
                  /\ Queued(q, Telemetry)[i] # Telemetry
                  /\ \A j \in 1..Len(Queued(q, Telemetry)) : j > i => Queued(q, Telemetry)[j] = Telemetry
                  => \E l \in 1..Len(q) :
                        /\ q[l] = Queued(q, Telemetry)[i]
                        /\ \A j \in 1..Len(q) : j > l => q[j] = Telemetry
<1> DEFINE Events == Statuses \cup {Telemetry}
           r == Queued(q, Telemetry)
<1>1. q \in Seq(Events) /\ Telemetry \in Events
  OBVIOUS
<1>2. Len(q) = BusCapacity /\ Head(q) # Telemetry => \E i \in 2..Len(q) : q[i] # Telemetry
  BY DEF LastLost
<1>3. q # << >> => Head(q) = q[1]
  OBVIOUS
<1> HIDE DEF Events
<1> HIDE DEF r
<1>4. PICK shift \in {0, 1} :
          /\ shift = 1 <=> Len(q) = BusCapacity
          /\ r \in Seq(Events) /\ Len(q) \in Nat /\ Len(q) + 1 - shift >= 1
          /\ Len(r) = Len(q) + 1 - shift
          /\ r[Len(q) + 1 - shift] = Telemetry
          /\ \A i \in 1..(Len(q) - shift) : r[i] = q[i + shift]
  <2>1. PICK shift \in {0, 1} : IsQueued(Events, q, Telemetry, r, shift)
    BY <1>1, QueuedIs, Zenon DEF r
  <2> QED
    BY <2>1 DEF IsQueued
<1>5. \A j \in 1..Len(q) : j > shift => j - shift \in 1..Len(r) /\ r[j - shift] = q[j]
  <2> TAKE j \in 1..Len(q)
  <2> HAVE j > shift
  <2>1. j - shift \in 1..(Len(q) - shift) /\ (j - shift) + shift = j
    BY <1>4
  <2> QED
    BY <1>4, <2>1
<1>6. ASSUME NEW i \in 1..Len(q), q[i] # Telemetry
      PROVE  \E l \in 1..Len(r) : r[l] # Telemetry
  <2>1. CASE i > shift
    BY <1>5, <1>6, <2>1
  <2>2. CASE ~(i > shift)
    <3>1. i = 1 /\ shift = 1 /\ Len(q) = BusCapacity /\ q # << >>
      BY <1>4, <2>2
    <3>2. PICK j \in 2..Len(q) : q[j] # Telemetry
      BY <1>2, <1>3, <1>6, <3>1
    <3>3. j \in 1..Len(q) /\ j > shift
      BY <3>1, <1>4
    <3> QED
      BY <1>5, <3>2, <3>3
  <2> QED
    BY <2>1, <2>2
<1>7. ASSUME NEW i \in 1..Len(r), r[i] # Telemetry,
             \A j \in 1..Len(r) : j > i => r[j] = Telemetry
      PROVE  \E l \in 1..Len(q) :
                 /\ q[l] = r[i]
                 /\ \A j \in 1..Len(q) : j > l => q[j] = Telemetry
  <2>1. i \in 1..(Len(q) - shift) /\ i + shift \in 1..Len(q)
    BY <1>4, <1>7
  <2>2. q[i + shift] = r[i]
    BY <1>4, <2>1
  <2>3. ASSUME NEW j \in 1..Len(q), j > i + shift
        PROVE  q[j] = Telemetry
    <3>1. j > shift /\ j - shift > i
      BY <2>1, <2>3, <1>4
    <3> QED
      BY <1>5, <1>7, <3>1
  <2> QED
    BY <2>1, <2>2, <2>3
<1> USE DEF r, Events
<1> QED
  BY <1>4, <1>6, <1>7

LEMMA SendTelemetryKeeps == FeedInv /\ SendTelemetry => FeedInv'
<1> SUFFICES ASSUME FeedInv, SendTelemetry
             PROVE  FeedInv'
  OBVIOUS
<1>0. FeedTypeOK /\ JobInv /\ SentInv /\ LinkInv /\ AskInv /\ ReplyInv /\ PipeInv /\ ShownInv
  BY DEF FeedInv
<1>1. /\ job[Loop].at = "telemetry" /\ core' = core /\ side' = side /\ handle' = handle /\ newest' = newest
      /\ conn' = conn /\ online' = online /\ requests' = requests /\ wire' = wire
      /\ calls' = calls /\ results' = results /\ page' = page /\ live' = live /\ store' = store
      /\ guard' = guard /\ left' = left
      /\ stale' = (stale \/ (bus # None /\ LastLost(bus)))
      /\ bus' = IF bus = None THEN None ELSE Queued(bus, Telemetry)
  BY DEF SendTelemetry, Broadcast, pageVars
<1>2. core \in Nat /\ side \in Nat /\ job[Loop] \in Jobs
  BY <1>0, ActorFacts DEF FeedTypeOK
<1>3. JobOK(Loop)
  BY <1>0, ActorFacts DEF JobInv
<1> DEFINE k == IF job[Loop].status = None THEN Resting ELSE [job[Loop] EXCEPT !.at = "send"]
<1>4. job' = [job EXCEPT ![Loop] = k]
  BY DEF SendTelemetry
<1>5. k \in Jobs /\ (k = Resting \/ (k.at = "send" /\ k.side = job[Loop].side /\ k.status # None))
      /\ k.status = job[Loop].status
  BY <1>2, RestingIsJob DEF Jobs
<1> HIDE DEF k
<1>6. job'[Loop] = k
  BY <1>0, <1>4, JobSet, ActorFacts
<1>7. JobOK(Loop)'
  <2>1. CASE k = Resting
    BY <1>2, <1>1, <1>6, <2>1, RestingIsJob DEF JobOK
  <2>2. CASE k # Resting
    BY <1>1, <1>2, <1>3, <1>5, <1>6, <2>2 DEF JobOK, AtMost
  <2> QED
    BY <2>1, <2>2
<1>8. /\ \A b \in Actors : b # Loop => job'[b] = job[b]
      /\ JobInv'
      /\ \A x \in Asks : Asked(x)' <=> Asked(x)
      /\ \A x, s : Replied(x, s)' => Replied(x, s)
  <2>1. /\ core' \in Nat /\ core <= core' /\ side' \in Nat /\ side <= side'
        /\ UNCHANGED <<conn, online, requests, wire, calls, results>>
    BY <1>1, <1>2
  <2>2. Loop # conn /\ Loop \notin Handlers /\ Loop \in Actors
    BY <1>0, ActorFacts DEF FeedTypeOK
  <2> QED
    BY <1>0, <1>4, <1>5, <1>7, <2>1, <2>2, JobMoves
<1>9. ~stale' /\ bus # None =>
         /\ ~stale /\ bus' \in Seq(Statuses \cup {Telemetry}) /\ bus' # None
         /\ InBus => InBus'
         /\ \A i \in 1..Len(bus') : LastInBus(i)' => \E l \in 1..Len(bus) : LastInBus(l) /\ bus[l] = bus'[i]
  <2>1. CASE bus # None /\ ~stale'
    <3>1. bus \in Seq(Statuses \cup {Telemetry}) /\ ~LastLost(bus) /\ bus' = Queued(bus, Telemetry) /\ ~stale
      BY <1>0, <1>1, <2>1 DEF FeedTypeOK
    <3>2. /\ bus' \in Seq(Statuses \cup {Telemetry})
          /\ (\E i \in 1..Len(bus) : bus[i] # Telemetry) => \E i \in 1..Len(bus') : bus'[i] # Telemetry
          /\ \A i \in 1..Len(bus') :
                  /\ bus'[i] # Telemetry
                  /\ \A j \in 1..Len(bus') : j > i => bus'[j] = Telemetry
                  => \E l \in 1..Len(bus) :
                        /\ bus[l] = bus'[i]
                        /\ \A j \in 1..Len(bus) : j > l => bus[j] = Telemetry
      BY <3>1, TelemetryQueued
    <3>3. InBus => InBus'
      BY <3>2 DEF InBus
    <3>4. ASSUME NEW i \in 1..Len(bus'), LastInBus(i)'
          PROVE  \E l \in 1..Len(bus) : LastInBus(l) /\ bus[l] = bus'[i]
      <4>1. bus'[i] # Telemetry /\ \A j \in 1..Len(bus') : j > i => bus'[j] = Telemetry
        BY <3>4 DEF LastInBus
      <4>2. PICK l \in 1..Len(bus) : /\ bus[l] = bus'[i]
                                     /\ \A j \in 1..Len(bus) : j > l => bus[j] = Telemetry
        BY <3>2, <4>1
      <4> QED
        BY <4>1, <4>2 DEF LastInBus
    <3> QED
      BY <3>1, <3>2, <3>3, <3>4, NoneIsApart
  <2> QED
    BY <2>1
<1>10. bus # None => bus' \in Seq(Statuses \cup {Telemetry}) /\ bus' # None
  <2>1. CASE bus # None
    <3> DEFINE Events == Statuses \cup {Telemetry}
    <3>1. bus \in Seq(Events) /\ bus' = Queued(bus, Telemetry) /\ Telemetry \in Events
          /\ None \notin Seq(Events)
      BY <1>0, <1>1, <2>1, NoneIsApart DEF FeedTypeOK
    <3> HIDE DEF Events
    <3>2. Queued(bus, Telemetry) \in Seq(Events)
      BY <3>1, QueuedEnds
    <3>3. bus' \in Seq(Events) /\ bus' # None
      BY <3>1, <3>2
    <3> USE DEF Events
    <3> QED
      BY <3>3
  <2> QED
    BY <2>1
<1>11. FeedTypeOK'
  <2>1. job' \in [Actors -> Jobs] /\ stale' \in BOOLEAN
    BY <1>0, <1>1, <1>4, <1>5 DEF FeedTypeOK
  <2> QED
    BY <1>0, <1>1, <1>10, <2>1 DEF FeedTypeOK
<1>12. LinkInv'
  <2>1. bus' = None <=> bus = None
    BY <1>1, <1>10
  <2>2. online /\ bus = None => job'[conn].at = "idle"
    BY <1>0, <1>1, <1>8, ActorFacts DEF LinkInv, FeedTypeOK
  <2> QED
    BY <1>0, <1>1, <2>1, <2>2 DEF LinkInv
<1>13. AskInv'
  <2>1. guard.revision \in Nat /\ guard.observed \in Nat
    BY <1>0 DEF FeedTypeOK
  <2>2. guard.revision <= guard'.revision /\ guard.observed <= guard'.observed
    BY <1>1, <2>1
  <2> QED
    BY <2>2, <1>0, <1>1, <1>8, <1>11, KeepsAsks
<1>14. ReplyInv'
  <2>1. \A i \in 1..Len(wire') : wire'[i].ask = None => wire'[i].status # None
    BY <1>0, <1>1 DEF ReplyInv
  <2>2. core <= core' /\ side <= side'
    BY <1>1, <1>2
  <2> QED
    BY <1>0, <1>8, <1>11, <2>1, <2>2, KeepsReplies
<1>15. SentInv'
  <2>1. \A b \in Actors : b # Loop => (CarriesCore(b) => CarriesCore(b)') /\ (CarriesSide(b) => CarriesSide(b)')
    BY <1>1, <1>8 DEF CarriesCore, CarriesSide
  <2>2. (CarriesCore(Loop) => CarriesCore(Loop)') /\ (CarriesSide(Loop) => CarriesSide(Loop)')
    BY <1>1, <1>5, <1>6, RestingIsJob DEF CarriesCore, CarriesSide
  <2> QED
    BY <1>0, <1>1, <2>1, <2>2, KeepsSent
<1>16. PipeInv'
  <2> SUFFICES ASSUME ~stale', bus' # None
               PROVE  /\ \A i \in 1..Len(bus') : LastInBus(i)' => bus'[i] = newest
                      /\ ~InBus' => \A i \in 1..Len(wire) : LastInWire(i)' => wire[i].status = newest
    BY <1>1 DEF PipeInv
  <2>1. bus # None /\ ~stale
    BY <1>1, <1>9
  <2>2. \A i \in 1..Len(wire) : LastInWire(i)' <=> LastInWire(i)
    BY <1>1 DEF LastInWire
  <2> QED
    BY <1>0, <1>9, <2>1, <2>2 DEF PipeInv
<1>17. ShownInv'
  <2>1. Reasons => stale' \/ Reasons'
    <3>1. InWire' <=> InWire
      BY <1>1 DEF InWire
    <3>2. Asked(ClientGet)' <=> Asked(ClientGet)
      BY <1>8 DEF ClientGet, Ask, Asks
    <3> QED
      BY <1>1, <1>9, <3>1, <3>2 DEF Reasons
  <2>2. (online /\ job[conn].at = "lock")' =>
           online /\ job[conn].at = "lock" /\ (job[conn])' = job[conn]
    BY <1>0, <1>1, <1>8, ActorFacts DEF LinkInv, FeedTypeOK
  <2> QED
    BY <1>0, <1>1, <1>8, <2>1, <2>2, QuietKeepsShown
<1> QED
  BY <1>8, <1>11, <1>12, <1>13, <1>14, <1>15, <1>16, <1>17 DEF FeedInv

LEMMA ReplyKeeps == ASSUME NEW a \in Actors PROVE FeedInv /\ Reply(a) => FeedInv'
<1> SUFFICES ASSUME FeedInv, Reply(a)
             PROVE  FeedInv'
  OBVIOUS
<1>0. FeedTypeOK /\ JobInv /\ SentInv /\ LinkInv /\ AskInv /\ ReplyInv /\ PipeInv /\ ShownInv
  BY DEF FeedInv
<1> DEFINE line == [ask |-> job[a].ask, status |-> job[a].status]
<1>1. /\ job[a].at = "reply" /\ core' = core /\ side' = side /\ handle' = handle /\ newest' = newest
      /\ conn' = conn /\ online' = online /\ requests' = requests /\ bus' = bus
      /\ calls' = calls /\ results' = results /\ page' = page /\ live' = live /\ store' = store
      /\ guard' = guard /\ stale' = stale /\ left' = left
      /\ job' = [job EXCEPT ![a] = Resting]
      /\ wire' = IF a = conn /\ online THEN Append(wire, line) ELSE wire
  BY DEF Reply, pageVars
<1>2. core \in Nat /\ side \in Nat /\ job[a] \in Jobs /\ wire \in Seq(FeedLines)
  BY <1>0 DEF FeedTypeOK
<1>3. job[a].ask # None
  BY <1>0, <1>1 DEF JobInv, JobOK
<1>4. line \in FeedLines /\ line.ask = job[a].ask /\ line.status = job[a].status
  BY <1>2 DEF FeedLines, Jobs
<1> HIDE DEF line
<1>5. job'[a] = Resting
  BY <1>0, <1>1, JobSet
<1>6. JobOK(a)'
  BY <1>1, <1>2, <1>5, RestingIsJob DEF JobOK
<1>7. (\A b \in Actors : b # a => job'[b] = job[b]) /\ JobInv'
  <2>1. core' \in Nat /\ core <= core' /\ side' \in Nat /\ side <= side'
    BY <1>1, <1>2
  <2> QED
    BY <1>0, <1>1, <1>6, <2>1, RestingIsJob, JobKeeps
<1>8. online => conn \in Handlers /\ conn \in Actors
  BY <1>0, ActorFacts DEF LinkInv, FeedTypeOK
<1>9. a = conn /\ online =>
          /\ bus # None /\ wire' \in Seq(FeedLines) /\ Len(wire) \in Nat /\ Len(wire') = Len(wire) + 1
          /\ wire'[Len(wire) + 1] = line
          /\ \A i \in 1..Len(wire) : wire'[i] = wire[i] /\ i \in 1..Len(wire')
  <2>1. CASE a = conn /\ online
    <3>1. bus # None
      BY <1>0, <1>1, <2>1 DEF LinkInv
    <3>2. wire' = Append(wire, line)
      BY <1>1, <2>1
    <3>3. /\ Append(wire, line) \in Seq(FeedLines) /\ Len(wire) \in Nat /\ Len(Append(wire, line)) = Len(wire) + 1
          /\ Append(wire, line)[Len(wire) + 1] = line
          /\ \A i \in 1..Len(wire) : Append(wire, line)[i] = wire[i] /\ i \in 1..(Len(wire) + 1)
      BY <1>2, <1>4, QueueGrows
    <3> QED
      BY <3>1, <3>2, <3>3
  <2> QED
    BY <2>1
<1>10. ASSUME NEW i \in 1..Len(wire')
       PROVE  (i \in 1..Len(wire) /\ wire'[i] = wire[i]) \/ (a = conn /\ online /\ wire'[i] = line)
  <2>1. CASE a = conn /\ online
    <3>1. i \in 1..Len(wire) \/ i = Len(wire) + 1
      BY <1>9, <2>1
    <3> QED
      BY <1>9, <2>1, <3>1
  <2> QED
    BY <1>1, <2>1
<1>11. \A i \in 1..Len(wire) : wire'[i] = wire[i] /\ i \in 1..Len(wire')
  BY <1>1, <1>9
<1>12. FeedTypeOK'
  <2>1. job' \in [Actors -> Jobs] /\ wire' \in Seq(FeedLines)
    BY <1>0, <1>1, <1>2, <1>9, RestingIsJob DEF FeedTypeOK
  <2> QED
    BY <1>0, <1>1, <2>1 DEF FeedTypeOK
<1>13. \A x \in Asks : Asked(x)' <=> Asked(x)
  <2> TAKE x \in Asks
  <2>1. (Busy /\ job[conn].ask = x) /\ (a # conn) => (Busy /\ job[conn].ask = x)'
    BY <1>1, <1>7, <1>8 DEF Busy
  <2>2. (Busy /\ job[conn].ask = x) /\ a = conn => \E i \in 1..Len(wire') : wire'[i].ask = x
    <3> SUFFICES ASSUME Busy, job[conn].ask = x, a = conn
                 PROVE  \E i \in 1..Len(wire') : wire'[i].ask = x
      OBVIOUS
    <3>1. Len(wire) + 1 \in 1..Len(wire') /\ wire'[Len(wire) + 1] = line
      BY <1>9 DEF Busy
    <3> QED
      BY <1>4, <3>1
  <2>3. (Busy /\ job[conn].ask = x)' => Busy /\ job[conn].ask = x
    BY <1>1, <1>5, <1>7, <1>8, RestingIsJob DEF Busy
  <2>4. (\E i \in 1..Len(wire) : wire[i].ask = x) => \E i \in 1..Len(wire') : wire'[i].ask = x
    BY <1>11
  <2>5. (\E i \in 1..Len(wire') : wire'[i].ask = x) =>
            (\E i \in 1..Len(wire) : wire[i].ask = x) \/ (Busy /\ job[conn].ask = x)
    BY <1>1, <1>4, <1>10 DEF Busy
  <2> QED
    BY <1>1, <2>1, <2>2, <2>3, <2>4, <2>5 DEF Asked
<1>14. \A x, s : Replied(x, s)' => Replied(x, s)
  <2> TAKE x, s
  <2>1. (\E i \in 1..Len(wire') : wire'[i].ask = x /\ wire'[i].status = s) => Replied(x, s)
    BY <1>1, <1>4, <1>10 DEF Replied
  <2>2. (online /\ job[conn].at = "reply" /\ job[conn].ask = x /\ job[conn].status = s)' => Replied(x, s)
    BY <1>1, <1>5, <1>7, <1>8, RestingIsJob DEF Replied
  <2> QED
    BY <1>1, <2>1, <2>2 DEF Replied
<1>15. LinkInv'
  <2>1. ~online => wire' = << >>
    BY <1>0, <1>1 DEF LinkInv
  <2>2. online /\ bus = None => wire' = << >> /\ job'[conn].at = "idle"
    BY <1>0, <1>1, <1>7, <1>8, <1>9 DEF LinkInv
  <2> QED
    BY <1>0, <1>1, <2>1, <2>2 DEF LinkInv
<1>16. AskInv'
  <2>1. guard.revision \in Nat /\ guard.observed \in Nat
    BY <1>0 DEF FeedTypeOK
  <2>2. guard.revision <= guard'.revision /\ guard.observed <= guard'.observed
    BY <1>1, <2>1
  <2> QED
    BY <2>2, <1>0, <1>1, <1>12, <1>13, KeepsAsks
<1>17. ReplyInv'
  <2>1. \A i \in 1..Len(wire') : wire'[i].ask = None => wire'[i].status # None
    BY <1>0, <1>3, <1>4, <1>10 DEF ReplyInv
  <2>2. core <= core' /\ side <= side'
    BY <1>1, <1>2
  <2> QED
    BY <1>0, <1>14, <1>12, <2>1, <2>2, KeepsReplies
<1>18. SentInv'
  <2>1. \A b \in Actors : b # a => (CarriesCore(b) => CarriesCore(b)') /\ (CarriesSide(b) => CarriesSide(b)')
    BY <1>1, <1>7 DEF CarriesCore, CarriesSide
  <2>2. ~CarriesCore(a) /\ ~CarriesSide(a)
    BY <1>1 DEF CarriesCore, CarriesSide
  <2> QED
    BY <1>0, <1>1, <2>1, <2>2, KeepsSent
<1>19. PipeInv'
  <2>1. ASSUME NEW i \in 1..Len(wire'), LastInWire(i)'
        PROVE  i \in 1..Len(wire) /\ LastInWire(i) /\ wire'[i] = wire[i]
    <3>1. wire'[i].ask = None /\ \A j \in 1..Len(wire') : j > i => wire'[j].ask # None
      BY <2>1 DEF LastInWire
    <3>2. i \in 1..Len(wire) /\ wire'[i] = wire[i]
      BY <1>3, <1>4, <1>10, <3>1
    <3> QED
      BY <1>11, <3>1, <3>2 DEF LastInWire
  <2>2. (InBus' <=> InBus) /\ \A i \in 1..Len(bus) : LastInBus(i)' <=> LastInBus(i)
    BY <1>1 DEF InBus, LastInBus
  <2> QED
    BY <1>0, <1>1, <2>1, <2>2 DEF PipeInv
<1>20. ShownInv'
  <2>1. Reasons => Reasons'
    <3>1. (InWire => InWire') /\ (InBus => InBus')
      BY <1>1, <1>11 DEF InWire, InBus
    <3>2. Asked(ClientGet)' <=> Asked(ClientGet)
      BY <1>13 DEF ClientGet, Ask, Asks
    <3> QED
      BY <1>1, <3>1, <3>2 DEF Reasons
  <2>2. (online /\ job[conn].at = "lock")' =>
           online /\ job[conn].at = "lock" /\ (job[conn])' = job[conn]
    BY <1>1, <1>5, <1>7, <1>8, RestingIsJob
  <2> QED
    BY <1>0, <1>1, <1>13, <1>14, <2>1, <2>2, QuietKeepsShown
<1> QED
  BY <1>7, <1>12, <1>15, <1>16, <1>17, <1>18, <1>19, <1>20 DEF FeedInv

LEMMA RestingJobsKeep ==
    ASSUME FeedTypeOK, JobInv, SentInv, UNCHANGED <<core, side, handle, job, newest>>,
           conn' \in Nat, conn <= conn'
    PROVE  JobInv' /\ SentInv'
<1>1. \A a \in Actors : JobOK(a)' <=> JobOK(a)
  BY DEF JobOK, AtMost
<1>2. \A a \in Handlers : a > conn' => a > conn
  BY DEF Handlers, FeedTypeOK
<1>3. JobInv'
  BY <1>1, <1>2 DEF JobInv
<1>4. SentInv'
  BY KeepsSent DEF CarriesCore, CarriesSide
<1> QED
  BY <1>3, <1>4

LEMMA ForwardKeeps == FeedInv /\ Forward => FeedInv'
<1> SUFFICES ASSUME FeedInv, Forward
             PROVE  FeedInv'
  OBVIOUS
<1>0. FeedTypeOK /\ JobInv /\ SentInv /\ LinkInv /\ AskInv /\ ReplyInv /\ PipeInv /\ ShownInv
  BY DEF FeedInv
<1> DEFINE line == [ask |-> None, status |-> Head(bus)]
<1>1. /\ core' = core /\ side' = side /\ handle' = handle /\ newest' = newest /\ job' = job
      /\ online /\ bus # None /\ bus # << >> /\ bus' = Tail(bus)
      /\ conn' = conn /\ online' = online /\ requests' = requests
      /\ calls' = calls /\ results' = results /\ page' = page /\ live' = live /\ store' = store
      /\ guard' = guard /\ stale' = stale /\ left' = left
      /\ wire' = IF Head(bus) = Telemetry THEN wire ELSE Append(wire, line)
  BY DEF Forward, pageVars, daemonVars
<1>2. bus \in Seq(Statuses \cup {Telemetry}) /\ wire \in Seq(FeedLines) /\ Len(wire) \in Nat
      /\ conn \in Nat
  BY <1>0, <1>1 DEF FeedTypeOK
<1>3. /\ Head(bus) = bus[1] /\ bus[1] \in Statuses \cup {Telemetry} /\ Len(bus) \in Nat /\ Len(bus) > 0
      /\ bus' \in Seq(Statuses \cup {Telemetry}) /\ Len(bus') = Len(bus) - 1
      /\ \A i \in 1..Len(bus') : bus'[i] = bus[i + 1] /\ i + 1 \in 1..Len(bus)
  BY <1>1, <1>2
<1>4. bus[1] # Telemetry => line \in FeedLines /\ line.ask = None /\ line.status = bus[1] /\ line.status # None
  BY <1>3, NoneIsApart DEF FeedLines
<1> HIDE DEF line
<1>5. bus[1] # Telemetry =>
          /\ wire' \in Seq(FeedLines) /\ Len(wire') = Len(wire) + 1
          /\ wire'[Len(wire) + 1] = line /\ Len(wire) + 1 \in 1..Len(wire')
          /\ \A i \in 1..Len(wire) : wire'[i] = wire[i] /\ i \in 1..Len(wire')
  <2>1. CASE bus[1] # Telemetry
    <3>1. wire' = Append(wire, line)
      BY <1>1, <1>3, <2>1
    <3>2. /\ Append(wire, line) \in Seq(FeedLines) /\ Len(Append(wire, line)) = Len(wire) + 1
          /\ Append(wire, line)[Len(wire) + 1] = line
          /\ \A i \in 1..Len(wire) : Append(wire, line)[i] = wire[i] /\ i \in 1..(Len(wire) + 1)
      BY <1>2, <1>4, <2>1, QueueGrows
    <3> QED
      BY <1>2, <3>1, <3>2
  <2> QED
    BY <2>1
<1>6. bus[1] = Telemetry => wire' = wire
  BY <1>1, <1>3
<1>7. ASSUME NEW i \in 1..Len(wire')
      PROVE  (i \in 1..Len(wire) /\ wire'[i] = wire[i])
             \/ (bus[1] # Telemetry /\ i = Len(wire) + 1 /\ wire'[i] = line)
  <2>1. CASE bus[1] # Telemetry
    <3>1. i \in 1..Len(wire) \/ i = Len(wire) + 1
      BY <1>2, <1>5, <2>1
    <3> QED
      BY <1>5, <2>1, <3>1
  <2> QED
    BY <1>6, <2>1
<1>8. \A i \in 1..Len(wire) : wire'[i] = wire[i] /\ i \in 1..Len(wire')
  BY <1>5, <1>6
<1>9. FeedTypeOK'
  <2>1. wire' \in Seq(FeedLines)
    BY <1>2, <1>5, <1>6
  <2> QED
    BY <1>0, <1>1, <1>3, <2>1 DEF FeedTypeOK
<1>10. JobInv' /\ SentInv'
  BY <1>0, <1>1, <1>2, RestingJobsKeep
<1>11. \A x \in Asks : Asked(x)' <=> Asked(x)
  <2> TAKE x \in Asks
  <2>1. (\E i \in 1..Len(wire') : wire'[i].ask = x) <=> \E i \in 1..Len(wire) : wire[i].ask = x
    BY <1>4, <1>7, <1>8, NoneIsApart
  <2> QED
    BY <1>1, <2>1 DEF Asked, Busy
<1>12. \A x \in Asks : \A s : Replied(x, s)' => Replied(x, s)
  <2> TAKE x \in Asks
  <2> TAKE s
  <2>1. (\E i \in 1..Len(wire') : wire'[i].ask = x /\ wire'[i].status = s) =>
            \E i \in 1..Len(wire) : wire[i].ask = x /\ wire[i].status = s
    BY <1>4, <1>7, NoneIsApart
  <2> QED
    BY <1>1, <2>1 DEF Replied
<1>13. LinkInv'
  <2>1. bus' # None
    BY <1>3, NoneIsApart
  <2>2. \A i \in 1..Len(requests) : requests[i].kind # "subscribe"
    BY <1>0, <1>1 DEF LinkInv
  <2> QED
    BY <1>0, <1>1, <2>1, <2>2 DEF LinkInv
<1>14. AskInv'
  <2>1. guard.revision \in Nat /\ guard.observed \in Nat
    BY <1>0 DEF FeedTypeOK
  <2>2. guard.revision <= guard'.revision /\ guard.observed <= guard'.observed
    BY <1>1, <2>1
  <2> QED
    BY <2>2, <1>0, <1>1, <1>9, <1>11, KeepsAsks
<1>15. ReplyInv'
  <2>1. \A i \in 1..Len(wire') : wire'[i].ask = None => wire'[i].status # None
    BY <1>0, <1>4, <1>7 DEF ReplyInv
  <2>2. core <= core' /\ side <= side'
    BY <1>0, <1>1 DEF FeedTypeOK
  <2> QED
    BY <1>0, <1>12, <1>9, <2>1, <2>2, KeepsReplies
<1>16. PipeInv'
  <2> SUFFICES ASSUME ~stale, bus' # None
               PROVE  /\ \A i \in 1..Len(bus') : LastInBus(i)' => bus'[i] = newest
                      /\ ~InBus' => \A i \in 1..Len(wire') : LastInWire(i)' => wire'[i].status = newest
    BY <1>1 DEF PipeInv
  <2>1. \A i \in 1..Len(bus) : LastInBus(i) => bus[i] = newest
    BY <1>0, <1>1 DEF PipeInv
  <2>2. ASSUME NEW i \in 1..Len(bus'), LastInBus(i)'
        PROVE  bus'[i] = newest
    <3>1. bus'[i] # Telemetry /\ \A j \in 1..Len(bus') : j > i => bus'[j] = Telemetry
      BY <2>2 DEF LastInBus
    <3>2. bus'[i] = bus[i + 1] /\ i + 1 \in 1..Len(bus)
      BY <1>3
    <3>3. ASSUME NEW j \in 1..Len(bus), j > i + 1
          PROVE  bus[j] = Telemetry
      <4>1. j - 1 \in 1..Len(bus') /\ j - 1 > i /\ (j - 1) + 1 = j
        BY <1>3, <3>3
      <4>2. bus'[j - 1] = bus[(j - 1) + 1]
        BY <1>3, <4>1
      <4> QED
        BY <3>1, <4>1, <4>2
    <3>4. LastInBus(i + 1)
      BY <3>1, <3>2, <3>3 DEF LastInBus
    <3> QED
      BY <2>1, <3>2, <3>4
  <2>3. ASSUME ~InBus', NEW i \in 1..Len(wire'), LastInWire(i)'
        PROVE  wire'[i].status = newest
    <3>1. \A j \in 1..Len(bus) : j > 1 => bus[j] = Telemetry
      <4> TAKE j \in 1..Len(bus)
      <4> HAVE j > 1
      <4>1. j - 1 \in 1..Len(bus') /\ (j - 1) + 1 = j
        BY <1>3
      <4> QED
        BY <1>3, <2>3, <4>1 DEF InBus
    <3>2. wire'[i].ask = None /\ \A j \in 1..Len(wire') : j > i => wire'[j].ask # None
      BY <2>3 DEF LastInWire
    <3>3. CASE bus[1] # Telemetry
      <4>1. LastInBus(1) /\ 1 \in 1..Len(bus)
        BY <1>3, <3>1, <3>3 DEF LastInBus
      <4>2. bus[1] = newest
        BY <2>1, <4>1
      <4>3. i = Len(wire) + 1
        <5>1. i \in Nat /\ (i = Len(wire) + 1 \/ i <= Len(wire))
          BY <1>2, <1>7
        <5>2. Len(wire) + 1 \in 1..Len(wire') /\ wire'[Len(wire) + 1].ask = None
          BY <1>4, <1>5, <3>3
        <5> QED
          BY <1>2, <3>2, <5>1, <5>2
      <4> QED
        BY <1>4, <1>5, <3>3, <4>2, <4>3
    <3>4. CASE bus[1] = Telemetry
      <4>1. wire' = wire
        BY <1>6, <3>4
      <4>2. ~InBus
        <5>1. \A j \in 1..Len(bus) : j = 1 \/ j > 1
          BY <1>3
        <5> QED
          BY <3>1, <3>4, <5>1 DEF InBus
      <4>3. LastInWire(i)
        BY <3>2, <4>1 DEF LastInWire
      <4> QED
        BY <1>0, <1>1, <4>1, <4>2, <4>3 DEF PipeInv
    <3> QED
      BY <3>3, <3>4
  <2> QED
    BY <2>2, <2>3
<1>17. ShownInv'
  <2>1. InBus \/ InWire => InBus' \/ InWire'
    <3>1. InWire => InWire'
      BY <1>8 DEF InWire
    <3>2. bus[1] # Telemetry => InWire'
      BY <1>4, <1>5 DEF InWire
    <3>3. ASSUME NEW j \in 1..Len(bus), bus[j] # Telemetry, j # 1
          PROVE  InBus'
      <4>1. j - 1 \in 1..Len(bus') /\ (j - 1) + 1 = j
        BY <1>3, <3>3
      <4> QED
        BY <1>3, <3>3, <4>1 DEF InBus
    <3> QED
      BY <3>1, <3>2, <3>3 DEF InBus
  <2>2. Asked(ClientGet)' <=> Asked(ClientGet)
    BY <1>11 DEF ClientGet, Ask, Asks
  <2>3. Reasons => Reasons'
    BY <1>1, <2>1, <2>2 DEF Reasons
  <2> QED
    BY <1>0, <1>1, <1>11, <1>12, <2>3, QuietKeepsShown
<1> QED
  BY <1>9, <1>10, <1>13, <1>14, <1>15, <1>16, <1>17 DEF FeedInv

LEMMA SubscribeKeeps ==
    FeedInv /\ TakeRequest /\ Head(requests).kind = "subscribe" => FeedInv'
<1> SUFFICES ASSUME FeedInv, TakeRequest, Head(requests).kind = "subscribe"
             PROVE  FeedInv'
  OBVIOUS
<1>0. FeedTypeOK /\ JobInv /\ SentInv /\ LinkInv /\ AskInv /\ ReplyInv /\ PipeInv /\ ShownInv
  BY DEF FeedInv
<1>1. /\ core' = core /\ side' = side /\ handle' = handle /\ newest' = newest /\ job' = job
      /\ online /\ requests # << >> /\ requests' = Tail(requests)
      /\ conn' = conn /\ online' = online /\ bus' = << >> /\ wire' = wire /\ stale' = FALSE
      /\ calls' = calls /\ results' = results /\ page' = page /\ live' = live /\ store' = store
      /\ guard' = guard /\ left' = left
  BY DEF TakeRequest, pageVars
<1>2. requests \in Seq(Asks) /\ conn \in Nat
  BY <1>0 DEF FeedTypeOK
<1>3. /\ Head(requests) = requests[1] /\ Len(requests) \in Nat /\ Len(requests) > 0
      /\ requests' \in Seq(Asks) /\ Len(requests') = Len(requests) - 1
      /\ \A i \in 1..Len(requests') : requests'[i] = requests[i + 1] /\ i + 1 \in 1..Len(requests)
  BY <1>1, <1>2
<1>4. bus = None /\ wire = << >> /\ Len(requests) >= 2 /\ requests[2] = ClientGet
  BY <1>0, <1>1, <1>3 DEF LinkInv
<1>5. << >> # None /\ << >> \in Seq(Statuses \cup {Telemetry}) /\ Len(<< >>) = 0
  <2>1. << >> # None
    BY NoneIsApart DEF Telemetry
  <2>2. << >> \in Seq(Statuses \cup {Telemetry}) /\ Len(<< >>) = 0
    BY EmptyQueue
  <2> QED
    BY <2>1, <2>2
<1>6. FeedTypeOK'
  BY <1>0, <1>1, <1>3, <1>5 DEF FeedTypeOK
<1>7. JobInv' /\ SentInv'
  BY <1>0, <1>1, <1>2, RestingJobsKeep
<1>8. \A x \in Asks : Asked(x)' => Asked(x)
  BY <1>1, <1>3 DEF Asked, Busy
<1>9. \A x, s : Replied(x, s)' => Replied(x, s)
  BY <1>1 DEF Replied
<1>10. \A i \in 1..Len(requests') : requests'[i].kind # "subscribe"
  BY <1>0, <1>3 DEF LinkInv
<1>11. LinkInv'
  BY <1>0, <1>1, <1>5, <1>10 DEF LinkInv
<1>12. AskInv'
  <2>1. guard.revision \in Nat /\ guard.observed \in Nat
    BY <1>0 DEF FeedTypeOK
  <2>2. guard.revision <= guard'.revision /\ guard.observed <= guard'.observed
    BY <1>1, <2>1
  <2> QED
    BY <2>2, <1>0, <1>1, <1>6, <1>8, KeepsAsks
<1>13. ReplyInv'
  <2>1. \A i \in 1..Len(wire') : wire'[i].ask = None => wire'[i].status # None
    BY <1>0, <1>1 DEF ReplyInv
  <2>2. core <= core' /\ side <= side'
    BY <1>0, <1>1 DEF FeedTypeOK
  <2> QED
    BY <1>0, <1>9, <1>6, <2>1, <2>2, KeepsReplies
<1>14. PipeInv'
  BY <1>1, <1>4, <1>5 DEF PipeInv
<1>15. ShownInv'
  <2>1. 1 \in 1..Len(requests') /\ requests'[1] = requests[2]
    BY <1>3, <1>4
  <2>2. Asked(ClientGet)'
    BY <1>4, <2>1 DEF Asked
  <2> QED
    BY <2>2 DEF ShownInv, Reasons
<1> QED
  BY <1>6, <1>7, <1>11, <1>12, <1>13, <1>14, <1>15 DEF FeedInv

LEMMA TakeRequestKeeps == FeedInv /\ TakeRequest => FeedInv'
<1> SUFFICES ASSUME FeedInv, TakeRequest, Head(requests).kind # "subscribe"
             PROVE  FeedInv'
  BY SubscribeKeeps
<1>0. FeedTypeOK /\ JobInv /\ SentInv /\ LinkInv /\ AskInv /\ ReplyInv /\ PipeInv /\ ShownInv
  BY DEF FeedInv
<1>1. /\ core' = core /\ side' = side /\ handle' = handle /\ newest' = newest
      /\ online /\ requests # << >> /\ requests' = Tail(requests)
      /\ conn' = conn /\ online' = online /\ bus' = bus /\ wire' = wire /\ stale' = stale
      /\ calls' = calls /\ results' = results /\ page' = page /\ live' = live /\ store' = store
      /\ guard' = guard /\ left' = left /\ job[conn].at = "idle" /\ Serve(conn, Head(requests))
  BY DEF TakeRequest, pageVars
<1>2. requests \in Seq(Asks) /\ conn \in Nat /\ core \in Nat /\ side \in Nat /\ conn \in Actors
      /\ conn \in Handlers /\ conn # Loop
  BY <1>0, <1>1, ActorFacts DEF FeedTypeOK, LinkInv
<1>3. /\ Head(requests) = requests[1] /\ Len(requests) \in Nat /\ Len(requests) > 0
      /\ requests[1] \in Asks
      /\ requests' \in Seq(Asks) /\ Len(requests') = Len(requests) - 1
      /\ \A i \in 1..Len(requests') : requests'[i] = requests[i + 1] /\ i + 1 \in 1..Len(requests)
  BY <1>1, <1>2
<1>4. bus # None
  BY <1>0, <1>1, <1>3 DEF LinkInv
<1>5. PICK k \in Jobs : /\ job' = [job EXCEPT ![conn] = k]
                        /\ k.ask = requests[1] /\ k.side = 0 /\ k.status = None
                        /\ k.at = IF requests[1].kind = "slow" THEN "work" ELSE "read"
  BY <1>0, <1>1, <1>2, <1>3, ServeIs
<1>6. job'[conn] = k
  BY <1>0, <1>2, <1>5, JobSet
<1>7. JobOK(conn)'
  BY <1>1, <1>2, <1>3, <1>5, <1>6, NoneIsApart DEF JobOK
<1>8. (\A b \in Actors : b # conn => job'[b] = job[b]) /\ JobInv'
  <2>1. core' \in Nat /\ core <= core' /\ side' \in Nat /\ side <= side' /\ conn <= conn
    BY <1>1, <1>2
  <2>2. \A a \in Actors : a = conn => JobOK(a)'
    BY <1>1, <1>7 DEF JobOK, AtMost
  <2> QED
    BY <1>0, <1>1, <1>2, <1>5, <2>1, <2>2, JobKeeps
<1>9. FeedTypeOK'
  BY <1>0, <1>1, <1>3, <1>5 DEF FeedTypeOK
<1>10. SentInv'
  <2>1. \A b \in Actors : b # conn => (CarriesCore(b) => CarriesCore(b)') /\ (CarriesSide(b) => CarriesSide(b)')
    BY <1>1, <1>8 DEF CarriesCore, CarriesSide
  <2>2. ~CarriesCore(conn) /\ ~CarriesSide(conn)
    BY <1>1 DEF CarriesCore, CarriesSide
  <2> QED
    BY <1>0, <1>1, <2>1, <2>2, KeepsSent
<1>11. \A x \in Asks : Asked(x)' <=> Asked(x)
  <2> TAKE x \in Asks
  <2>1. (\E i \in 1..Len(requests) : requests[i] = x) <=>
            requests[1] = x \/ \E i \in 1..Len(requests') : requests'[i] = x
    <3>1. (\E i \in 1..Len(requests') : requests'[i] = x) => \E i \in 1..Len(requests) : requests[i] = x
      BY <1>3
    <3>2. requests[1] = x => \E i \in 1..Len(requests) : requests[i] = x
      BY <1>3
    <3>3. ASSUME NEW i \in 1..Len(requests), requests[i] = x, i # 1
          PROVE  \E j \in 1..Len(requests') : requests'[j] = x
      <4>1. i - 1 \in 1..Len(requests') /\ (i - 1) + 1 = i
        BY <1>3, <3>3
      <4> QED
        BY <1>3, <3>3, <4>1
    <3> QED
      BY <3>1, <3>2, <3>3
  <2>2. (Busy /\ job[conn].ask = x)' <=> requests[1] = x
    BY <1>1, <1>5, <1>6 DEF Busy
  <2>3. ~Busy
    BY <1>1 DEF Busy
  <2> QED
    BY <1>1, <2>1, <2>2, <2>3 DEF Asked
<1>12. \A x, s : Replied(x, s)' => Replied(x, s)
  BY <1>1, <1>5, <1>6 DEF Replied
<1>13. LinkInv'
  <2>1. \A i \in 1..Len(requests') : requests'[i].kind # "subscribe"
    BY <1>0, <1>3 DEF LinkInv
  <2> QED
    BY <1>0, <1>1, <1>4, <2>1 DEF LinkInv
<1>14. AskInv'
  <2>1. guard.revision \in Nat /\ guard.observed \in Nat
    BY <1>0 DEF FeedTypeOK
  <2>2. guard.revision <= guard'.revision /\ guard.observed <= guard'.observed
    BY <1>1, <2>1
  <2> QED
    BY <2>2, <1>0, <1>1, <1>9, <1>11, KeepsAsks
<1>15. ReplyInv'
  <2>1. \A i \in 1..Len(wire') : wire'[i].ask = None => wire'[i].status # None
    BY <1>0, <1>1 DEF ReplyInv
  <2>2. core <= core' /\ side <= side'
    BY <1>1, <1>2
  <2> QED
    BY <1>0, <1>12, <1>9, <2>1, <2>2, KeepsReplies
<1>16. PipeInv'
  BY <1>0, <1>1, KeepsPipe
<1>17. ShownInv'
  <2>1. Asked(ClientGet)' <=> Asked(ClientGet)
    BY <1>11 DEF ClientGet, Ask, Asks
  <2>2. (InBus' <=> InBus) /\ (InWire' <=> InWire)
    BY <1>1 DEF InBus, InWire
  <2>3. Reasons => Reasons'
    BY <1>1, <2>1, <2>2 DEF Reasons
  <2>4. ~(online /\ job[conn].at = "lock")'
    BY <1>1, <1>5, <1>6
  <2> QED
    BY <1>0, <1>1, <1>11, <1>12, <2>3, <2>4, QuietKeepsShown
<1> QED
  BY <1>8, <1>9, <1>10, <1>13, <1>14, <1>15, <1>16, <1>17 DEF FeedInv

LEMMA ConnectKeeps == FeedInv /\ Connect => FeedInv'
<1> SUFFICES ASSUME FeedInv, Connect
             PROVE  FeedInv'
  OBVIOUS
<1>0. FeedTypeOK /\ JobInv /\ SentInv /\ LinkInv /\ AskInv /\ ReplyInv /\ PipeInv /\ ShownInv
  BY DEF FeedInv
<1> DEFINE subscribe == Ask("subscribe", "client", 0, 0)
<1>1. /\ core' = core /\ side' = side /\ handle' = handle /\ newest' = newest /\ job' = job
      /\ ~online /\ conn' = conn + 1 /\ online' = TRUE /\ bus' = bus /\ wire' = wire
      /\ requests' = <<subscribe, ClientGet>>
      /\ calls' = calls /\ results' = results /\ page' = page /\ live' = (page # "closed") /\ store' = store
      /\ guard' = guard /\ stale' = stale
  BY DEF Connect, daemonVars, ClientGet
<1>2. /\ left' \in [connections : 0..Connections, core : Nat, side : Nat,
                    telemetry : Nat, commands : Nat, loads : Nat]
      /\ left.connections \in Nat /\ left.connections > 0 /\ left'.connections = left.connections - 1
  BY <1>0, Spending DEF Connect
<1>3. bus = None /\ wire = << >> /\ requests = << >>
  BY <1>0, <1>1 DEF LinkInv
<1>4. conn \in Nat /\ conn + left.connections <= Connections /\ Connections \in Nat /\ core \in Nat /\ side \in Nat
  BY <1>0, FeedAssumption DEF LinkInv, FeedTypeOK
<1>5. conn' \in 1..Connections /\ conn' > conn
  BY <1>1, <1>2, <1>4
<1>6. job'[conn'] = Resting
  BY <1>0, <1>1, <1>5 DEF JobInv, Handlers
<1>7. /\ subscribe \in Asks /\ ClientGet \in Asks /\ subscribe.kind = "subscribe" /\ subscribe.to = "client"
      /\ ClientGet.kind = "get" /\ ClientGet.to = "client"
  BY DEF Ask, Asks, ClientGet
<1> HIDE DEF subscribe
<1>8. /\ requests' \in Seq(Asks) /\ Len(requests') = 2 /\ requests'[1] = subscribe /\ requests'[2] = ClientGet
      /\ \A i \in 1..Len(requests') : i = 1 \/ i = 2
  BY <1>1, <1>7
<1>9. FeedTypeOK'
  <2>1. conn' \in 0..Connections /\ live' \in BOOLEAN /\ online' \in BOOLEAN
    BY <1>1, <1>5
  <2> QED
    BY <1>0, <1>1, <1>2, <1>8, <2>1 DEF FeedTypeOK
<1>10. JobInv' /\ SentInv'
  BY <1>0, <1>1, <1>4, <1>5, RestingJobsKeep
<1>11. \A x \in Asks : Asked(x)' => Asked(x) \/ x = subscribe \/ x = ClientGet
  BY <1>1, <1>6, <1>8, RestingIsJob DEF Asked, Busy
<1>12. \A x, s : Replied(x, s)' => Replied(x, s)
  BY <1>1, <1>6, RestingIsJob DEF Replied
<1>13. LinkInv'
  <2>1. conn' + left'.connections <= Connections /\ conn' # 0
    BY <1>1, <1>2, <1>4, <1>5
  <2>2. wire' = << >> /\ bus' = None /\ job'[conn'].at = "idle" /\ Len(requests') >= 2
    BY <1>1, <1>3, <1>6, <1>8, RestingIsJob
  <2>3. requests'[1].kind = "subscribe" /\ requests'[2] = ClientGet
        /\ \A i \in 1..Len(requests') : requests'[i].kind = "subscribe" => i = 1
    BY <1>7, <1>8
  <2> QED
    BY <1>1, <2>1, <2>2, <2>3 DEF LinkInv
<1>14. AskInv'
  <2>1. guard.revision \in Nat /\ guard.observed \in Nat
    BY <1>0 DEF FeedTypeOK
  <2>2. guard.revision <= guard'.revision /\ guard.observed <= guard'.observed
    BY <1>1, <2>1
  <2>3. page' = "closed" => page = "closed" /\ (live' => live)
    BY <1>1
  <2> QED
    BY <2>2, <2>3, <1>0, <1>1, <1>7, <1>9, <1>11, KeepsAsks
<1>15. ReplyInv'
  <2>1. \A i \in 1..Len(wire') : wire'[i].ask = None => wire'[i].status # None
    BY <1>0, <1>1 DEF ReplyInv
  <2>2. core <= core' /\ side <= side'
    BY <1>1, <1>4
  <2> QED
    BY <1>0, <1>12, <1>9, <2>1, <2>2, KeepsReplies
<1>16. PipeInv' /\ ShownInv'
  BY <1>1, <1>3 DEF PipeInv, ShownInv, Reasons
<1> QED
  BY <1>9, <1>10, <1>13, <1>14, <1>15, <1>16 DEF FeedInv

LEMMA DisconnectKeeps == FeedInv /\ Disconnect => FeedInv'
<1> SUFFICES ASSUME FeedInv, Disconnect
             PROVE  FeedInv'
  OBVIOUS
<1>0. FeedTypeOK /\ JobInv /\ SentInv /\ LinkInv /\ AskInv /\ ReplyInv /\ PipeInv /\ ShownInv
  BY DEF FeedInv
<1>1. /\ core' = core /\ side' = side /\ handle' = handle /\ newest' = newest /\ job' = job
      /\ online' = FALSE /\ conn' = conn /\ bus' = None /\ wire' = << >> /\ requests' = << >>
      /\ calls' = calls /\ results' = results /\ page' \in {page, "ready"} /\ live' = FALSE /\ store' = store
      /\ guard' = guard /\ stale' = stale /\ left' = left
  BY DEF Disconnect, daemonVars
<1>2. conn \in Nat /\ core \in Nat /\ side \in Nat
  BY <1>0 DEF FeedTypeOK
<1>3. << >> \in Seq(Asks) /\ << >> \in Seq(FeedLines) /\ Len(<< >>) = 0
  BY EmptyQueue
<1>4. FeedTypeOK'
  BY <1>0, <1>1, <1>3 DEF FeedTypeOK
<1>5. JobInv' /\ SentInv'
  BY <1>0, <1>1, <1>2, RestingJobsKeep
<1>6. \A x \in Asks : Asked(x)' => Asked(x)
  BY <1>1, <1>3 DEF Asked, Busy
<1>7. \A x, s : Replied(x, s)' => Replied(x, s)
  BY <1>1, <1>3 DEF Replied
<1>8. LinkInv'
  BY <1>0, <1>1, <1>3 DEF LinkInv
<1>9. AskInv'
  <2>1. guard.revision \in Nat /\ guard.observed \in Nat
    BY <1>0 DEF FeedTypeOK
  <2>2. guard.revision <= guard'.revision /\ guard.observed <= guard'.observed
    BY <1>1, <2>1
  <2>3. page' = "closed" => page = "closed" /\ (live' => live)
    BY <1>1
  <2> QED
    BY <2>2, <2>3, <1>0, <1>1, <1>4, <1>6, KeepsAsks
<1>10. ReplyInv'
  <2>1. \A i \in 1..Len(wire') : wire'[i].ask = None => wire'[i].status # None
    BY <1>1, <1>3
  <2>2. core <= core' /\ side <= side'
    BY <1>1, <1>2
  <2> QED
    BY <1>0, <1>7, <1>4, <2>1, <2>2, KeepsReplies
<1>11. PipeInv' /\ ShownInv'
  BY <1>1 DEF PipeInv, ShownInv, Reasons
<1> QED
  BY <1>4, <1>5, <1>8, <1>9, <1>10, <1>11 DEF FeedInv

\* A call is given; the link rests.
LEMMA CallKeeps ==
    ASSUME FeedInv, NEW ask \in Asks, calls' = calls \cup {ask},
           ask.kind # "subscribe", ask.to \in {"page", "command", "tray"},
           ask.to = "page" => ask.kind = "get" /\ ask.seen <= guard'.revision,
           ask.to = "command" => ask.seen <= guard'.observed,
           page' = "closed" => page = "closed" /\ ask.to = "tray",
           page' \in {"closed", "loading", "asking", "ready"},
           guard' \in [revision : Nat, observed : Nat, confirmed : Nat, sequence : Nat],
           guard.revision <= guard'.revision, guard.observed <= guard'.observed,
           left' \in [connections : 0..Connections, core : Nat, side : Nat,
                      telemetry : Nat, commands : Nat, loads : Nat],
           left'.connections = left.connections,
           UNCHANGED <<daemonVars, linkVars, results, live, store, stale>>
    PROVE  /\ FeedTypeOK' /\ JobInv' /\ SentInv' /\ LinkInv' /\ AskInv' /\ ReplyInv' /\ PipeInv'
           /\ \A x \in Asks : Asked(x)' <=> (Asked(x) \/ x = ask)
           /\ \A x, s : Replied(x, s)' <=> Replied(x, s)
           /\ Reasons => Reasons'
<1>0. FeedTypeOK /\ JobInv /\ SentInv /\ LinkInv /\ AskInv /\ ReplyInv /\ PipeInv /\ ShownInv
  BY DEF FeedInv
<1>1. /\ core' = core /\ side' = side /\ handle' = handle /\ newest' = newest /\ job' = job
      /\ conn' = conn /\ online' = online /\ requests' = requests /\ bus' = bus /\ wire' = wire
      /\ results' = results /\ live' = live /\ store' = store /\ stale' = stale
  BY DEF daemonVars, linkVars
<1>2. conn \in Nat /\ core \in Nat /\ side \in Nat
  BY <1>0 DEF FeedTypeOK
<1>3. FeedTypeOK'
  BY <1>0, <1>1 DEF FeedTypeOK
<1>4. JobInv' /\ SentInv'
  BY <1>0, <1>1, <1>2, RestingJobsKeep
<1>5. \A x \in Asks : Asked(x)' <=> (Asked(x) \/ x = ask)
  BY <1>1 DEF Asked, Busy
<1>6. \A x, s : Replied(x, s)' <=> Replied(x, s)
  BY <1>1 DEF Replied
<1>7. LinkInv'
  BY <1>0, <1>1 DEF LinkInv
<1>8. AskInv'
  BY <1>0, <1>1, <1>3, <1>5, KeepsAsks
<1>9. ReplyInv'
  <2>1. \A i \in 1..Len(wire') : wire'[i].ask = None => wire'[i].status # None
    BY <1>0, <1>1 DEF ReplyInv
  <2>2. core <= core' /\ side <= side'
    BY <1>1, <1>2
  <2> QED
    BY <1>0, <1>3, <1>6, <2>1, <2>2, KeepsReplies
<1>10. PipeInv'
  BY <1>0, <1>1, KeepsPipe
<1>11. Reasons => Reasons'
  <2>1. Asked(ClientGet) => Asked(ClientGet)'
    BY <1>5 DEF ClientGet, Ask, Asks
  <2>2. (InBus' <=> InBus) /\ (InWire' <=> InWire)
    BY <1>1 DEF InBus, InWire
  <2> QED
    BY <1>1, <2>1, <2>2 DEF Reasons
<1> QED
  BY <1>3, <1>4, <1>5, <1>6, <1>7, <1>8, <1>9, <1>10, <1>11

LEMMA LoadKeeps == FeedInv /\ Load => FeedInv'
<1> SUFFICES ASSUME FeedInv, Load
             PROVE  FeedInv'
  OBVIOUS
<1>0. FeedTypeOK /\ AskInv /\ ShownInv
  BY DEF FeedInv
<1> DEFINE ask == Ask("get", "page", guard.revision, 0)
<1>1. /\ page \in {"closed", "ready"} /\ page' = "loading" /\ calls' = calls \cup {ask}
      /\ UNCHANGED <<daemonVars, linkVars, results, live, store, guard, stale>>
      /\ Spend("loads")
  BY DEF Load
<1>2. guard.revision \in Nat /\ guard.observed \in Nat
  BY <1>0 DEF FeedTypeOK
<1>3. ask \in Asks /\ ask.kind = "get" /\ ask.to = "page" /\ ask.seen = guard.revision
  BY <1>2 DEF Ask, Asks
<1> HIDE DEF ask
<1>4. guard' = guard /\ guard.revision <= guard'.revision /\ guard.observed <= guard'.observed
      /\ ask.seen <= guard'.revision
  BY <1>1, <1>2, <1>3
<1>5. /\ left' \in [connections : 0..Connections, core : Nat, side : Nat,
                    telemetry : Nat, commands : Nat, loads : Nat]
      /\ left'.connections = left.connections
  BY <1>0, <1>1, Spending
<1>6. /\ FeedTypeOK' /\ JobInv' /\ SentInv' /\ LinkInv' /\ AskInv' /\ ReplyInv' /\ PipeInv'
      /\ \A x \in Asks : Asked(x)' <=> (Asked(x) \/ x = ask)
      /\ \A x, s : Replied(x, s)' <=> Replied(x, s)
      /\ Reasons => Reasons'
  <2>1. guard' \in [revision : Nat, observed : Nat, confirmed : Nat, sequence : Nat]
    BY <1>0, <1>4 DEF FeedTypeOK
  <2> QED
    BY <1>1, <1>3, <1>4, <1>5, <2>1, CallKeeps
<1>7. ShownInv'
  <2> SUFFICES ASSUME ~stale', ~Reasons'
               PROVE  (RepliedInv /\ LockedInv /\ StoreInv)'
    BY DEF ShownInv
  <2>1. RepliedInv /\ LockedInv /\ StoreInv
    BY <1>0, <1>1, <1>6 DEF ShownInv
  <2>2. \A x : Acceptable(x)' <=> Acceptable(x)
    BY <1>4 DEF Acceptable, AcceptsSnapshot
  <2>3. RepliedInv' /\ LockedInv'
    BY <1>1, <1>6, <2>1, <2>2 DEF RepliedInv, LockedInv, daemonVars, linkVars
  <2>4. CASE page = "ready"
    BY <1>1, <2>1, <2>3, <2>4 DEF StoreInv, Loading, daemonVars
  <2>5. CASE page = "closed"
    <3>1. ~live' /\ \A x \in Asks : Asked(x) => x.to # "page"
      BY <1>0, <1>1, <2>5 DEF AskInv
    <3>2. Loading'
      BY <1>1, <1>3, <1>4, <1>6, <3>1 DEF Loading, AcceptsSnapshot
    <3> QED
      BY <2>3, <3>2 DEF StoreInv
  <2> QED
    BY <1>1, <2>4, <2>5
<1> QED
  BY <1>6, <1>7 DEF FeedInv

LEMMA TrayKeeps == FeedInv /\ Tray => FeedInv'
<1> SUFFICES ASSUME FeedInv, Tray
             PROVE  FeedInv'
  OBVIOUS
<1>0. FeedTypeOK /\ ShownInv
  BY DEF FeedInv
<1> DEFINE ask == Ask("set", "tray", 0, left.commands)
<1>1. /\ calls' = calls \cup {ask} /\ Spend("commands")
      /\ UNCHANGED <<daemonVars, linkVars, results, live, store, stale>> /\ page' = page /\ guard' = guard
      /\ core' = core /\ side' = side /\ handle' = handle /\ newest' = newest /\ live' = live /\ store' = store /\ stale' = stale
      /\ online' = online /\ job' = job /\ conn' = conn
  BY DEF Tray, pageVars, daemonVars, linkVars
<1>2. guard.revision \in Nat /\ guard.observed \in Nat /\ left.commands \in Nat
  BY <1>0 DEF FeedTypeOK
<1>3. ask \in Asks /\ ask.kind = "set" /\ ask.to = "tray"
  BY <1>2 DEF Ask, Asks
<1> HIDE DEF ask
<1>4. guard.revision <= guard'.revision /\ guard.observed <= guard'.observed
  BY <1>1, <1>2
<1>5. /\ left' \in [connections : 0..Connections, core : Nat, side : Nat,
                    telemetry : Nat, commands : Nat, loads : Nat]
      /\ left'.connections = left.connections
  BY <1>0, <1>1, Spending
<1>6. /\ FeedTypeOK' /\ JobInv' /\ SentInv' /\ LinkInv' /\ AskInv' /\ ReplyInv' /\ PipeInv'
      /\ \A x \in Asks : Asked(x)' <=> (Asked(x) \/ x = ask)
      /\ \A x, s : Replied(x, s)' <=> Replied(x, s)
      /\ Reasons => Reasons'
  <2>1. guard' \in [revision : Nat, observed : Nat, confirmed : Nat, sequence : Nat]
        /\ page' \in {"closed", "loading", "asking", "ready"}
    BY <1>0, <1>1 DEF FeedTypeOK
  <2> QED
    BY <1>1, <1>3, <1>4, <1>5, <2>1, CallKeeps
<1>7. ShownInv'
  BY <1>0, <1>1, <1>3, <1>6, QuietKeepsShown
<1> QED
  BY <1>6, <1>7 DEF FeedInv

LEMMA CommandKeeps == ASSUME NEW kind \in {"set", "slow"} PROVE FeedInv /\ Command(kind) => FeedInv'
<1> SUFFICES ASSUME FeedInv, Command(kind)
             PROVE  FeedInv'
  OBVIOUS
<1>0. FeedTypeOK /\ AskInv /\ ShownInv
  BY DEF FeedInv
<1> DEFINE ask == Ask(kind, "command", guard.observed, guard.sequence + 1)
           counted == [guard EXCEPT !.revision = @ + 1]
<1>1. /\ live /\ calls' = calls \cup {ask} /\ Spend("commands")
      /\ UNCHANGED <<daemonVars, linkVars, results, live, store, stale>> /\ page' = page
      /\ guard' = [guard EXCEPT !.revision = @ + 1, !.sequence = @ + 1]
      /\ core' = core /\ side' = side /\ handle' = handle /\ newest' = newest /\ live' = live /\ store' = store /\ stale' = stale
      /\ online' = online /\ job' = job /\ conn' = conn
  BY DEF Command, daemonVars, linkVars
<1>2. guard.revision \in Nat /\ guard.observed \in Nat /\ guard.sequence \in Nat
      /\ guard \in [revision : Nat, observed : Nat, confirmed : Nat, sequence : Nat]
  BY <1>0 DEF FeedTypeOK
<1>3. ask \in Asks /\ ask.kind = kind /\ ask.to = "command" /\ ask.seen = guard.observed
  BY <1>2 DEF Ask, Asks
<1> HIDE DEF ask
<1>4. /\ guard' \in [revision : Nat, observed : Nat, confirmed : Nat, sequence : Nat]
      /\ guard'.revision = guard.revision + 1 /\ guard'.observed = guard.observed
  <2>1. counted \in [revision : Nat, observed : Nat, confirmed : Nat, sequence : Nat]
        /\ counted.revision = guard.revision + 1 /\ counted.observed = guard.observed
        /\ counted.sequence = guard.sequence
    BY <1>2
  <2>2. guard' = [counted EXCEPT !.sequence = guard.sequence + 1]
    BY <1>1
  <2> HIDE DEF counted
  <2> QED
    BY <1>2, <2>1, <2>2
<1>5. /\ left' \in [connections : 0..Connections, core : Nat, side : Nat,
                    telemetry : Nat, commands : Nat, loads : Nat]
      /\ left'.connections = left.connections
  BY <1>0, <1>1, Spending
<1>6. page # "closed"
  BY <1>0, <1>1 DEF AskInv
<1>7. /\ FeedTypeOK' /\ JobInv' /\ SentInv' /\ LinkInv' /\ AskInv' /\ ReplyInv' /\ PipeInv'
      /\ \A x \in Asks : Asked(x)' <=> (Asked(x) \/ x = ask)
      /\ \A x, s : Replied(x, s)' <=> Replied(x, s)
      /\ Reasons => Reasons'
  <2>1. page' \in {"closed", "loading", "asking", "ready"} /\ page' # "closed"
    BY <1>0, <1>1, <1>6 DEF FeedTypeOK
  <2>2. guard.revision <= guard'.revision /\ guard.observed <= guard'.observed
        /\ ask.seen <= guard'.observed
    BY <1>2, <1>3, <1>4
  <2> QED
    BY <1>1, <1>3, <1>4, <1>5, <2>1, <2>2, CallKeeps
<1>8. ShownInv'
  <2> SUFFICES ASSUME ~stale', ~Reasons'
               PROVE  (RepliedInv /\ LockedInv /\ StoreInv)'
    BY DEF ShownInv
  <2>1. RepliedInv /\ LockedInv /\ StoreInv
    BY <1>0, <1>1, <1>7 DEF ShownInv
  <2>2. \A x \in Asks : Asked(x) /\ Acceptable(x)' => Acceptable(x)
    <3>1. \A x \in Asks : Asked(x) /\ x.to = "page" => x.seen <= guard.revision /\ x.seen \in Nat
      BY <1>0 DEF AskInv, Asks
    <3>2. \A x \in Asks : Asked(x) /\ x.to = "page" => guard'.revision # x.seen
      BY <1>2, <1>4, <3>1
    <3> QED
      BY <1>4, <3>2 DEF Acceptable, AcceptsSnapshot
  <2>3. \A x, s : Replied(x, s) => Asked(x)
    BY DEF Replied, Asked, Busy
  <2>4. RepliedInv'
    BY <1>1, <1>7, <2>1, <2>2, <2>3 DEF RepliedInv
  <2>5. LockedInv'
    <3>1. online /\ job[conn].at = "lock" => job[conn].ask \in Asks /\ Asked(job[conn].ask)
      <4>1. online => conn \in Actors
        BY ActorFacts DEF FeedInv, LinkInv, FeedTypeOK
      <4>2. online /\ job[conn].at = "lock" => job[conn].ask \in Asks
        BY <4>1 DEF FeedInv, FeedTypeOK, Jobs, JobInv, JobOK
      <4> QED
        BY <4>2 DEF Asked, Busy
    <3> QED
      BY <1>1, <2>1, <2>2, <3>1 DEF LockedInv
  <2>6. StoreInv'
    BY <1>1, <2>1 DEF StoreInv, Loading
  <2> QED
    BY <2>4, <2>5, <2>6
<1> QED
  BY <1>7, <1>8 DEF FeedInv

LEMMA EnqueueKeeps == ASSUME NEW ask \in calls PROVE FeedInv /\ Enqueue(ask) => FeedInv'
<1> SUFFICES ASSUME FeedInv, Enqueue(ask)
             PROVE  FeedInv'
  OBVIOUS
<1>0. FeedTypeOK /\ JobInv /\ SentInv /\ LinkInv /\ AskInv /\ ReplyInv /\ PipeInv /\ ShownInv
  BY DEF FeedInv
<1>1. /\ core' = core /\ side' = side /\ handle' = handle /\ newest' = newest /\ job' = job
      /\ online' = online /\ conn' = conn /\ bus' = bus /\ wire' = wire
      /\ requests' = IF online THEN Append(requests, ask) ELSE requests
      /\ calls' = calls \ {ask} /\ results' = results
      /\ page' = IF ask.to # "page" THEN page ELSE IF online THEN "asking" ELSE "ready"
      /\ live' = live /\ store' = store /\ guard' = guard /\ stale' = stale /\ left' = left
  BY DEF Enqueue, daemonVars
<1>2. /\ conn \in Nat /\ core \in Nat /\ side \in Nat /\ requests \in Seq(Asks) /\ ask \in Asks
      /\ guard.revision \in Nat /\ guard.observed \in Nat
  BY <1>0 DEF FeedTypeOK
<1>3. ask.kind # "subscribe" /\ Asked(ask)
  BY <1>0 DEF AskInv, Asked
<1>4. online =>
          /\ requests' \in Seq(Asks) /\ Len(requests) \in Nat /\ Len(requests') = Len(requests) + 1
          /\ requests'[Len(requests) + 1] = ask /\ Len(requests) + 1 \in 1..Len(requests')
          /\ \A i \in 1..Len(requests) : requests'[i] = requests[i] /\ i \in 1..Len(requests')
  <2>1. CASE online
    <3>1. /\ Append(requests, ask) \in Seq(Asks) /\ Len(requests) \in Nat
          /\ Len(Append(requests, ask)) = Len(requests) + 1
          /\ Append(requests, ask)[Len(requests) + 1] = ask
          /\ \A i \in 1..Len(requests) : Append(requests, ask)[i] = requests[i] /\ i \in 1..(Len(requests) + 1)
      BY <1>2, QueueGrows
    <3>2. requests' = Append(requests, ask)
      BY <1>1, <2>1
    <3> QED
      BY <3>1, <3>2
  <2> QED
    BY <2>1
<1>5. ASSUME NEW i \in 1..Len(requests')
      PROVE  (i \in 1..Len(requests) /\ requests'[i] = requests[i]) \/ (online /\ requests'[i] = ask)
  <2>1. CASE online
    <3>1. i \in 1..Len(requests) \/ i = Len(requests) + 1
      BY <1>4, <2>1
    <3> QED
      BY <1>4, <2>1, <3>1
  <2> QED
    BY <1>1, <2>1
<1>6. FeedTypeOK'
  <2>1. requests' \in Seq(Asks)
    BY <1>1, <1>2, <1>4
  <2>2. page' \in {"closed", "loading", "asking", "ready"}
    BY <1>0, <1>1 DEF FeedTypeOK
  <2> QED
    BY <1>0, <1>1, <2>1, <2>2 DEF FeedTypeOK
<1>7. JobInv' /\ SentInv'
  BY <1>0, <1>1, <1>2, RestingJobsKeep
<1>8. \A x \in Asks : Asked(x)' => Asked(x)
  <2>1. \A x \in Asks : (\E i \in 1..Len(requests') : requests'[i] = x) =>
            (\E i \in 1..Len(requests) : requests[i] = x) \/ x = ask
    BY <1>5
  <2> QED
    BY <1>1, <1>3, <2>1 DEF Asked, Busy
<1>9. online => \A x \in Asks : Asked(x) => Asked(x)'
  <2>1. CASE online
    <3>1. \E i \in 1..Len(requests') : requests'[i] = ask
      BY <1>4, <2>1
    <3>2. \A x \in Asks : (\E i \in 1..Len(requests) : requests[i] = x) =>
              \E i \in 1..Len(requests') : requests'[i] = x
      BY <1>4, <2>1
    <3>3. \A x \in calls : x \in calls' \/ x = ask
      BY <1>1
    <3> QED
      BY <1>1, <3>1, <3>2, <3>3 DEF Asked, Busy
  <2> QED
    BY <2>1
<1>10. \A x, s : Replied(x, s)' <=> Replied(x, s)
  BY <1>1 DEF Replied
<1>11. LinkInv'
  <2>1. ~online => requests' = << >>
    BY <1>0, <1>1 DEF LinkInv
  <2>2. online /\ bus = None =>
            Len(requests') >= 2 /\ requests'[1].kind = "subscribe" /\ requests'[2] = ClientGet
    BY <1>0, <1>4 DEF LinkInv
  <2>3. \A i \in 1..Len(requests') : requests'[i].kind = "subscribe" => bus = None /\ i = 1
    BY <1>0, <1>3, <1>5 DEF LinkInv
  <2> QED
    BY <1>0, <1>1, <2>1, <2>2, <2>3 DEF LinkInv
<1>12. AskInv'
  <2>1. guard.revision <= guard'.revision /\ guard.observed <= guard'.observed
    BY <1>1, <1>2
  <2>2. page' = "closed" => page = "closed" /\ (live' => live)
    BY <1>1
  <2> QED
    BY <2>1, <2>2, <1>0, <1>1, <1>6, <1>8, KeepsAsks
<1>13. ReplyInv'
  <2>1. \A i \in 1..Len(wire') : wire'[i].ask = None => wire'[i].status # None
    BY <1>0, <1>1 DEF ReplyInv
  <2>2. core <= core' /\ side <= side'
    BY <1>1, <1>2
  <2> QED
    BY <1>0, <1>10, <1>6, <2>1, <2>2, KeepsReplies
<1>14. PipeInv'
  BY <1>0, <1>1, KeepsPipe
<1>15. ShownInv'
  <2> SUFFICES ASSUME ~stale', ~Reasons'
               PROVE  (RepliedInv /\ LockedInv /\ StoreInv)'
    BY DEF ShownInv
  <2>1. online
    BY <1>0, <1>1 DEF Reasons, LinkInv
  <2>2. ~Reasons
    <3>1. Asked(ClientGet) => Asked(ClientGet)'
      BY <1>9, <2>1 DEF ClientGet, Ask, Asks
    <3>2. (InBus' <=> InBus) /\ (InWire' <=> InWire)
      BY <1>1 DEF InBus, InWire
    <3> QED
      BY <1>1, <3>1, <3>2 DEF Reasons
  <2>3. RepliedInv /\ LockedInv /\ StoreInv
    BY <1>0, <1>1, <2>2 DEF ShownInv
  <2>4. \A x : Acceptable(x)' <=> Acceptable(x)
    BY <1>1 DEF Acceptable, AcceptsSnapshot
  <2>5. RepliedInv' /\ LockedInv'
    BY <1>1, <1>10, <2>3, <2>4 DEF RepliedInv, LockedInv
  <2>6. ask.to = "page" => page # "closed" /\ page' = "asking"
    BY <1>0, <1>1, <1>2, <1>3, <2>1 DEF AskInv
  <2>7. Loading => Loading'
    BY <1>1, <1>8, <2>1 DEF Loading, AcceptsSnapshot
  <2>8. StoreInv'
    BY <1>1, <2>3, <2>6, <2>7 DEF StoreInv
  <2> QED
    BY <2>5, <2>8
<1> QED
  BY <1>6, <1>7, <1>11, <1>12, <1>13, <1>14, <1>15 DEF FeedInv

LEMMA ShowIs ==
    ASSUME FeedTypeOK, NEW status, Show(status)
    PROVE  /\ guard' \in [revision : Nat, observed : Nat, confirmed : Nat, sequence : Nat]
           /\ guard.revision <= guard'.revision /\ guard.observed <= guard'.observed
           /\ page # "closed" => /\ store' = status /\ guard.revision < guard'.revision
                                 /\ guard.observed < guard'.observed
<1> DEFINE counted == [guard EXCEPT !.revision = guard.revision + 1]
<1>1. guard \in [revision : Nat, observed : Nat, confirmed : Nat, sequence : Nat]
  BY DEF FeedTypeOK
<1>2. CASE page = "closed"
  BY <1>1, <1>2 DEF Show
<1>3. CASE page # "closed"
  <2>1. store' = status /\ guard' = [counted EXCEPT !.observed = guard.observed + 1]
    BY <1>3 DEF Show
  <2>2. counted \in [revision : Nat, observed : Nat, confirmed : Nat, sequence : Nat]
        /\ counted.revision = guard.revision + 1 /\ counted.observed = guard.observed
    BY <1>1
  <2> HIDE DEF counted
  <2>3. /\ guard' \in [revision : Nat, observed : Nat, confirmed : Nat, sequence : Nat]
        /\ guard'.revision = guard.revision + 1 /\ guard'.observed = guard.observed + 1
    BY <1>1, <2>1, <2>2
  <2> QED
    BY <1>1, <2>1, <2>3
<1> QED
  BY <1>2, <1>3

\* A status that is shown supersedes all that was asked for before.
LEMMA ShowKeepsShown ==
    ASSUME FeedInv, NEW status, Show(status), page' # "closed" => page # "closed",
           UNCHANGED <<job, conn, online>>,
           \A x \in Asks : \A s \in Statuses : Replied(x, s)' => Replied(x, s),
           ~stale' /\ ~Reasons' /\ page # "closed" => status = newest'
    PROVE  ShownInv'
<1> SUFFICES ASSUME ~stale', ~Reasons'
             PROVE  (RepliedInv /\ LockedInv /\ StoreInv)'
  BY DEF ShownInv
<1>0. FeedTypeOK /\ AskInv /\ JobInv /\ LinkInv
  BY DEF FeedInv
<1>1. guard.revision \in Nat /\ guard.observed \in Nat /\ guard'.revision \in Nat /\ guard'.observed \in Nat
  BY <1>0, ShowIs DEF FeedTypeOK
<1>2. ASSUME NEW x \in Asks, Asked(x)
      PROVE  ~Acceptable(x)'
  <2>1. x.seen \in Nat
    BY DEF Asks
  <2>2. /\ x.to = "page" => x.seen <= guard.revision
        /\ x.to = "command" => x.seen <= guard.observed
        /\ page = "closed" => x.to \notin {"page", "command"}
    BY <1>0, <1>2 DEF AskInv
  <2>3. page # "closed" => guard.revision < guard'.revision /\ guard.observed < guard'.observed
    BY <1>0, ShowIs
  <2>4. (x.to = "page" => guard'.revision # x.seen) /\ (x.to = "command" => x.seen # guard'.observed)
    BY <1>1, <2>1, <2>2, <2>3
  <2> QED
    BY <2>4 DEF Acceptable, AcceptsSnapshot
<1>3. \A x, s : Replied(x, s) => Asked(x)
  BY DEF Replied, Asked, Busy
<1>4. RepliedInv'
  BY <1>2, <1>3 DEF RepliedInv
<1>5. LockedInv'
  <2>1. online => conn \in Actors
    BY <1>0, ActorFacts DEF LinkInv, FeedTypeOK
  <2>2. online /\ job[conn].at = "lock" => job[conn].ask \in Asks
    BY <1>0, <2>1 DEF FeedTypeOK, Jobs, JobInv, JobOK
  <2>3. online /\ job[conn].at = "lock" => Asked(job[conn].ask)
    BY DEF Asked, Busy
  <2> QED
    BY <1>2, <2>2, <2>3 DEF LockedInv
<1>6. StoreInv'
  BY <1>0, ShowIs DEF StoreInv
<1> QED
  BY <1>4, <1>5, <1>6

LEMMA ReadLineKeeps == FeedInv /\ ReadLine => FeedInv'
<1> SUFFICES ASSUME FeedInv, ReadLine
             PROVE  FeedInv'
  OBVIOUS
<1>0. FeedTypeOK /\ JobInv /\ SentInv /\ LinkInv /\ AskInv /\ ReplyInv /\ PipeInv /\ ShownInv
  BY DEF FeedInv
<1> DEFINE line == wire[1]
<1>1. /\ core' = core /\ side' = side /\ handle' = handle /\ newest' = newest /\ job' = job
      /\ conn' = conn /\ online' = online /\ requests' = requests /\ bus' = bus
      /\ wire # << >> /\ wire' = Tail(wire) /\ Head(wire) = line
      /\ calls' = calls /\ page' = page /\ live' = live /\ left' = left
  BY <1>0 DEF ReadLine, daemonVars, FeedTypeOK
<1>2. /\ conn \in Nat /\ core \in Nat /\ side \in Nat /\ wire \in Seq(FeedLines)
      /\ guard.revision \in Nat /\ guard.observed \in Nat /\ stale \in BOOLEAN
      /\ newest[1] \in Nat /\ newest[2] \in Nat /\ newest = <<newest[1], newest[2]>>
  BY <1>0, StatusParts DEF FeedTypeOK
<1>3. /\ Len(wire) \in Nat /\ Len(wire) > 0 /\ line \in FeedLines /\ 1 \in 1..Len(wire)
      /\ wire' \in Seq(FeedLines) /\ Len(wire') = Len(wire) - 1
      /\ \A i \in 1..Len(wire') : wire'[i] = wire[i + 1] /\ i + 1 \in 1..Len(wire)
  BY <1>1, <1>2
<1> HIDE DEF line
<1>4. line.ask \in Asks \cup {None} /\ line.status \in Statuses \cup {None}
  BY <1>3 DEF FeedLines
<1>5. bus # None /\ online
  <2>1. wire # << >>
    BY <1>1
  <2> QED
    BY <1>0, <2>1 DEF LinkInv, FeedTypeOK
<1>6. \/ line.ask = None /\ Show(line.status) /\ results' = results /\ stale' = stale
      \/ line.ask # None /\ line.ask.to = "client" /\ Emit(line.status) /\ results' = results
      \/ /\ line.ask # None /\ line.ask.to # "client" /\ results' = results \cup {line}
         /\ store' = store /\ guard' = guard /\ stale' = stale
  BY <1>1 DEF ReadLine
<1>7. (Show(line.status) \/ guard' = guard) /\ (stale => stale') /\ stale' \in BOOLEAN
  BY <1>2, <1>6 DEF Emit, Older
<1>8. /\ guard' \in [revision : Nat, observed : Nat, confirmed : Nat, sequence : Nat]
      /\ guard.revision <= guard'.revision /\ guard.observed <= guard'.observed
  <2>1. CASE Show(line.status)
    BY <1>0, <2>1, ShowIs
  <2>2. CASE guard' = guard
    BY <1>0, <1>2, <2>2, SMTT(30) DEF FeedTypeOK
  <2> QED
    BY <1>7, <2>1, <2>2
<1>9. line.ask # None => line \in [ask : Asks, status : Statuses \cup {None}]
  BY <1>3, <1>4 DEF FeedLines
<1>10. FeedTypeOK'
  <2>1. results' \subseteq [ask : Asks, status : Statuses \cup {None}]
    BY <1>0, <1>6, <1>9 DEF FeedTypeOK
  <2> QED
    BY <1>0, <1>1, <1>3, <1>7, <1>8, <2>1 DEF FeedTypeOK
<1>11. JobInv' /\ SentInv'
  BY <1>0, <1>1, <1>2, RestingJobsKeep
<1>12. results' = results \/ (line.ask # None /\ line.ask.to # "client" /\ results' = results \cup {line})
  BY <1>6
<1>13. \A x \in Asks : Asked(x)' => Asked(x)
  <2>1. \A x \in Asks : (\E i \in 1..Len(wire') : wire'[i].ask = x) => \E i \in 1..Len(wire) : wire[i].ask = x
    BY <1>3
  <2>2. \A x \in Asks : (\E r \in results' : r.ask = x) =>
            (\E r \in results : r.ask = x) \/ \E i \in 1..Len(wire) : wire[i].ask = x
    BY <1>3, <1>12 DEF line
  <2> QED
    BY <1>1, <2>1, <2>2 DEF Asked, Busy
<1>14. \A x, s : Replied(x, s)' => Replied(x, s)
  <2> TAKE x, s
  <2>1. (\E i \in 1..Len(wire') : wire'[i].ask = x /\ wire'[i].status = s) =>
            \E i \in 1..Len(wire) : wire[i].ask = x /\ wire[i].status = s
    BY <1>3
  <2>2. (\E r \in results' : r.ask = x /\ r.status = s) =>
            \/ \E r \in results : r.ask = x /\ r.status = s
            \/ \E i \in 1..Len(wire) : wire[i].ask = x /\ wire[i].status = s
    BY <1>3, <1>12 DEF line
  <2> QED
    BY <1>1, <2>1, <2>2 DEF Replied
<1>15. LinkInv'
  BY <1>0, <1>1, <1>5 DEF LinkInv
<1>16. AskInv'
  <2>1. \A r \in results' : r \in results \/ r.ask.to # "client"
    BY <1>12
  <2>2. page' = "closed" => page = "closed" /\ (live' => live)
    BY <1>1
  <2> QED
    BY <2>1, <2>2, <1>0, <1>1, <1>8, <1>10, <1>13, KeepsAsks
<1>17. ReplyInv'
  <2>1. \A i \in 1..Len(wire') : wire'[i].ask = None => wire'[i].status # None
    BY <1>0, <1>3 DEF ReplyInv
  <2>2. core <= core' /\ side <= side'
    BY <1>1, <1>2
  <2> QED
    BY <1>0, <1>14, <1>10, <2>1, <2>2, KeepsReplies
<1>18. PipeInv'
  <2>1. ASSUME NEW i \in 1..Len(wire'), LastInWire(i)'
        PROVE  i + 1 \in 1..Len(wire) /\ LastInWire(i + 1) /\ wire'[i] = wire[i + 1]
    <3>1. wire'[i].ask = None /\ \A j \in 1..Len(wire') : j > i => wire'[j].ask # None
      BY <2>1 DEF LastInWire
    <3>2. ASSUME NEW j \in 1..Len(wire), j > i + 1
          PROVE  wire[j].ask # None
      <4>1. j - 1 \in 1..Len(wire') /\ j - 1 > i /\ (j - 1) + 1 = j
        BY <1>3, <3>2
      <4> QED
        BY <1>3, <3>1, <4>1
    <3> QED
      BY <1>3, <3>1, <3>2 DEF LastInWire
  <2>2. (InBus' <=> InBus) /\ \A i \in 1..Len(bus) : LastInBus(i)' <=> LastInBus(i)
    BY <1>1 DEF InBus, LastInBus
  <2> QED
    BY <1>0, <1>1, <1>7, <2>1, <2>2 DEF PipeInv
<1>19. ~Reasons' => newest = <<core, side>> /\ ~InBus /\ \A j \in 1..Len(wire) : j > 1 => wire[j].ask # None
  <2> SUFFICES ASSUME ~Reasons'
               PROVE  newest = <<core, side>> /\ ~InBus /\ \A j \in 1..Len(wire) : j > 1 => wire[j].ask # None
    OBVIOUS
  <2>1. newest = <<core, side>> /\ ~InBus' /\ ~InWire'
    BY <1>1 DEF Reasons
  <2>2. ~InBus
    BY <1>1, <2>1 DEF InBus
  <2>3. ASSUME NEW j \in 1..Len(wire), j > 1
        PROVE  wire[j].ask # None
    <3>1. j - 1 \in 1..Len(wire') /\ (j - 1) + 1 = j
      BY <1>3, <2>3
    <3> QED
      BY <1>3, <2>1, <3>1 DEF InWire
  <2> QED
    BY <2>1, <2>2, <2>3
<1>20. ShownInv'
  <2>1. CASE line.ask = None /\ Show(line.status) /\ stale' = stale
    <3>1. ~stale' /\ ~Reasons' => line.status = newest'
      <4>1. ~Reasons' => LastInWire(1)
        BY <1>19, <2>1 DEF LastInWire, line
      <4>2. ~stale /\ ~Reasons' => \A i \in 1..Len(wire) : LastInWire(i) => wire[i].status = newest
        BY <1>0, <1>5, <1>19 DEF PipeInv
      <4> QED
        BY <1>1, <1>3, <2>1, <4>1, <4>2 DEF line
    <3> QED
      BY <1>1, <1>14, <2>1, <3>1, ShowKeepsShown
  <2>2. CASE line.ask # None /\ line.ask.to = "client" /\ Emit(line.status)
    <3>1. line.ask \in Asks /\ Asked(line.ask) /\ Replied(line.ask, line.status)
      BY <1>3, <1>4, <2>2 DEF Asked, Replied, line
    <3>2. line.ask.kind # "subscribe" /\ line.ask.kind = "get"
      BY <1>0, <1>4, <2>2, <3>1 DEF AskInv, ReplyInv, ClientGet, Ask
    <3>3. line.status \in Statuses /\ AtMost(line.status)
      BY <1>0, <1>4, <3>1, <3>2 DEF ReplyInv
    <3>4. line.status[1] \in Nat /\ line.status[2] \in Nat /\ line.status = <<line.status[1], line.status[2]>>
          /\ line.status[1] <= core /\ line.status[2] <= side
      BY <3>3, StatusParts DEF AtMost
    <3>5. ~stale' => ~(line.status[1] < newest[1]) /\ ~(line.status[2] < newest[2])
      BY <2>2 DEF Emit, Older
    <3>6. ~Reasons' => newest[1] = core /\ newest[2] = side
      BY <1>2, <1>19, StatusParts
    <3>7. ~stale' /\ ~Reasons' => line.status = newest'
      <4>1. ~stale' /\ ~Reasons' => line.status[1] = newest[1] /\ line.status[2] = newest[2]
        BY <1>2, <3>4, <3>5, <3>6
      <4> QED
        BY <1>1, <1>2, <3>4, <4>1
    <3> QED
      BY <1>1, <1>14, <2>2, <3>7, ShowKeepsShown DEF Emit
  <2>3. CASE /\ line.ask # None /\ line.ask.to # "client" /\ results' = results \cup {line}
             /\ store' = store /\ guard' = guard /\ stale' = stale
    <3>1. \A x \in Asks : Asked(x) => Asked(x)'
      <4>1. ASSUME NEW x \in Asks, NEW i \in 1..Len(wire), wire[i].ask = x
            PROVE  (\E j \in 1..Len(wire') : wire'[j].ask = x) \/ \E r \in results' : r.ask = x
        <5>1. CASE i = 1
          BY <2>3, <4>1, <5>1 DEF line
        <5>2. CASE i # 1
          <6>1. i - 1 \in 1..Len(wire') /\ (i - 1) + 1 = i
            BY <1>3, <5>2
          <6> QED
            BY <1>3, <4>1, <6>1
        <5> QED
          BY <5>1, <5>2
      <4> QED
        BY <1>1, <2>3, <4>1 DEF Asked, Busy
    <3>2. InWire => InWire'
      <4>1. ASSUME NEW i \in 1..Len(wire), wire[i].ask = None
            PROVE  InWire'
        <5>1. i # 1
          BY <2>3, <4>1 DEF line
        <5>2. i - 1 \in 1..Len(wire') /\ (i - 1) + 1 = i
          BY <1>3, <5>1
        <5> QED
          BY <1>3, <4>1, <5>2 DEF InWire
      <4> QED
        BY <4>1 DEF InWire
    <3>3. Asked(ClientGet) => Asked(ClientGet)'
      BY <3>1 DEF ClientGet, Ask, Asks
    <3>4. Reasons => Reasons'
      BY <1>1, <3>2, <3>3 DEF Reasons, InBus
    <3> QED
      BY <1>0, <1>1, <1>13, <1>14, <2>3, <3>4, QuietKeepsShown
  <2> QED
    BY <1>6, <2>1, <2>2, <2>3
<1> QED
  BY <1>10, <1>11, <1>15, <1>16, <1>17, <1>18, <1>20 DEF FeedInv

LEMMA FinishKeeps == ASSUME NEW r \in results PROVE FeedInv /\ Finish(r) => FeedInv'
<1> SUFFICES ASSUME FeedInv, Finish(r)
             PROVE  FeedInv'
  OBVIOUS
<1>0. FeedTypeOK /\ JobInv /\ SentInv /\ LinkInv /\ AskInv /\ ReplyInv /\ PipeInv /\ ShownInv
  BY DEF FeedInv
<1>1. /\ core' = core /\ side' = side /\ handle' = handle /\ newest' = newest /\ job' = job
      /\ conn' = conn /\ online' = online /\ requests' = requests /\ bus' = bus /\ wire' = wire
      /\ calls' = calls /\ results' = results \ {r} /\ left' = left
      /\ page' = IF r.ask.to = "page" THEN "ready" ELSE page
      /\ live' = IF r.ask.to = "page" THEN online ELSE live
  BY DEF Finish, daemonVars, linkVars
<1>2. /\ conn \in Nat /\ core \in Nat /\ side \in Nat
      /\ guard.revision \in Nat /\ guard.observed \in Nat /\ stale \in BOOLEAN
      /\ guard \in [revision : Nat, observed : Nat, confirmed : Nat, sequence : Nat]
      /\ newest[1] \in Nat /\ newest[2] \in Nat /\ newest = <<newest[1], newest[2]>>
      /\ r.ask \in Asks /\ r.status \in Statuses \cup {None} /\ r.ask.number \in Nat
  <2>1. r.ask \in Asks /\ r.status \in Statuses \cup {None}
    BY <1>0 DEF FeedTypeOK
  <2>2. r.ask.number \in Nat
    BY <2>1 DEF Asks
  <2>3. newest[1] \in Nat /\ newest[2] \in Nat /\ newest = <<newest[1], newest[2]>>
    BY <1>0, StatusParts DEF FeedTypeOK
  <2> QED
    BY <1>0, <2>1, <2>2, <2>3 DEF FeedTypeOK
<1>3. Asked(r.ask) /\ Replied(r.ask, r.status) /\ r.ask.to # "client"
  BY <1>0 DEF AskInv, Asked, Replied
<1>4. \/ r.status # None /\ r.ask.to = "tray" /\ Emit(r.status)
      \/ r.status # None /\ r.ask.to = "page" /\ AcceptsSnapshot(r.ask) /\ Show(r.status) /\ stale' = stale
      \/ /\ r.status # None /\ r.ask.to = "command" /\ AcceptsResult(r.ask)
         /\ store' = r.status /\ stale' = stale
         /\ guard' = [guard EXCEPT !.revision = @ + 1, !.confirmed = r.ask.number]
      \/ /\ r.ask.to = "page" => r.status = None \/ ~AcceptsSnapshot(r.ask)
         /\ store' = store /\ guard' = guard /\ stale' = stale
  BY DEF Finish
<1>5. r.ask.to = "page" => r.status # None /\ page # "closed"
  BY <1>0, <1>2, <1>3 DEF AskInv, ReplyInv
<1>6. r.status # None => /\ r.status \in Statuses /\ r.status[1] \in Nat /\ r.status[2] \in Nat
                         /\ r.status = <<r.status[1], r.status[2]>>
                         /\ r.status[1] <= core /\ r.status[2] <= side
  BY <1>0, <1>2, <1>3, StatusParts DEF ReplyInv, AtMost
<1> DEFINE counted == [guard EXCEPT !.revision = guard.revision + 1]
<1>7. guard' = [guard EXCEPT !.revision = @ + 1, !.confirmed = r.ask.number] =>
          /\ guard' \in [revision : Nat, observed : Nat, confirmed : Nat, sequence : Nat]
          /\ guard'.revision = guard.revision + 1 /\ guard'.observed = guard.observed
  <2> SUFFICES ASSUME guard' = [guard EXCEPT !.revision = @ + 1, !.confirmed = r.ask.number]
               PROVE  /\ guard' \in [revision : Nat, observed : Nat, confirmed : Nat, sequence : Nat]
                      /\ guard'.revision = guard.revision + 1 /\ guard'.observed = guard.observed
    OBVIOUS
  <2>1. counted \in [revision : Nat, observed : Nat, confirmed : Nat, sequence : Nat]
        /\ counted.revision = guard.revision + 1 /\ counted.observed = guard.observed
    BY <1>2
  <2>2. guard' = [counted EXCEPT !.confirmed = r.ask.number]
    BY <1>2
  <2> HIDE DEF counted
  <2> QED
    BY <1>2, <2>1, <2>2
<1> HIDE DEF counted
<1>8. /\ guard' \in [revision : Nat, observed : Nat, confirmed : Nat, sequence : Nat]
      /\ guard.revision <= guard'.revision /\ guard.observed <= guard'.observed
  <2>1. CASE Show(r.status)
    BY <1>0, <2>1, ShowIs
  <2>2. CASE guard' = guard
    BY <1>2, <2>2
  <2>3. CASE guard' = [guard EXCEPT !.revision = @ + 1, !.confirmed = r.ask.number]
    BY <1>2, <1>7, <2>3
  <2> QED
    BY <1>4, <2>1, <2>2, <2>3 DEF Emit
<1>9. (stale => stale') /\ stale' \in BOOLEAN
  BY <1>2, <1>4 DEF Emit, Older
<1>10. FeedTypeOK'
  <2>1. page' \in {"closed", "loading", "asking", "ready"} /\ live' \in BOOLEAN
    BY <1>0, <1>1 DEF FeedTypeOK
  <2> QED
    BY <1>0, <1>1, <1>8, <1>9, <2>1 DEF FeedTypeOK
<1>11. JobInv' /\ SentInv'
  BY <1>0, <1>1, <1>2, RestingJobsKeep
<1>12. \A x \in Asks : Asked(x)' => Asked(x)
  BY <1>1 DEF Asked, Busy
<1>13. \A x, s : Replied(x, s)' => Replied(x, s)
  BY <1>1 DEF Replied
<1>14. Asked(ClientGet) => Asked(ClientGet)'
  <2>1. r.ask # ClientGet
    BY <1>3 DEF ClientGet, Ask
  <2> QED
    BY <1>1, <2>1 DEF Asked, Busy
<1>15. Reasons => Reasons'
  <2>1. (InBus' <=> InBus) /\ (InWire' <=> InWire)
    BY <1>1 DEF InBus, InWire
  <2> QED
    BY <1>1, <1>14, <2>1 DEF Reasons
<1>16. LinkInv'
  BY <1>0, <1>1 DEF LinkInv
<1>17. AskInv'
  <2>1. page' = "closed" => page = "closed" /\ (live' => live)
    BY <1>1
  <2> QED
    BY <2>1, <1>0, <1>1, <1>8, <1>10, <1>12, KeepsAsks
<1>18. ReplyInv'
  <2>1. \A i \in 1..Len(wire') : wire'[i].ask = None => wire'[i].status # None
    BY <1>0, <1>1 DEF ReplyInv
  <2>2. core <= core' /\ side <= side'
    BY <1>1, <1>2
  <2> QED
    BY <1>0, <1>13, <1>10, <2>1, <2>2, KeepsReplies
<1>19. PipeInv'
  BY <1>0, <1>1, <1>9, KeepsPipe
<1>20. ~stale' /\ ~Reasons' => RepliedInv /\ LockedInv /\ StoreInv /\ newest = <<core, side>>
  BY <1>0, <1>1, <1>9, <1>15 DEF ShownInv, Reasons
<1>21. ShownInv'
  <2>1. CASE r.status # None /\ r.ask.to = "tray" /\ Emit(r.status)
    <3>1. ~stale' => ~(r.status[1] < newest[1]) /\ ~(r.status[2] < newest[2])
      BY <2>1 DEF Emit, Older
    <3>2. ~Reasons' => newest[1] = core /\ newest[2] = side
      BY <1>2, <1>15, StatusParts DEF Reasons
    <3>3. ~stale' /\ ~Reasons' => r.status[1] = newest[1] /\ r.status[2] = newest[2]
      BY <1>2, <1>6, <2>1, <3>1, <3>2
    <3>4. ~stale' /\ ~Reasons' => r.status = newest'
      BY <1>1, <1>2, <1>6, <2>1, <3>3
    <3>5. page' # "closed" => page # "closed"
      BY <1>1, <2>1
    <3> QED
      BY <1>1, <1>13, <2>1, <3>4, <3>5, ShowKeepsShown DEF Emit
  <2>2. CASE r.status # None /\ r.ask.to = "page" /\ AcceptsSnapshot(r.ask) /\ Show(r.status) /\ stale' = stale
    <3>1. ~stale' /\ ~Reasons' => r.status = newest'
      BY <1>1, <1>2, <1>3, <1>6, <1>20, <2>2 DEF RepliedInv, Acceptable
    <3> QED
      BY <1>1, <1>5, <1>13, <2>2, <3>1, ShowKeepsShown
  <2>3. CASE /\ r.status # None /\ r.ask.to = "command" /\ AcceptsResult(r.ask)
             /\ store' = r.status /\ stale' = stale
             /\ guard' = [guard EXCEPT !.revision = @ + 1, !.confirmed = r.ask.number]
    <3> SUFFICES ASSUME ~stale', ~Reasons'
                 PROVE  (RepliedInv /\ LockedInv /\ StoreInv)'
      BY DEF ShownInv
    <3>1. guard'.revision = guard.revision + 1 /\ guard'.observed = guard.observed
      BY <1>7, <2>3
    <3>2. \A x \in Asks : Asked(x) /\ Acceptable(x)' => Acceptable(x)
      <4>1. \A x \in Asks : Asked(x) /\ x.to = "page" => x.seen <= guard.revision /\ x.seen \in Nat
        BY <1>0 DEF AskInv, Asks
      <4>2. \A x \in Asks : Asked(x) /\ x.to = "page" => guard'.revision # x.seen
        BY <1>2, <3>1, <4>1
      <4> QED
        BY <3>1, <4>2 DEF Acceptable, AcceptsSnapshot
    <3>3. \A x, s : Replied(x, s) => Asked(x)
      BY DEF Replied, Asked, Busy
    <3>4. RepliedInv'
      BY <1>1, <1>13, <1>20, <3>2, <3>3 DEF RepliedInv
    <3>5. LockedInv'
      <4>1. online => conn \in Actors
        BY <1>0, ActorFacts DEF LinkInv, FeedTypeOK
      <4>2. online /\ job[conn].at = "lock" => job[conn].ask \in Asks
        BY <1>0, <4>1 DEF FeedTypeOK, Jobs, JobInv, JobOK
      <4>3. online /\ job[conn].at = "lock" => Asked(job[conn].ask)
        BY DEF Asked, Busy
      <4> QED
        BY <1>1, <1>20, <3>2, <4>2, <4>3 DEF LockedInv
    <3>6. r.status = newest
      BY <1>2, <1>3, <1>6, <1>20, <2>3 DEF RepliedInv, Acceptable, AcceptsResult
    <3>7. StoreInv'
      BY <1>1, <2>3, <3>6 DEF StoreInv
    <3> QED
      BY <3>4, <3>5, <3>7
  <2>4. CASE /\ r.ask.to = "page" => r.status = None \/ ~AcceptsSnapshot(r.ask)
             /\ store' = store /\ guard' = guard /\ stale' = stale
    <3>1. CASE r.ask.to # "page"
      BY <1>0, <1>1, <1>12, <1>13, <1>15, <2>4, <3>1, QuietKeepsShown
    <3>2. CASE r.ask.to = "page"
      <4> SUFFICES ASSUME ~stale', ~Reasons'
                   PROVE  (RepliedInv /\ LockedInv /\ StoreInv)'
        BY DEF ShownInv
      <4>1. \A x : Acceptable(x)' <=> Acceptable(x)
        BY <2>4 DEF Acceptable, AcceptsSnapshot
      <4>2. RepliedInv' /\ LockedInv'
        BY <1>1, <1>13, <1>20, <4>1 DEF RepliedInv, LockedInv
      <4>3. ~Loading
        BY <1>2, <1>3, <1>5, <2>4, <3>2 DEF Loading
      <4>4. StoreInv'
        BY <1>1, <1>5, <1>20, <2>4, <3>2, <4>3 DEF StoreInv
      <4> QED
        BY <4>2, <4>4
    <3> QED
      BY <3>1, <3>2
  <2> QED
    BY <1>4, <2>1, <2>2, <2>3, <2>4
<1> QED
  BY <1>10, <1>11, <1>16, <1>17, <1>18, <1>19, <1>21 DEF FeedInv

\* The invariant, for any number of connections, changes, commands and loads.
THEOREM FeedIsInvariant == FeedSpec => []FeedInv
<1>1. FeedInv /\ [FeedNext]_feedVars => FeedInv'
  <2> SUFFICES ASSUME FeedInv, [FeedNext]_feedVars
               PROVE  FeedInv'
    OBVIOUS
  <2>1. CASE TakeRequest \/ OthersAct \/ Tick \/ SendTelemetry \/ Forward
    BY <2>1, TakeRequestKeeps, OthersActKeeps, TickKeeps, SendTelemetryKeeps, ForwardKeeps
  <2>2. CASE \E a \in Actors : Work(a) \/ ReadSide(a) \/ Assemble(a) \/ SendStatus(a) \/ Reply(a)
    BY <2>2, WorkKeeps, ReadSideKeeps, AssembleKeeps, SendStatusKeeps, ReplyKeeps
  <2>3. CASE Connect \/ Disconnect \/ ReadLine
    BY <2>3, ConnectKeeps, DisconnectKeeps, ReadLineKeeps
  <2>4. CASE Load \/ Tray \/ \E kind \in {"set", "slow"} : Command(kind)
    BY <2>4, LoadKeeps, TrayKeeps, CommandKeeps
  <2>5. CASE (\E ask \in calls : Enqueue(ask)) \/ \E r \in results : Finish(r)
    BY <2>5, EnqueueKeeps, FinishKeeps
  <2>6. CASE UNCHANGED feedVars
    <3>1. /\ core' = core /\ side' = side /\ handle' = handle /\ newest' = newest /\ job' = job
          /\ conn' = conn /\ online' = online /\ requests' = requests /\ bus' = bus /\ wire' = wire
          /\ calls' = calls /\ results' = results /\ page' = page /\ live' = live /\ store' = store
          /\ guard' = guard /\ stale' = stale /\ left' = left
      BY <2>6 DEF feedVars, daemonVars, linkVars, pageVars
    <3>2. FeedTypeOK /\ JobInv /\ SentInv /\ LinkInv /\ AskInv /\ ReplyInv /\ PipeInv /\ ShownInv
      BY DEF FeedInv
    <3>3. FeedTypeOK'
      BY <3>1, <3>2 DEF FeedTypeOK
    <3>4. conn \in Nat /\ guard.revision \in Nat /\ guard.observed \in Nat /\ core \in Nat /\ side \in Nat
      BY <3>2 DEF FeedTypeOK
    <3>5. JobInv' /\ SentInv'
      BY <3>1, <3>2, <3>4, RestingJobsKeep
    <3>6. \A x : Asked(x)' <=> Asked(x)
      BY <3>1 DEF Asked, Busy
    <3>7. \A x, s : Replied(x, s)' <=> Replied(x, s)
      BY <3>1 DEF Replied
    <3>8. LinkInv'
      BY <3>1, <3>2 DEF LinkInv
    <3>9. AskInv'
      BY <3>1, <3>2, <3>6 DEF AskInv
    <3>10. ReplyInv'
      BY <3>1, <3>2, <3>7 DEF ReplyInv, AtMost
    <3>11. PipeInv'
      BY <3>1, <3>2, KeepsPipe
    <3>12. Reasons' <=> Reasons
      BY <3>1, <3>6 DEF Reasons, InBus, InWire
    <3>13. ShownInv'
      BY <3>1, <3>2, <3>6, <3>7, <3>12, QuietKeepsShown
    <3> QED
      BY <3>3, <3>5, <3>8, <3>9, <3>10, <3>11, <3>13 DEF FeedInv
  <2> QED
    BY <2>1, <2>2, <2>3, <2>4, <2>5, <2>6 DEF FeedNext
<1> QED
  BY <1>1, FeedBegins, PTL DEF FeedSpec

\* Once everything in flight has arrived the page shows the daemon's status,
\* unless the last one sent was lost or overtaken, or the EC's handle was lost
\* since the telemetry loop last looked (bridge-init.js 13-55).
THEOREM PageShowsItAtRest == FeedSpec => []PageShowsTheStatus
<1>1. FeedInv => PageShowsTheStatus
  <2> SUFFICES ASSUME FeedInv, Settled, ~stale
               PROVE  store = <<core, side>>
    BY DEF PageShowsTheStatus
  <2>1. FeedTypeOK /\ JobInv /\ SentInv /\ LinkInv /\ ShownInv
    BY DEF FeedInv
  <2>2. /\ page = "ready" /\ online /\ bus = << >> /\ requests = << >> /\ wire = << >>
        /\ calls = {} /\ results = {} /\ \A a \in Actors : job[a].at = "idle"
        /\ handle # "lost"
    BY DEF Settled
  <2>3. newest = <<core, side>>
    <3>1. \A a \in Actors : ~CarriesCore(a) /\ ~CarriesSide(a)
      BY <2>2 DEF CarriesCore, CarriesSide
    <3>2. core = newest[1] /\ side = newest[2] /\ newest = <<newest[1], newest[2]>>
      BY <2>1, <2>2, <3>1, StatusParts DEF SentInv, FeedTypeOK
    <3> QED
      BY <3>2
  <2>4. Len(<< >>) = 0 /\ << >> # None
    <3>1. << >> # None
      BY NoneIsApart DEF Telemetry
    <3> QED
      BY <3>1
  <2>5. conn \in Actors
    BY <2>1, <2>2, ActorFacts DEF LinkInv, FeedTypeOK
  <2>6. ~Asked(ClientGet)
    BY <2>2, <2>4, <2>5 DEF Asked, Busy
  <2>7. ~InBus /\ ~InWire
    BY <2>2, <2>4 DEF InBus, InWire
  <2>8. StoreInv
    BY <2>1, <2>2, <2>3, <2>4, <2>6, <2>7 DEF ShownInv, Reasons
  <2> QED
    BY <2>2, <2>3, <2>8 DEF StoreInv, Loading
<1> QED
  BY <1>1, FeedIsInvariant, PTL
=============================================================================
