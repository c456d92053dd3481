---------------------------- MODULE DaemonClient ----------------------------
(***************************************************************************)
(* The app's connection to the daemon (app client.rs): callers put commands *)
(* into a bounded queue, one task writes them to the socket under ids of    *)
(* the connection and matches the answers, and connects again when the      *)
(* daemon went away.  Packages are updated apart, so the next daemon may    *)
(* speak another version of the API; server.rs checks it again.             *)
(***************************************************************************)
EXTENDS Naturals, Sequences, SequencesExt

CONSTANTS
    Calls,         \* the calls of Client::request
    QueueSize,     \* of the channel (16)
    MostConnections,  \* bound: how often the app connects
    Mine, Another, \* the API_VERSION of the app, and another one
    Unknown

ASSUME ClientAssumption ==
    /\ QueueSize \in Nat \ {0} /\ MostConnections \in Nat
    /\ Unknown \notin Nat \cup {Mine, Another}

VARIABLES
    mutates,   \* which calls carry a command that changes the hardware
    at,        \* where each call is: "new", "queuing", "waiting", "ok" or "failed"
    answer,    \* the command whose answer it got, or Unknown
    queue,     \* calls in the channel
    version,   \* daemon_api_version: Unknown while unknown
    daemon,    \* the version of the daemon connected to, or Unknown
    pending,   \* which call awaits the answer of each id
    nextId,
    outgoing,  \* lines to the daemon
    incoming,  \* lines to the app
    changed,   \* versions of the daemons this app changed
    connects   \* connections still allowed

callVars == <<mutates, at, answer>>
connectionVars == <<daemon, pending, nextId, outgoing, incoming>>
clientVars == <<callVars, queue, version, connectionVars, changed, connects>>

\* Commands of the client itself.
Subscribe == "subscribe"
GetStatus == "status"

Request(id, what) == [id |-> id, what |-> what]
\* An event has no id; "api" is the version a status tells.
Line(id, what, ok, api) == [id |-> id, what |-> what, ok |-> ok, api |-> api]

NoCalls == [id \in {} |-> Unknown]

ClientInit ==
    /\ mutates \in [Calls -> BOOLEAN]
    /\ at = [c \in Calls |-> "new"]
    /\ answer = [c \in Calls |-> Unknown]
    /\ queue = << >> /\ version = Unknown /\ daemon = Unknown
    /\ pending = NoCalls /\ nextId = 1
    /\ outgoing = << >> /\ incoming = << >>
    /\ changed = {}
    /\ connects = MostConnections

PendingCalls == {pending[id] : id \in DOMAIN pending}

\* Send into the oneshot of those calls; who gave up does not listen.
Tell(calls, result) ==
    at' = [c \in Calls |-> IF c \in calls /\ at[c] = "waiting" THEN result ELSE at[c]]

-----------------------------------------------------------------------------
(* The callers.                                                             *)

\* A command that changes something is refused unless the daemon's version is
\* known to be the app's own.
Give(c) ==
    /\ at[c] = "new"
    /\ at' = [at EXCEPT ![c] = IF mutates[c] /\ version # Mine THEN "failed" ELSE "queuing"]
    /\ UNCHANGED <<mutates, answer, queue, version, connectionVars, changed, connects>>

Enter(c) ==
    /\ at[c] = "queuing" /\ Len(queue) < QueueSize
    /\ at' = [at EXCEPT ![c] = "waiting"]
    /\ queue' = Append(queue, c)
    /\ UNCHANGED <<mutates, answer, version, connectionVars, changed, connects>>

\* QUEUE_TIMEOUT while the channel is full, REQUEST_TIMEOUT while it waits: the
\* command stays where it is.
TimeOut(c) ==
    /\ (at[c] = "queuing" /\ Len(queue) = QueueSize) \/ at[c] = "waiting"
    /\ at' = [at EXCEPT ![c] = "failed"]
    /\ UNCHANGED <<mutates, answer, queue, version, connectionVars, changed, connects>>

-----------------------------------------------------------------------------
(* The task that owns the socket.                                           *)

\* Nobody listens: what is queued fails.
Offline ==
    /\ daemon = Unknown /\ queue # << >>
    /\ Tell(ToSet(queue), "failed")
    /\ queue' = << >>
    /\ UNCHANGED <<mutates, answer, version, connectionVars, changed, connects>>

\* Mutant: the requests of the client itself take no ids.
PrimeWithoutIds ==
    /\ outgoing' = <<Request(1, Subscribe), Request(1, GetStatus)>>
    /\ nextId' = 1

\* Subscribe and ask for the status before anything else.
Prime ==
    /\ outgoing' = <<Request(1, Subscribe), Request(2, GetStatus)>>
    /\ nextId' = 3

Open ==
    /\ daemon = Unknown /\ connects > 0
    /\ daemon' \in {Mine, Another}
    /\ Prime
    /\ pending' = NoCalls /\ incoming' = << >>
    /\ connects' = connects - 1
    /\ UNCHANGED <<callVars, queue, version, changed>>

\* The next command is written, whether its caller still waits or not.
Take ==
    /\ daemon # Unknown /\ queue # << >>
    /\ queue' = Tail(queue)
    /\ outgoing' = Append(outgoing, Request(nextId, Head(queue)))
    /\ pending' = [id \in DOMAIN pending \cup {nextId} |->
                      IF id = nextId THEN Head(queue) ELSE pending[id]]
    /\ nextId' = nextId + 1
    /\ UNCHANGED <<callVars, version, daemon, incoming, changed, connects>>

\* The connection is over, at the daemon's end or because a write failed (its
\* command is lost): pending calls fail, queued ones wait for the next daemon.
Close ==
    /\ daemon # Unknown
    /\ \/ Tell(PendingCalls, "failed") /\ UNCHANGED queue
       \/ /\ queue # << >>
          /\ Tell(PendingCalls \cup {Head(queue)}, "failed") /\ queue' = Tail(queue)
    /\ daemon' = Unknown /\ version' = Unknown
    /\ pending' = NoCalls /\ outgoing' = << >> /\ incoming' = << >>
    /\ UNCHANGED <<mutates, answer, nextId, changed, connects>>

\* An answer goes to the call its id belongs to; one that nobody awaits is the
\* status the client asked for itself.
Read ==
    LET line == Head(incoming)
        mine == line.id \in DOMAIN pending
        call == pending[line.id]
    IN  /\ incoming # << >>
        /\ incoming' = Tail(incoming)
        /\ IF mine
           THEN /\ Tell({call}, IF line.ok THEN "ok" ELSE "failed")
                /\ answer' = IF at[call] = "waiting" /\ line.ok
                             THEN [answer EXCEPT ![call] = line.what] ELSE answer
                /\ pending' = [id \in DOMAIN pending \ {line.id} |-> pending[id]]
           ELSE UNCHANGED <<at, answer, pending>>
        /\ version' = IF ~mine /\ line.api # Unknown THEN line.api ELSE version
        /\ UNCHANGED <<mutates, queue, daemon, nextId, outgoing, changed, connects>>

-----------------------------------------------------------------------------
(* The daemon.                                                              *)

\* Mutant: the daemon trusts its clients.
AdmitsAny(request) == TRUE

\* Commands that change something need the daemon's own version.
Admits(request) ==
    request.what \in Calls => (mutates[request.what] => daemon = Mine)

Process ==
    LET request == Head(outgoing)
        admitted == Admits(request)
    IN  /\ outgoing # << >>
        /\ outgoing' = Tail(outgoing)
        /\ \E ok \in {admitted} \cup IF request.what \in Calls THEN {FALSE} ELSE {} :
              incoming' = Append(incoming, Line(request.id, request.what, ok,
                                          IF request.what = GetStatus THEN daemon ELSE Unknown))
        /\ changed' = IF request.what \in Calls /\ mutates[request.what] /\ admitted
                      THEN changed \cup {daemon} ELSE changed
        /\ UNCHANGED <<callVars, queue, version, daemon, pending, nextId, connects>>

\* A status it broadcasts to its subscribers.
Publish ==
    /\ daemon # Unknown /\ outgoing = << >> /\ incoming = << >>
    /\ incoming' = <<Line(Unknown, Unknown, TRUE, daemon)>>
    /\ UNCHANGED <<callVars, queue, version, daemon, pending, nextId, outgoing, changed, connects>>

ClientNext ==
    \/ \E c \in Calls : Give(c) \/ Enter(c) \/ TimeOut(c)
    \/ Offline \/ Open \/ Take \/ Close \/ Read \/ Process \/ Publish

ClientSpec == ClientInit /\ [][ClientNext]_clientVars

-----------------------------------------------------------------------------
(* Properties.                                                              *)

\* A call that succeeds got the answer to its own command, although ids start
\* over with every connection, the client's own requests use them too, and
\* answers come after their callers gave up (client.rs 141-227).
AnswersAreTheirs == \A c \in Calls : at[c] = "ok" => answer[c] = c

\* The app never changes a daemon of another version (server.rs 297-308),
\* although it checks the version when the command is given and the command may
\* reach the socket of a later daemon (client.rs 42-59, 203-215).
IncompatibleDaemonsAreNotChanged == changed \subseteq {Mine}
=============================================================================
