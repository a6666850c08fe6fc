------------------------------ MODULE McpProxy ------------------------------
(***************************************************************************)
(* The local-handshake proxy of codegraph/src/mcp/proxy.ts: one MCP host   *)
(* on stdin and stdout, the shared daemon behind a socket that connects in *)
(* the background, breaks or never comes, and an engine of its own for     *)
(* what the daemon does not answer.  A run of one event handler up to its  *)
(* next await is one step.                                                 *)
(***************************************************************************)
EXTENDS Naturals, Sequences, FiniteSets

CONSTANTS
    Initialize,    \* the host's initialize request
    Statics,       \* tools/list, resources/list, ... answered from constants
    Calls,         \* tools/call requests
    Others,        \* ping, and requests the proxy has no handler for
    Notes,         \* notifications
    Roots          \* the host's response to the daemon's roots/list

(* Methods and the presence of an id tell the lines apart.                 *)
ASSUME LinesAssumption ==
    /\ Statics \cap (Calls \cup Others) = {} /\ Calls \cap Others = {}
    /\ Initialize \notin Statics \cup Calls \cup Others
    /\ Notes \cap ({Initialize} \cup Statics \cup Calls \cup Others) = {}
    /\ Roots \notin {Initialize} \cup Statics \cup Calls \cup Others \cup Notes

Requests == {Initialize} \cup Statics \cup Calls \cup Others
Lines == Requests \cup Notes \cup {Roots}

VARIABLES
    status,        \* daemonStatus
    running,       \* ~shuttingDown
    pending,       \* lines that wait for the daemon
    inflight,      \* requests the daemon has not answered
    down,          \* lines on their way to the daemon
    daemonJobs,    \* lines the daemon's session is working on
    up,            \* daemon messages on their way to the proxy
    draining,      \* buffered lines served one after the other
    local,         \* calls the in-process engine works on
    unsent,        \* lines the host has not written
    asked,         \* the host has been sent roots/list
    answers        \* how often each line was answered to the host

proxy == <<status, running, pending, inflight, draining, local>>
wire == <<down, daemonJobs, up>>
host == <<unsent, asked, answers>>
proxyVars == <<proxy, wire, host>>

InitProxy ==
    /\ status = "connecting" /\ running = TRUE /\ pending = <<>> /\ inflight = {}
    /\ down = <<>> /\ daemonJobs = {} /\ up = <<>>
    /\ draining = <<>> /\ local = {}
    /\ unsent = Lines /\ asked = FALSE /\ answers = [m \in Lines |-> 0]

Answer(ms) == answers' = [m \in Lines |-> IF m \in ms THEN answers[m] + 1 ELSE answers[m]]

(* What trackInflight remembers: requests, but not the initialize whose    *)
(* answer the host already has.                                            *)
Tracked(ms) == ms \cap (Calls \cup Others)

(* handleLocally up to its await: a call waits for the engine, anything    *)
(* else with an id but initialize is answered at once, if only with an     *)
(* error: the host's response to roots/list included.                      *)
AtOnce(ms) == ms \cap (Others \cup {Roots})
ServeLocally(ms) == local' = local \cup (ms \cap Calls) /\ Answer(AtOnce(ms))

RouteToDaemon(m) ==
    \/ /\ status = "ready" /\ down' = Append(down, m)
       /\ inflight' = inflight \cup Tracked({m})
       /\ UNCHANGED <<pending, local>>
    \/ /\ status = "failed" /\ local' = local \cup ({m} \cap Calls)
       /\ UNCHANGED <<inflight, down, pending>>
    \/ /\ status = "connecting" /\ pending' = Append(pending, m)
       /\ UNCHANGED <<inflight, down, local>>

(* The host opens with initialize and answers roots/list when asked.       *)
MaySend(m) ==
    /\ m \in unsent
    /\ m # Initialize => Initialize \notin unsent
    /\ m = Roots => asked

(* The handshake and the static lists are answered on the spot; all but    *)
(* the lists go on to the daemon, initialize to prime it.                  *)
ReadLine(m) ==
    /\ running /\ MaySend(m) /\ unsent' = unsent \ {m}
    /\ Answer(({m} \cap (Statics \cup {Initialize}))
                \cup (IF status = "failed" THEN AtOnce({m}) ELSE {}))
    /\ IF m \in Statics
       THEN UNCHANGED <<pending, inflight, down, local>>
       ELSE RouteToDaemon(m)
    /\ UNCHANGED <<status, running, draining, daemonJobs, up, asked>>

(* The socket is there: what has waited is sent, and tracked.              *)
DaemonReady ==
    /\ running /\ status = "connecting" /\ status' = "ready"
    /\ inflight' = inflight \cup Tracked({pending[i] : i \in DOMAIN pending})
    /\ down' = down \o pending /\ pending' = <<>>
    /\ UNCHANGED <<running, draining, local, daemonJobs, up, host>>

(* No daemon: what has waited is served one after the other.               *)
DaemonUnavailable ==
    /\ running /\ status = "connecting" /\ status' = "failed"
    /\ draining' = pending /\ pending' = <<>>
    /\ UNCHANGED <<running, inflight, local, wire, host>>

Drain ==
    /\ running /\ draining # <<>> /\ Head(draining) \notin local
    /\ ServeLocally({Head(draining)})
    /\ draining' = IF Head(draining) \in Calls THEN draining ELSE Tail(draining)
    /\ UNCHANGED <<status, running, pending, inflight, wire, unsent, asked>>

(* The await of a call is over: a result, or the error it ended with.      *)
EngineAnswers(m) ==
    /\ running /\ m \in local /\ local' = local \ {m} /\ Answer({m})
    /\ draining' = IF draining # <<>> /\ Head(draining) = m THEN Tail(draining) ELSE draining
    /\ UNCHANGED <<status, running, pending, inflight, wire, unsent, asked>>

RelayTracked(m) ==
    /\ Answer({m} \ {Initialize}) /\ UNCHANGED inflight

(* A line of the daemon: its answer to initialize is suppressed, other     *)
(* answers are no longer in flight, requests are relayed.                  *)
Relay(m) ==
    /\ inflight' = inflight \ {m}
    /\ Answer({m} \ {Initialize})

ReadDaemon ==
    /\ running /\ status = "ready" /\ up # <<>> /\ up' = Tail(up)
    /\ \/ /\ Head(up) = Roots /\ asked' = TRUE /\ UNCHANGED <<inflight, answers>>
       \/ /\ Head(up) # Roots /\ Relay(Head(up)) /\ UNCHANGED asked
    /\ UNCHANGED <<status, running, pending, draining, local, down, daemonJobs, unsent>>

LostDropsInflight ==
    /\ status' = "failed" /\ inflight' = {} /\ UNCHANGED <<local, answers>>

(* onDaemonLost: what the daemon never answered is served in-process.      *)
ReserveOrphans ==
    /\ status' = "failed" /\ inflight' = {} /\ ServeLocally(inflight)

(* The close or error of the socket, with whatever was on it lost.         *)
DaemonLost ==
    /\ running /\ status = "ready" /\ ReserveOrphans
    /\ down' = <<>> /\ up' = <<>> /\ daemonJobs' = {}
    /\ UNCHANGED <<running, pending, draining, unsent, asked>>

(* stdin ends, or the watchdog finds the parent gone.                      *)
Shutdown ==
    /\ running /\ running' = FALSE
    /\ UNCHANGED <<status, pending, inflight, draining, local, wire, host>>

-----------------------------------------------------------------------------
(* The daemon's session (session.ts, transport.ts): lines are taken in     *)
(* order, their answers come in any order, and a request for the host's    *)
(* roots may come before the first answer.                                 *)
SessionReads ==
    /\ running /\ down # <<>> /\ down' = Tail(down)
    /\ daemonJobs' = daemonJobs \cup ({Head(down)} \cap Requests)
    /\ UNCHANGED <<proxy, up, host>>

SessionAnswers(m) ==
    /\ running /\ m \in daemonJobs /\ daemonJobs' = daemonJobs \ {m} /\ up' = Append(up, m)
    /\ UNCHANGED <<proxy, down, host>>

SessionAsksRoots ==
    /\ running /\ daemonJobs \cap Calls # {} /\ ~asked
    /\ Roots \notin {up[i] : i \in DOMAIN up} /\ up' = Append(up, Roots)
    /\ UNCHANGED <<proxy, down, daemonJobs, host>>

StepProxy ==
    \/ \E m \in Lines : ReadLine(m)
    \/ DaemonReady \/ DaemonUnavailable \/ Drain
    \/ \E m \in Calls : EngineAnswers(m)
    \/ ReadDaemon \/ DaemonLost \/ Shutdown
    \/ SessionReads \/ SessionAsksRoots
    \/ \E m \in Requests : SessionAnswers(m)

SpecProxy == InitProxy /\ [][StepProxy]_proxyVars

-----------------------------------------------------------------------------
ProxyTypeOK ==
    /\ status \in {"connecting", "ready", "failed"} /\ running \in BOOLEAN
    /\ pending \in Seq(Lines) /\ inflight \subseteq Calls \cup Others
    /\ down \in Seq(Lines) /\ daemonJobs \subseteq Requests /\ up \in Seq(Lines)
    /\ draining \in Seq(Lines) /\ local \subseteq Calls
    /\ unsent \subseteq Lines /\ asked \in BOOLEAN /\ answers \in [Lines -> Nat]

(* proxy.ts:190-198, 316-327: a request gets one answer, whoever serves it *)
(* (the constants, the daemon, the engine after the daemon died half way), *)
(* and a notification gets none.  The host's response to roots/list is     *)
(* left out: handleLocally takes it for a request and answers it.          *)
AnsweredOnce ==
    /\ \A m \in Requests : answers[m] <= 1
    /\ \A m \in Notes : answers[m] = 0

(* proxy.ts:211-214, 332-336: the daemon may come late, never, or die with *)
(* the request in its hands: "so the host always gets a reply".            *)
NothingOutstanding == ~running \/ \A m \in Requests \ unsent : answers[m] > 0
=============================================================================
