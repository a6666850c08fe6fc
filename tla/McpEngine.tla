----------------------------- MODULE McpEngine ------------------------------
(***************************************************************************)
(* The engine of codegraph/src/mcp (engine.ts, session.ts, transport.ts    *)
(* and execute of tools.ts): the sessions of one process share one         *)
(* CodeGraph connection that is opened lazily, watched, brought up to date *)
(* once in the background, and closed.  What runs between two awaits is    *)
(* one step.  A daemon serves many sessions, a direct server one; only the *)
(* daemon knows the project's path from the start.                         *)
(***************************************************************************)
EXTENDS Naturals, FiniteSets

CONSTANTS
    Sessions,      \* client connections of a daemon
    Direct,        \* the one session of a direct server
    CallNumbers,   \* tool calls of a session
    MaxFailures    \* bound: failed opens

ASSUME EngineAssumption == Direct \in Sessions /\ MaxFailures \in Nat

ToolCalls == Sessions \X CallNumbers

VARIABLES
    mode,          \* "daemon" or "direct"
    indexed,       \* a .codegraph directory exists above the project path
    hinted,        \* the engine's projectPath is set
    opening,       \* initPromise: doInitialize awaits open
    default,       \* the tool handler has a default CodeGraph
    handles,       \* open database connections
    failures,      \* opens that threw
    closed,        \* the engine was stopped
    catchUp,       \* the background sync: "none", "running", "done"
    gate,          \* catchUpGate is set
    greeted,       \* sessions past initialize
    resolving,     \* resolvePromise of a session: "none", "roots", "init"
    rootsAttempted,
    cpc            \* where each tool call is

engine == <<mode, indexed, hinted, opening, default, handles, failures, closed,
            catchUp, gate>>
sessionVars == <<greeted, resolving, rootsAttempted>>
engineVars == <<engine, sessionVars, cpc>>

CallPc == {"idle", "resolving", "asking", "execute", "gated", "served", "failed"}

InitEngine ==
    /\ mode \in {"daemon", "direct"}
    /\ indexed = (mode = "daemon") /\ hinted = (mode = "daemon")
    /\ opening = (mode = "daemon") /\ default = FALSE /\ handles = 0 /\ failures = 0
    /\ closed = FALSE /\ catchUp = "none" /\ gate = FALSE
    /\ greeted = {} /\ resolving = [s \in Sessions |-> "none"] /\ rootsAttempted = {}
    /\ cpc = [c \in ToolCalls |-> "idle"]

Members == IF mode = "daemon" THEN Sessions ELSE {Direct}

(* A project that is indexed after the server started.                     *)
ProjectAppears ==
    /\ ~indexed /\ indexed' = TRUE
    /\ UNCHANGED <<mode, hinted, opening, default, handles, failures, closed, catchUp,
                   gate, sessionVars, cpc>>

-----------------------------------------------------------------------------
(* ensureInitialized up to its await: a closed engine, an open project and *)
(* an init under way are left alone.                                       *)
EnsureAlways(found) == hinted' = TRUE /\ opening' = found

EnsureInitialized(found) ==
    IF closed \/ default \/ opening
    THEN UNCHANGED <<hinted, opening>>
    ELSE hinted' = TRUE /\ opening' = found

(* The connection becomes the default; its catch-up sync starts and is the *)
(* gate of the next call.  Watching is started once per engine.            *)
Adopt ==
    /\ default' = TRUE /\ handles' = handles + 1
    /\ catchUp' = "running" /\ gate' = TRUE

OpenThrows ==
    /\ failures < MaxFailures /\ failures' = failures + 1
    /\ UNCHANGED <<default, handles, catchUp, gate>>

(* doInitialize past its await.  It does not look at closed or default.    *)
Opened ==
    /\ opening /\ opening' = FALSE
    /\ \/ Adopt /\ UNCHANGED failures
       \/ OpenThrows
    /\ UNCHANGED <<mode, indexed, hinted, closed, sessionVars, cpc>>

(* retryInitializeSync.                                                    *)
RetrySync ==
    IF closed \/ default \/ ~indexed
    THEN UNCHANGED <<default, handles, failures, catchUp, gate>>
    ELSE (Adopt /\ UNCHANGED failures) \/ OpenThrows

-----------------------------------------------------------------------------
(* handleInitialize: the answer is sent first, an explicit path kicks off  *)
(* the init.                                                               *)
Greet(s) ==
    /\ s \in Members \ greeted /\ greeted' = greeted \cup {s}
    /\ \/ EnsureInitialized(indexed) /\ resolving' = [resolving EXCEPT ![s] = "init"]
       \/ mode = "direct" /\ UNCHANGED <<hinted, opening, resolving>>
    /\ UNCHANGED <<mode, indexed, default, handles, failures, closed, catchUp, gate,
                   rootsAttempted, cpc>>

(* retryInitIfNeeded from its second layer on.                             *)
RetryInit(c) ==
    \/ /\ default /\ cpc' = [cpc EXCEPT ![c] = "execute"]
       /\ UNCHANGED <<rootsAttempted, default, handles, failures, catchUp, gate>>
       /\ resolving' = [resolving EXCEPT ![c[1]] = "none"]
    \/ /\ ~default /\ ~hinted /\ c[1] \notin rootsAttempted
       /\ rootsAttempted' = rootsAttempted \cup {c[1]}
       /\ resolving' = [resolving EXCEPT ![c[1]] = "roots"]
       /\ cpc' = [cpc EXCEPT ![c] = "asking"]
       /\ UNCHANGED <<default, handles, failures, catchUp, gate>>
    \/ /\ ~default /\ (hinted \/ c[1] \in rootsAttempted)
       /\ RetrySync /\ cpc' = [cpc EXCEPT ![c] = "execute"]
       /\ resolving' = [resolving EXCEPT ![c[1]] = "none"]
       /\ UNCHANGED rootsAttempted

(* handleToolsCall up to its first await.                                  *)
Call(c) ==
    /\ c[1] \in greeted /\ cpc[c] = "idle"
    /\ IF resolving[c[1]] # "none"
       THEN /\ cpc' = [cpc EXCEPT ![c] = "resolving"]
            /\ UNCHANGED <<resolving, rootsAttempted, default, handles, failures, catchUp, gate>>
       ELSE RetryInit(c)
    /\ UNCHANGED <<mode, indexed, hinted, opening, closed, greeted>>

(* The answer to roots/list, its error or its timeout: the root or the     *)
(* working directory is opened.                                            *)
RootsAnswer(s) ==
    /\ resolving[s] = "roots" /\ resolving' = [resolving EXCEPT ![s] = "init"]
    /\ \E found \in {FALSE, indexed} : EnsureInitialized(found)
    /\ UNCHANGED <<mode, indexed, default, handles, failures, closed, catchUp, gate,
                   greeted, rootsAttempted, cpc>>

Resolved(c) ==
    /\ cpc[c] \in {"resolving", "asking"} /\ resolving[c[1]] # "roots" /\ ~opening
    /\ RetryInit(c)
    /\ UNCHANGED <<mode, indexed, hinted, opening, closed, greeted>>

(* execute: whoever finds the gate takes it away and waits; everybody else *)
(* is served at once.                                                      *)
ServeCall(c) == cpc' = [cpc EXCEPT ![c] = IF default /\ ~closed THEN "served" ELSE "failed"]

TakeGate(c) ==
    IF gate THEN gate' = FALSE /\ cpc' = [cpc EXCEPT ![c] = "gated"] ELSE ServeCall(c) /\ UNCHANGED gate

Execute(c) ==
    /\ cpc[c] = "execute" /\ TakeGate(c)
    /\ UNCHANGED <<mode, indexed, hinted, opening, default, handles, failures, closed,
                   catchUp, sessionVars>>

PassGate(c) ==
    /\ cpc[c] = "gated" /\ catchUp # "running" /\ ServeCall(c)
    /\ UNCHANGED <<engine, sessionVars>>

CaughtUp ==
    /\ catchUp = "running" /\ catchUp' = "done"
    /\ UNCHANGED <<mode, indexed, hinted, opening, default, handles, failures, closed, gate,
                   sessionVars, cpc>>

StopAgain ==
    /\ closed' = TRUE /\ handles' = IF default THEN handles - 1 ELSE handles
    /\ UNCHANGED <<mode, indexed, hinted, opening, default, failures, catchUp, gate,
                   sessionVars, cpc>>

(* The daemon ends, or the direct server's stdin does.                     *)
StopEngine ==
    /\ ~closed /\ closed' = TRUE
    /\ handles' = IF default THEN handles - 1 ELSE handles
    /\ UNCHANGED <<mode, indexed, hinted, opening, default, failures, catchUp, gate,
                   sessionVars, cpc>>

StepEngine ==
    \/ ProjectAppears \/ Opened \/ CaughtUp \/ StopEngine
    \/ \E s \in Sessions : Greet(s) \/ RootsAnswer(s)
    \/ \E c \in ToolCalls : Call(c) \/ Resolved(c) \/ Execute(c) \/ PassGate(c)

SpecEngine == InitEngine /\ [][StepEngine]_engineVars

-----------------------------------------------------------------------------
EngineTypeOK ==
    /\ mode \in {"daemon", "direct"} /\ indexed \in BOOLEAN /\ hinted \in BOOLEAN
    /\ opening \in BOOLEAN /\ default \in BOOLEAN /\ closed \in BOOLEAN /\ gate \in BOOLEAN
    /\ handles \in Nat /\ failures \in 0 .. MaxFailures
    /\ catchUp \in {"none", "running", "done"}
    /\ greeted \subseteq Sessions /\ rootsAttempted \subseteq Sessions
    /\ resolving \in [Sessions -> {"none", "roots", "init"}]
    /\ cpc \in [ToolCalls -> CallPc]

(* engine.ts:87-90: "concurrent callers share one in-flight init": however *)
(* sessions and calls interleave, the project is opened once.  After an    *)
(* open that failed it need not be: a call that retries synchronously does *)
(* not see the init another session's initialize has under way.            *)
OpenedOnce == failures = 0 => handles <= 1

(* session.ts:234-241: "Rejects on timeout so callers can fall back rather *)
(* than hang forever": every tool call comes to an answer.                 *)
NoCallWaits == \A c \in ToolCalls : cpc[c] \in {"idle", "served", "failed"}
=============================================================================
