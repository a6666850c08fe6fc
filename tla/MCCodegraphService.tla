------------------------- MODULE MCCodegraphService -------------------------
(***************************************************************************)
(* The long-running parts of codegraph, checked side by side: part says    *)
(* which of them a behaviour is of, and the others keep their initial      *)
(* state.  Each part keeps its own specification, actions and fairness.    *)
(***************************************************************************)
EXTENDS McpDaemon, McpProxy, McpEngine, FileLock, IndexSync, ParsePool

VARIABLE part

pv == <<status, running, pending, inflight, down, daemonJobs, up, draining, local, unsent,
        asked, answers>>
ev == <<mode, indexed, hinted, opening, default, handles, failures, closed, catchUp, gate,
        greeted, resolving, rootsAttempted, cpc>>
kv == <<file, aged, fpc, judged, slow, snatched>>
all == <<part, vars, pv, ev, syncVars, kv, poolVars>>

InitAll ==
    /\ part \in {"daemon", "proxy", "engine", "sync", "lock", "pool"}
    /\ Init /\ (part # "daemon" => lock = NoOne)
    /\ InitProxy
    /\ InitEngine /\ (part # "engine" => mode = "daemon")
    /\ InitSync /\ InitLock /\ InitPool

NextAll ==
    /\ UNCHANGED part
    /\ \/ part = "daemon" /\ Next /\ UNCHANGED <<pv, ev, syncVars, kv, poolVars>>
       \/ part = "proxy" /\ StepProxy /\ UNCHANGED <<vars, ev, syncVars, kv, poolVars>>
       \/ part = "engine" /\ StepEngine /\ UNCHANGED <<vars, pv, syncVars, kv, poolVars>>
       \/ part = "sync" /\ StepSync /\ UNCHANGED <<vars, pv, ev, kv, poolVars>>
       \/ part = "lock" /\ StepLock /\ UNCHANGED <<vars, pv, ev, syncVars, poolVars>>
       \/ part = "pool" /\ StepPool /\ UNCHANGED <<vars, pv, ev, syncVars, kv>>

(* The fairness of each part, of the behaviours that are of it.            *)
Of(p, A) == part = p /\ A

(* Processes run, timers fire, and the close of a socket is signalled      *)
(* unless it is a lossy one.                                               *)
FairDaemon ==
    /\ \A l \in Launchers : WF_vars(Of("daemon", Connect(l) \/ Spawn(l) \/ PollFails(l)))
    /\ \A d \in Daemons :
           /\ WF_vars(Of("daemon", Arbitrate(d)))
           /\ WF_vars(Of("daemon", Serve(d)))
           /\ WF_vars(Of("daemon", Sweep(d))) /\ WF_vars(Of("daemon", IdleTimeout(d)))
           /\ WF_vars(Of("daemon", Quiet(d) /\ Backstop(d)))
           /\ WF_vars(Of("daemon", ReleaseLock(d) \/ Exit(d)))

(* The connection attempt ends one way or the other, and the event loops   *)
(* of proxy and session run.                                               *)
FairProxy ==
    /\ WF_pv(Of("proxy", DaemonReady \/ DaemonUnavailable))
    /\ WF_pv(Of("proxy", Drain)) /\ WF_pv(Of("proxy", ReadDaemon))
    /\ WF_pv(Of("proxy", SessionReads))
    /\ \A m \in Calls : WF_pv(Of("proxy", EngineAnswers(m)))
    /\ \A m \in Requests : WF_pv(Of("proxy", SessionAnswers(m)))

(* Promises settle: the open, the roots request (it has a timeout), the    *)
(* sync, and what awaits them.                                             *)
FairEngine ==
    /\ WF_ev(Of("engine", Opened)) /\ WF_ev(Of("engine", CaughtUp))
    /\ \A s \in Sessions : WF_ev(Of("engine", RootsAnswer(s)))
    /\ \A c \in ToolCalls :
           WF_ev(Of("engine", Resolved(c) \/ Execute(c) \/ PassGate(c)))

(* Events are delivered, timers fire, and jobs run to their end.           *)
FairSync ==
    /\ WF_syncVars(Of("sync", StepWatcher)) /\ WF_syncVars(Of("sync", Flush))
    /\ WF_syncVars(Of("sync", HandleDirEvent)) /\ WF_syncVars(Of("sync", BeginWatchSync))
    /\ \A f \in Files : WF_syncVars(Of("sync", HandleChange(f)))
    /\ \A p \in Procs : WF_syncVars(Of("sync", Work(p)))

(* Workers answer or end, and the extraction loop goes on.                 *)
FairPool ==
    /\ WF_poolVars(Of("pool", \E f \in Sources : Ask(f)))
    /\ WF_poolVars(Of("pool", GrammarsLoaded)) /\ WF_poolVars(Of("pool", EndPass))
    /\ \A w \in Workers :
           /\ WF_poolVars(Of("pool", Answers(w) \/ Crashes(w) \/ Fails(w)))
           /\ WF_poolVars(Of("pool", EndsLate(w)))

SpecAll ==
    /\ InitAll /\ [][NextAll]_all
    /\ FairDaemon /\ FairProxy /\ FairEngine /\ FairSync /\ FairPool
-----------------------------------------------------------------------------
(* Every part's state keeps to its type.                                   *)
TypesOK ==
    /\ TypeOK /\ ProxyTypeOK /\ EngineTypeOK /\ SyncTypeOK
    /\ LockTypeOK /\ PoolTypeOK

(* Nobody waits for ever: launchers get a server, requests and tool calls  *)
(* an answer, and an index run comes to its end.                           *)
WorkEnds ==
    []<>(/\ NobodyWaits /\ NothingOutstanding /\ NoCallWaits
         /\ part = "pool" => IndexingEnded)
=============================================================================
