--------------------- MODULE MCCodegraphService_proofs ---------------------
(***************************************************************************)
(* The long-running parts of codegraph together: a behaviour of            *)
(* MCCodegraphService is one of each part, so what is proved of the parts  *)
(* holds of it, for any values of the constants of all of them.            *)
(***************************************************************************)
EXTENDS MCCodegraphService, McpServer_proofs, IndexSync_proofs

(* Every step is one of a part, and leaves the variables of the others.    *)
LEMMA StepsAreOfAPart ==
    ASSUME [NextAll]_all
    PROVE  /\ [Next]_vars /\ [StepProxy]_proxyVars /\ [StepEngine]_engineVars
           /\ [StepSync]_syncVars /\ [StepLock]_lockVars /\ [StepPool]_poolVars
BY DEF NextAll, all, vars, pv, ev, kv, proxyVars, proxy, wire, host, engineVars, engine, sessionVars, syncVars,
       lockVars, poolVars

(* What the composition promises is kept: each part runs as its own        *)
(* specification says, whichever part a behaviour is of.                   *)
THEOREM ServiceIsItsParts ==
    SpecAll => Spec /\ SpecProxy /\ SpecEngine /\ SpecSync /\ SpecLock /\ SpecPool
<1>1. InitAll => Init /\ InitProxy /\ InitEngine /\ InitSync /\ InitLock /\ InitPool
  BY DEF InitAll
<1>2. ASSUME [NextAll]_all
      PROVE  /\ [Next]_vars /\ [StepProxy]_proxyVars /\ [StepEngine]_engineVars
             /\ [StepSync]_syncVars /\ [StepLock]_lockVars /\ [StepPool]_poolVars
  BY <1>2, StepsAreOfAPart
<1>3. SpecAll => InitAll /\ [][NextAll]_all
  BY DEF SpecAll
<1> QED
  BY <1>1, <1>2, <1>3, PTL DEF Spec, SpecProxy, SpecEngine, SpecSync, SpecLock, SpecPool

(* Lock files, sockets, buffers, calls, rows and workers hold what the     *)
(* code can put there, in every part of the service.                       *)
THEOREM ServiceTypesHold == SpecAll => []TypesOK
<1>1. TypeOK /\ ProxyTypeOK /\ EngineTypeOK /\ SyncTypeOK /\ LockTypeOK /\ PoolTypeOK => TypesOK
  BY DEF TypesOK
<1> QED
  BY <1>1, ServiceIsItsParts, DaemonTypeCorrect, ProxyTypeCorrect, EngineTypeCorrect, SyncTypes,
     LockTypeCorrect, PoolTypes, PTL

(* The service as a whole: one daemon and its clients counted (daemon.ts), *)
(* answers given once (proxy.ts), one open (engine.ts), stale files        *)
(* flagged, the index lock exclusive and parses their own (sync/,          *)
(* extraction/), but for the cases each property names.                    *)
THEOREM ServiceIsSafe ==
    SpecAll => [](/\ OneDaemonUnlessRaced /\ LiveClientsAreCounted /\ AnsweredOnce
                  /\ OpenedOnce
                  /\ StaleIsFlagged /\ LockExcludes /\ FilesAreIndexed)
BY ServiceIsItsParts, OneDaemonAtATime, LiveClientsStayCounted, RequestsAreAnsweredOnce,
   ProjectIsOpenedOnce, StaleFilesAreFlagged, LockIsExclusive,
   ParsesAreOwnAndComplete, PTL
=============================================================================
